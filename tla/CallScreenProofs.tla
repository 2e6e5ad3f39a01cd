-------------------------- MODULE CallScreenProofs --------------------------
(***************************************************************************)
(* Theorems about CallScreen, for any number of calls and any queue bound. *)
(***************************************************************************)
EXTENDS CallScreen, SequenceTheorems, TLAPS

(* The inductive invariant.  It follows an incoming call from the note that *)
(* announces it to its screen, and what is still known of it on the way.    *)

Elems(s) == {s[i] : i \in DOMAIN s}

\* The note at i says that the call c comes in.
Announces(i, c) ==
    i \in DOMAIN notes /\ notes[i].state = "RECEIVEDINITIATE" /\ notes[i].call = c
\* The note at i says that the call c is over.
Buries(i, c) == i \in DOMAIN notes /\ notes[i].state \in Ends /\ notes[i].call = c
\* main_thread_ is about to present c, or to decline it.
Coming(c) == delegate.step \in {"callin", "present"} /\ delegate.call = c
Busied(c) == [op |-> "BUSY", call |-> c] \in Elems(cmds)
Declined(c) == [op |-> "DECLINE", call |-> c] \in Elems(cmds)

\* Only calls from outside are announced, presented by main_thread_ or declined
\* as busy.
OnlyIncoming ==
    /\ \A i \in DOMAIN notes, c \in Calls : Announces(i, c) => c \in Incoming
    /\ \A c \in Calls \cup {NoCall} : Coming(c) \/ Busied(c) => c \in Incoming
    /\ delegate.step = "callin" => call_id = delegate.call

\* The user calls only those it may call.
CallsOutgoing == \A m \in Elems(cmds) : m.op = "CALL" => m.call \in Outgoing

\* A call is idle, then announced, then coming, then busied or shown: never two
\* of these at once.
OneAtATime ==
    \A c \in Incoming :
        /\ \A i \in DOMAIN notes : Announces(i, c) =>
             /\ phase[c] # "idle" /\ ~Coming(c) /\ ~Busied(c) /\ c \notin shown
             /\ \A j \in DOMAIN notes : Announces(j, c) => i = j
        /\ Coming(c) => phase[c] # "idle" /\ ~Busied(c) /\ c \notin shown
        /\ Busied(c) => phase[c] # "idle" /\ c \notin shown
        /\ phase[c] = "idle" => c \notin shown

\* The call on the screen has been shown, and an incoming one is not closed.
ScreenIsOpen ==
    /\ screen # NoScreen => screen.call \in shown
    /\ screen.call \in Incoming => screen.call \notin closed

\* A call over before it has a screen is reported after it was announced.
ReportedLater ==
    \A c \in Incoming : phase[c] = "over" /\ c \notin astray =>
        /\ \A i \in DOMAIN notes : Announces(i, c) =>
             \E j \in DOMAIN notes : i < j /\ Buries(j, c)
        /\ Coming(c) => \E j \in DOMAIN notes : Buries(j, c)

\* A decline is for a closed screen.
DeclinedIsClosed ==
    \A c \in Incoming : Declined(c) => c \in closed \cup astray

\* The alert about the call on the screen is for that screen.
AlertIsOwn ==
    delegate.step = "alert" /\ delegate.call \in Incoming
      /\ delegate.call = screen.call => delegate.to = screen.call

IInv == /\ TypeOK /\ OnlyIncoming /\ CallsOutgoing /\ OneAtATime /\ ScreenIsOpen
        /\ ReportedLater
        /\ DeclinedIsClosed /\ AlertIsOwn /\ NoDeafScreen

-----------------------------------------------------------------------------
(* Sequences *)

LEMMA Appended ==
    ASSUME NEW S, NEW s \in Seq(S), NEW e \in S
    PROVE  /\ Append(s, e) \in Seq(S)
           /\ Elems(Append(s, e)) = Elems(s) \cup {e}
  <1>1. /\ Append(s, e) \in Seq(S) /\ DOMAIN Append(s, e) = 1..(Len(s) + 1)
        /\ \A i \in 1..Len(s) : Append(s, e)[i] = s[i]
        /\ Append(s, e)[Len(s) + 1] = e
        /\ DOMAIN s = 1..Len(s) /\ Len(s) \in Nat
    OBVIOUS
  <1>2. Elems(Append(s, e)) \subseteq Elems(s) \cup {e}
    BY <1>1 DEF Elems
  <1>3. Elems(s) \cup {e} \subseteq Elems(Append(s, e))
    BY <1>1 DEF Elems
  <1> QED BY <1>1, <1>2, <1>3

LEMMA Dequeued ==
    ASSUME NEW S, NEW s \in Seq(S), s # <<>>
    PROVE  /\ Tail(s) \in Seq(S) /\ Head(s) \in S /\ Head(s) \in Elems(s)
           /\ Elems(Tail(s)) \subseteq Elems(s)
           /\ Len(Tail(s)) = Len(s) - 1
           /\ \A i \in DOMAIN Tail(s) : i + 1 \in DOMAIN s /\ Tail(s)[i] = s[i + 1]
           /\ 1 \in DOMAIN s /\ s[1] = Head(s)
           /\ \A i \in DOMAIN s : i # 1 => i - 1 \in DOMAIN Tail(s)
  <1>1. /\ DOMAIN s = 1..Len(s) /\ Len(s) \in Nat /\ Len(s) >= 1
        /\ Tail(s) \in Seq(S) /\ Head(s) \in S /\ s[1] = Head(s)
        /\ Len(Tail(s)) = Len(s) - 1
    OBVIOUS
  <1>2. DOMAIN Tail(s) = 1..(Len(s) - 1)
    BY <1>1
  <1>3. \A i \in DOMAIN Tail(s) : i + 1 \in DOMAIN s /\ Tail(s)[i] = s[i + 1]
    BY <1>1, <1>2
  <1>4. Elems(Tail(s)) \subseteq Elems(s)
    BY <1>3 DEF Elems
  <1>5. 1 \in DOMAIN s /\ Head(s) \in Elems(s)
    BY <1>1 DEF Elems
  <1>6. \A i \in DOMAIN s : i # 1 => i - 1 \in DOMAIN Tail(s)
    BY <1>1, <1>2
  <1> QED BY <1>1, <1>3, <1>4, <1>5, <1>6

\* What Report adds to the notes of main_thread_.
Added(c) == /\ notes' \in Seq(Note) /\ Len(notes') > Len(notes)
            /\ \A i \in DOMAIN notes : i \in DOMAIN notes' /\ notes'[i] = notes[i]
            /\ \A i \in DOMAIN notes' \ DOMAIN notes : notes'[i].call = c

LEMMA Reported ==
    ASSUME TypeOK, NEW c \in Calls, NEW states, states \in Seq({n.state : n \in Note}),
           states # <<>>, Report(c, states)
    PROVE  /\ Added(c)
           /\ Len(notes') = Len(notes) + Len(states)
           /\ \A i \in 1..Len(states) : notes'[Len(notes) + i].state = states[i]
  <1> DEFINE more == [i \in DOMAIN states |-> [state |-> states[i], call |-> c]]
  <1>1. /\ DOMAIN states = 1..Len(states) /\ Len(states) \in Nat /\ Len(states) > 0
        /\ \A i \in DOMAIN states : states[i] \in {n.state : n \in Note}
    OBVIOUS
  <1>2. {n.state : n \in Note} \subseteq Ends \cup {"SENTINITIATE", "RECEIVEDINITIATE"}
    BY DEF Note
  <1>3. \A i \in DOMAIN states : /\ more[i] \in Note
                                /\ more[i].state = states[i] /\ more[i].call = c
    BY <1>1, <1>2 DEF Note
  <1>4. more \in Seq(Note) /\ Len(more) = Len(states)
    BY <1>1, <1>3
  <1>5. notes \in Seq(Note) /\ notes' = notes \o more
    BY DEF TypeOK, Report
  <1> HIDE DEF more
  <1>6. /\ notes' \in Seq(Note) /\ Len(notes') = Len(notes) + Len(states)
        /\ DOMAIN notes = 1..Len(notes) /\ DOMAIN notes' = 1..Len(notes')
        /\ Len(notes) \in Nat
        /\ \A i \in 1..Len(notes) : notes'[i] = notes[i]
        /\ \A i \in 1..Len(states) : notes'[Len(notes) + i] = more[i]
    <2>1. /\ notes \o more \in Seq(Note)
          /\ Len(notes \o more) = Len(notes) + Len(more)
          /\ \A i \in 1..(Len(notes) + Len(more)) : (notes \o more)[i] =
               IF i <= Len(notes) THEN notes[i] ELSE more[i - Len(notes)]
      BY <1>4, <1>5, ConcatProperties
    <2>2. /\ DOMAIN notes = 1..Len(notes) /\ DOMAIN notes' = 1..Len(notes')
          /\ Len(notes) \in Nat
      BY <1>5, <2>1
    <2>3. \A i \in 1..Len(notes) : notes'[i] = notes[i]
      BY <1>1, <1>4, <1>5, <2>1, <2>2
    <2>4. \A i \in 1..Len(states) : notes'[Len(notes) + i] = more[i]
      <3> TAKE i \in 1..Len(states)
      <3>1. /\ Len(notes) + i \in 1..(Len(notes) + Len(more))
            /\ ~(Len(notes) + i <= Len(notes)) /\ Len(notes) + i - Len(notes) = i
        BY <1>1, <1>4, <2>2
      <3> QED BY <1>5, <2>1, <3>1
    <2> QED BY <1>4, <1>5, <2>1, <2>2, <2>3, <2>4
  <1>7. \A i \in 1..Len(states) : /\ notes'[Len(notes) + i].state = states[i]
                                  /\ notes'[Len(notes) + i].call = c
    BY <1>1, <1>3, <1>6
  <1>8. \A i \in DOMAIN notes' \ DOMAIN notes : notes'[i].call = c
    <2> TAKE i \in DOMAIN notes' \ DOMAIN notes
    <2>1. i - Len(notes) \in 1..Len(states) /\ i = Len(notes) + (i - Len(notes))
      BY <1>1, <1>6
    <2> QED BY <1>7, <2>1
  <1> QED BY <1>1, <1>6, <1>7, <1>8 DEF Added

-----------------------------------------------------------------------------
(* The signalling thread: what a step of it does to a call and to the notes *)

Frozen == /\ UNCHANGED delegate /\ UNCHANGED call_id /\ UNCHANGED dialing
          /\ UNCHANGED screen /\ UNCHANGED shown /\ UNCHANGED closed
          /\ UNCHANGED astray

Fewer == cmds' \in Seq(Command) /\ Elems(cmds') \subseteq Elems(cmds)

New == DOMAIN notes' \ DOMAIN notes

\* c goes on.
Moves(c) ==
    /\ \E p \in {"calling", "active"} : phase' = [phase EXCEPT ![c] = p]
    /\ \/ UNCHANGED notes
       \/ Added(c) /\ \A i \in New : notes'[i].state = "SENTINITIATE"
\* c is over, and a note says so.
Dies(c) ==
    /\ phase[c] # "idle" /\ phase' = [phase EXCEPT ![c] = "over"]
    /\ Added(c) /\ \A i \in New : notes'[i].state \in Ends
\* c is over, and nobody is told.
Fades(c) ==
    /\ phase[c] # "idle" /\ phase' = [phase EXCEPT ![c] = "over"]
    /\ UNCHANGED notes
    /\ Busied(c) \/ Declined(c)
\* c comes in.
Arrives(c) ==
    /\ c \in Incoming /\ phase[c] = "idle"
    /\ phase' = [phase EXCEPT ![c] = "ringing"]
    /\ Added(c) /\ Len(notes') = Len(notes) + 1
    /\ \A i \in New : notes'[i].state = "RECEIVEDINITIATE"

LEMMA ReportsOne ==
    ASSUME TypeOK, NEW c \in Calls,
           NEW st \in Ends \cup {"SENTINITIATE", "RECEIVEDINITIATE"},
           Report(c, <<st>>)
    PROVE  /\ Added(c) /\ Len(notes') = Len(notes) + 1
           /\ \A i \in New : notes'[i].state = st
  <1>1. {n.state : n \in Note} = Ends \cup {"SENTINITIATE", "RECEIVEDINITIATE"}
    <2>1. {n.state : n \in Note} \subseteq Ends \cup {"SENTINITIATE", "RECEIVEDINITIATE"}
      BY DEF Note
    <2>2. ASSUME NEW x \in Ends \cup {"SENTINITIATE", "RECEIVEDINITIATE"}
          PROVE  x \in {n.state : n \in Note}
      <3>1. [state |-> x, call |-> c] \in Note
        BY DEF Note
      <3> QED BY <3>1
    <2> QED BY <2>1, <2>2
  <1>2. /\ <<st>> \in Seq({n.state : n \in Note}) /\ Len(<<st>>) = 1 /\ <<st>>[1] = st
        /\ <<st>> # <<>>
    BY <1>1
  <1>3. /\ Added(c) /\ Len(notes') = Len(notes) + 1
        /\ \A i \in 1..1 : notes'[Len(notes) + i].state = <<st>>[i]
    BY <1>2, Reported
  <1>4. /\ DOMAIN notes = 1..Len(notes) /\ DOMAIN notes' = 1..Len(notes')
        /\ Len(notes) \in Nat
    BY <1>3 DEF TypeOK, Added
  <1>5. \A i \in New : i = Len(notes) + 1
    BY <1>3, <1>4 DEF New
  <1> QED BY <1>2, <1>3, <1>5

LEMMA ReportsTwo ==
    ASSUME TypeOK, NEW c \in Calls, Report(c, <<"ERROR", "SENTTERMINATE">>)
    PROVE  Added(c) /\ \A i \in New : notes'[i].state \in Ends
  <1> DEFINE two == <<"ERROR", "SENTTERMINATE">>
  <1>1. "ERROR" \in {n.state : n \in Note} /\ "SENTTERMINATE" \in {n.state : n \in Note}
    <2>1. /\ [state |-> "ERROR", call |-> c] \in Note
          /\ [state |-> "SENTTERMINATE", call |-> c] \in Note
      BY DEF Note, Ends
    <2> QED BY <2>1
  <1>2. two \in Seq({n.state : n \in Note}) /\ Len(two) = 2 /\ two # <<>>
    BY <1>1
  <1>3. two[1] \in Ends /\ two[2] \in Ends
    BY DEF Ends
  <1> HIDE DEF two
  <1>4. /\ Added(c) /\ Len(notes') = Len(notes) + 2
        /\ \A i \in 1..2 : notes'[Len(notes) + i].state = two[i]
    BY <1>2, Reported DEF two
  <1>5. /\ DOMAIN notes = 1..Len(notes) /\ DOMAIN notes' = 1..Len(notes')
        /\ Len(notes) \in Nat
    BY <1>4 DEF TypeOK, Added
  <1>6. \A i \in New : i = Len(notes) + 1 \/ i = Len(notes) + 2
    BY <1>4, <1>5 DEF New
  <1> QED BY <1>3, <1>4, <1>6

LEMMA CommandStep ==
    ASSUME TypeOK, CallsOutgoing, OnCommand
    PROVE  /\ Frozen /\ Fewer
           /\ \/ UNCHANGED phase /\ UNCHANGED notes
              \/ \E c \in Calls : Moves(c) \/ Dies(c) \/ Fades(c)
  <1> DEFINE m == Head(cmds)
             c == m.call
             is(p) == c \in Calls /\ phase[c] = p
  <1>1. Frozen /\ cmds # <<>> /\ cmds' = Tail(cmds)
    BY DEF OnCommand, Frozen
  <1>2. /\ cmds \in Seq(Command) /\ phase \in [Calls -> Phases]
    BY DEF TypeOK
  <1>3. Fewer /\ m \in Command /\ m \in Elems(cmds)
    BY <1>1, <1>2, Dequeued DEF Fewer
  <1>4. /\ m.op \in {"CALL", "ACCEPT", "DECLINE", "BUSY", "END"}
        /\ m = [op |-> m.op, call |-> m.call]
    BY <1>3 DEF Command
  <1>5. CASE m.op = "CALL" /\ Become(c, "calling") /\ Report(c, <<"SENTINITIATE">>)
    <2>1. c \in Calls
      BY <1>3, <1>5 DEF CallsOutgoing, Calls
    <2>2. Added(c) /\ \A i \in New : notes'[i].state = "SENTINITIATE"
      BY <1>5, <2>1, ReportsOne
    <2>3. phase' = [phase EXCEPT ![c] = "calling"]
      BY <1>5 DEF Become
    <2>4. Moves(c)
      BY <2>2, <2>3 DEF Moves
    <2> QED BY <1>1, <1>3, <2>1, <2>4
  <1>6. CASE m.op = "ACCEPT" /\ is("ringing") /\ Become(c, "active") /\ UNCHANGED notes
    <2>1. c \in Calls /\ Moves(c)
      BY <1>6 DEF Moves, Become
    <2> QED BY <1>1, <1>3, <2>1
  <1>7. CASE m.op \in {"DECLINE", "BUSY"} /\ is("ringing") /\ Become(c, "over")
               /\ UNCHANGED notes
    <2>1. c \in Calls /\ phase[c] # "idle" /\ phase' = [phase EXCEPT ![c] = "over"]
      BY <1>7 DEF Become
    <2>2. Busied(c) \/ Declined(c)
      BY <1>3, <1>4, <1>7 DEF Busied, Declined
    <2>3. Fades(c)
      BY <1>7, <2>1, <2>2 DEF Fades
    <2> QED BY <1>1, <1>3, <2>1, <2>3
  <1>8. CASE m.op = "END" /\ c \in Calls /\ Live(c) /\ Become(c, "over")
               /\ Report(c, <<"SENTTERMINATE">>)
    <2>1. c \in Calls /\ phase[c] # "idle" /\ phase' = [phase EXCEPT ![c] = "over"]
      BY <1>8 DEF Live, Become
    <2>2. "SENTTERMINATE" \in Ends
      BY DEF Ends
    <2>3. Added(c) /\ \A i \in New : notes'[i].state = "SENTTERMINATE"
      BY <1>8, <2>1, <2>2, ReportsOne
    <2>4. Dies(c)
      BY <2>1, <2>2, <2>3 DEF Dies
    <2> QED BY <1>1, <1>3, <2>1, <2>4
  <1>9. CASE UNCHANGED phase /\ UNCHANGED notes
    BY <1>1, <1>3, <1>9
  <1>10. \/ m.op = "CALL" /\ Become(c, "calling") /\ Report(c, <<"SENTINITIATE">>)
         \/ m.op = "ACCEPT" /\ is("ringing") /\ Become(c, "active") /\ UNCHANGED notes
         \/ m.op \in {"DECLINE", "BUSY"} /\ is("ringing") /\ Become(c, "over")
              /\ UNCHANGED notes
         \/ m.op = "END" /\ c \in Calls /\ Live(c)
              /\ Become(c, "over") /\ Report(c, <<"SENTTERMINATE">>)
         \/ UNCHANGED phase /\ UNCHANGED notes
    BY DEF OnCommand
  <1> QED BY <1>5, <1>6, <1>7, <1>8, <1>9, <1>10

LEMMA NetworkStep ==
    ASSUME TypeOK, Network
    PROVE  /\ Frozen /\ Fewer
           /\ UNCHANGED cmds
           /\ \E c \in Calls : (Moves(c) /\ UNCHANGED notes) \/ Dies(c) \/ Arrives(c)
  <1>1. Engine
    BY DEF Network, ReceiveInitiate, PeerAccepts, NoAnswer, PeerEnds, Fail
  <1>2. Frozen /\ Fewer /\ UNCHANGED cmds
    BY <1>1 DEF Engine, Frozen, Fewer, TypeOK
  <1>3. Outgoing \subseteq Calls /\ Incoming \subseteq Calls
    BY DEF Calls
  <1>4. ASSUME NEW c \in Incoming, ReceiveInitiate(c) PROVE Arrives(c)
    <2>1. phase[c] = "idle" /\ Become(c, "ringing") /\ Report(c, <<"RECEIVEDINITIATE">>)
      BY <1>4 DEF ReceiveInitiate
    <2>2. /\ Added(c) /\ Len(notes') = Len(notes) + 1
          /\ \A i \in New : notes'[i].state = "RECEIVEDINITIATE"
      BY <1>3, <2>1, ReportsOne
    <2> QED BY <2>1, <2>2 DEF Arrives, Become
  <1>5. ASSUME NEW c \in Calls, PeerAccepts(c) PROVE Moves(c) /\ UNCHANGED notes
    BY <1>5 DEF PeerAccepts, Moves, Become
  <1>6. ASSUME NEW c \in Calls, NEW st \in Ends, Live(c), Become(c, "over"),
               Report(c, <<st>>)
        PROVE  Dies(c)
    <2>1. Added(c) /\ \A i \in New : notes'[i].state = st
      BY <1>6, ReportsOne
    <2> QED BY <1>6, <2>1 DEF Dies, Live, Become
  <1>7. {"SENTTERMINATE", "RECEIVEDTERMINATE", "RECEIVEDBUSY"} \subseteq Ends
    BY DEF Ends
  <1>8. ASSUME NEW c \in Calls, NoAnswer(c) \/ PeerEnds(c) PROVE Dies(c)
    <2>1. Live(c) /\ Become(c, "over")
      BY <1>8 DEF NoAnswer, PeerEnds, Live
    <2>2. PICK st \in {"SENTTERMINATE", "RECEIVEDTERMINATE", "RECEIVEDBUSY"} :
            Report(c, <<st>>)
      BY <1>8 DEF NoAnswer, PeerEnds
    <2> QED BY <1>6, <1>7, <2>1, <2>2
  <1>9. ASSUME NEW c \in Calls, Fail(c) PROVE Dies(c)
    <2>1. Live(c) /\ Become(c, "over") /\ Report(c, <<"ERROR", "SENTTERMINATE">>)
      BY <1>9 DEF Fail
    <2>2. Added(c) /\ \A i \in New : notes'[i].state \in Ends
      BY <2>1, ReportsTwo
    <2> QED BY <2>1, <2>2 DEF Dies, Live, Become
  <1>10. \/ \E c \in Incoming : ReceiveInitiate(c)
         \/ \E c \in Calls : PeerAccepts(c) \/ NoAnswer(c) \/ PeerEnds(c) \/ Fail(c)
    BY <1>3 DEF Network
  <1> QED BY <1>2, <1>3, <1>4, <1>5, <1>8, <1>9, <1>10

\* A class step keeps the types, and notes only grow.
LEMMA Grown ==
    ASSUME TypeOK, NEW c \in Calls, Frozen, Fewer,
           Moves(c) \/ Dies(c) \/ Fades(c) \/ Arrives(c)
    PROVE  /\ TypeOK'
           /\ DOMAIN notes \subseteq DOMAIN notes'
           /\ \A i \in DOMAIN notes : notes'[i] = notes[i]
           /\ \A i \in New : notes'[i].call = c
           /\ \A d \in Calls : phase'[d] = phase[d] \/ (d = c /\ phase'[d] # "idle")
           /\ \A d \in Calls : Busied(d)' => Busied(d)
           /\ \A d \in Calls : Declined(d)' => Declined(d)
  <1>1. notes' \in Seq(Note)
    BY DEF TypeOK, Moves, Dies, Fades, Arrives, Added
  <1>2. PICK p \in {"calling", "active", "over", "ringing"} :
          phase' = [phase EXCEPT ![c] = p]
    BY DEF Moves, Dies, Fades, Arrives
  <1>3. /\ phase' \in [Calls -> Phases]
        /\ \A d \in Calls : phase'[d] = phase[d] \/ (d = c /\ phase'[d] # "idle")
    BY <1>2 DEF TypeOK, Phases
  <1>4. TypeOK'
    BY <1>1, <1>3 DEF TypeOK, Frozen, Fewer
  <1>5. /\ DOMAIN notes \subseteq DOMAIN notes'
        /\ \A i \in DOMAIN notes : notes'[i] = notes[i]
        /\ \A i \in New : notes'[i].call = c
    <2>1. CASE UNCHANGED notes
      BY <2>1 DEF New
    <2>2. CASE Added(c)
      BY <2>2 DEF Added, New
    <2> QED BY <2>1, <2>2 DEF Moves, Dies, Fades, Arrives
  <1>6. \A d \in Calls : /\ Busied(d)' => Busied(d)
                         /\ Declined(d)' => Declined(d)
    BY DEF Fewer, Busied, Declined
  <1> QED BY <1>3, <1>4, <1>5, <1>6

LEMMA EngineKeeps ==
    ASSUME IInv, NEW c \in Calls, Frozen, Fewer,
           Moves(c) \/ Dies(c) \/ Fades(c) \/ Arrives(c)
    PROVE  IInv'
  <1>1. /\ TypeOK /\ OnlyIncoming /\ CallsOutgoing /\ OneAtATime /\ ScreenIsOpen
        /\ ReportedLater /\ DeclinedIsClosed /\ AlertIsOwn /\ NoDeafScreen
    BY DEF IInv
  <1>2. /\ TypeOK'
        /\ DOMAIN notes \subseteq DOMAIN notes'
        /\ \A i \in DOMAIN notes : notes'[i] = notes[i]
        /\ \A i \in New : notes'[i].call = c
        /\ \A d \in Calls : phase'[d] = phase[d] \/ (d = c /\ phase'[d] # "idle")
        /\ \A d \in Calls : Busied(d)' => Busied(d)
        /\ \A d \in Calls : Declined(d)' => Declined(d)
    BY <1>1, Grown
  <1>3. Incoming \subseteq Calls /\ Outgoing \subseteq Calls
    BY DEF Calls
  <1>4. \A d \in Calls \cup {NoCall} : Coming(d)' <=> Coming(d)
    BY DEF Frozen, Coming
  <1>5. /\ DOMAIN notes = 1..Len(notes) /\ Len(notes) \in Nat
        /\ DOMAIN notes' = 1..Len(notes')
    BY <1>1, <1>2 DEF TypeOK
  <1>6. \A i \in DOMAIN notes', d \in Calls :
          Announces(i, d)' => \/ Announces(i, d)
                              \/ Arrives(c) /\ d = c /\ i = Len(notes) + 1
    <2> TAKE i \in DOMAIN notes', d \in Calls
    <2> HAVE Announces(i, d)'
    <2>1. CASE i \in DOMAIN notes
      BY <1>2, <2>1 DEF Announces
    <2>2. CASE i \in New
      <3>1. notes'[i].state = "RECEIVEDINITIATE" /\ d = c
        BY <1>2, <2>2 DEF Announces
      <3>2. ~UNCHANGED notes
        BY <2>2 DEF New
      <3>3. Arrives(c)
        BY <2>2, <3>1, <3>2 DEF Moves, Dies, Fades, Ends
      <3>4. i = Len(notes) + 1
        BY <1>5, <2>2, <3>3 DEF Arrives, New
      <3> QED BY <3>1, <3>3, <3>4
    <2> QED BY <2>1, <2>2 DEF New
  <1>7. \A j \in DOMAIN notes, d \in Calls : Buries(j, d) => Buries(j, d)'
    BY <1>2 DEF Buries
  <1>8. OnlyIncoming'
    <2>1. \A i \in DOMAIN notes', d \in Calls : Announces(i, d)' => d \in Incoming
      <3>1. \A i, d : Announces(i, d) => i \in DOMAIN notes
        BY DEF Announces
      <3>2. Arrives(c) => c \in Incoming
        BY DEF Arrives
      <3> QED BY <1>1, <1>6, <3>1, <3>2 DEF OnlyIncoming
    <2>2. \A d \in Calls \cup {NoCall} : (Coming(d) \/ Busied(d))' => d \in Incoming
      <3>1. \A d \in Calls \cup {NoCall} : Busied(d)' => Busied(d)
        BY DEF Fewer, Busied
      <3> QED BY <1>1, <1>4, <3>1 DEF OnlyIncoming
    <2>3. (delegate.step = "callin" => call_id = delegate.call)'
      BY <1>1 DEF Frozen, OnlyIncoming
    <2> QED BY <2>1, <2>2, <2>3 DEF OnlyIncoming
  <1>9. CallsOutgoing'
    BY <1>1 DEF CallsOutgoing, Fewer
  <1>10. OneAtATime'
    <2> SUFFICES ASSUME NEW d \in Incoming
                 PROVE  /\ \A i \in DOMAIN notes' : Announces(i, d)' =>
                             /\ phase'[d] # "idle" /\ ~Coming(d)' /\ ~Busied(d)'
                             /\ d \notin shown'
                             /\ \A j \in DOMAIN notes' : Announces(j, d)' => i = j
                        /\ Coming(d)' => phase'[d] # "idle" /\ ~Busied(d)' /\ d \notin shown'
                        /\ Busied(d)' => phase'[d] # "idle" /\ d \notin shown'
                        /\ phase'[d] = "idle" => d \notin shown'
      BY DEF OneAtATime
    <2>1. d \in Calls /\ shown' = shown
      BY <1>3 DEF Frozen
    <2>2. phase[d] # "idle" => phase'[d] # "idle"
      BY <1>2, <2>1
    <2>3. \A i : Announces(i, d) => i \in DOMAIN notes
      BY DEF Announces
    <2>4. /\ Coming(d)' => phase'[d] # "idle" /\ ~Busied(d)' /\ d \notin shown'
          /\ Busied(d)' => phase'[d] # "idle" /\ d \notin shown'
          /\ phase'[d] = "idle" => d \notin shown'
      BY <1>1, <1>2, <1>4, <2>1, <2>2 DEF OneAtATime
    <2>5. ASSUME NEW i \in DOMAIN notes', Announces(i, d)'
          PROVE  /\ phase'[d] # "idle" /\ ~Coming(d)' /\ ~Busied(d)' /\ d \notin shown'
                 /\ \A j \in DOMAIN notes' : Announces(j, d)' => i = j
      <3>1. CASE Announces(i, d)
        <4>1. /\ phase[d] # "idle" /\ ~Coming(d) /\ ~Busied(d) /\ d \notin shown
              /\ \A j \in DOMAIN notes : Announces(j, d) => i = j
          BY <1>1, <2>3, <3>1 DEF OneAtATime
        <4>2. \A j \in DOMAIN notes' : Announces(j, d)' => Announces(j, d)
          BY <1>6, <2>1, <4>1 DEF Arrives
        <4> QED BY <1>2, <1>4, <2>1, <2>2, <2>3, <4>1, <4>2
      <3>2. CASE Arrives(c) /\ d = c /\ i = Len(notes) + 1
        <4>1. phase[d] = "idle" /\ d \notin shown /\ ~Coming(d) /\ ~Busied(d)
          BY <1>1, <3>2 DEF OneAtATime, Arrives
        <4>2. \A j : ~Announces(j, d)
          BY <1>1, <2>3, <4>1 DEF OneAtATime
        <4>3. phase'[d] # "idle"
          BY <1>1, <2>1, <3>2 DEF TypeOK, Arrives
        <4>4. \A j \in DOMAIN notes' : Announces(j, d)' => j = i
          BY <1>6, <2>1, <3>2, <4>2
        <4> QED BY <1>2, <1>4, <2>1, <4>1, <4>3, <4>4
      <3> QED BY <1>6, <2>1, <2>5, <3>1, <3>2
    <2> QED BY <2>4, <2>5
  <1>11. ScreenIsOpen'
    BY <1>1 DEF ScreenIsOpen, Frozen
  <1>12. ReportedLater'
    <2> SUFFICES ASSUME NEW d \in Incoming, phase'[d] = "over", d \notin astray'
                 PROVE  /\ \A i \in DOMAIN notes' : Announces(i, d)' =>
                             \E j \in DOMAIN notes' : i < j /\ Buries(j, d)'
                        /\ Coming(d)' => \E j \in DOMAIN notes' : Buries(j, d)'
      BY DEF ReportedLater
    <2>1. d \in Calls /\ d \notin astray
      BY <1>3 DEF Frozen
    <2>2. ~Arrives(c) \/ d # c
      BY <1>1, <2>1 DEF Arrives, TypeOK
    <2>3. \A i \in DOMAIN notes' : Announces(i, d)' => i \in DOMAIN notes /\ Announces(i, d)
      BY <1>6, <2>1, <2>2 DEF Announces
    <2>4. CASE phase[d] = "over"
      BY <1>1, <1>2, <1>4, <1>7, <2>1, <2>3, <2>4 DEF ReportedLater
    <2>5. CASE phase[d] # "over"
      <3>1. d = c
        BY <1>2, <2>1, <2>5
      <3>2. ~Moves(c)
        BY <1>1, <2>1, <3>1 DEF TypeOK, Moves
      <3>3. CASE Dies(c)
        <4>1. Added(c) /\ \A i \in New : notes'[i].state \in Ends
          BY <3>3 DEF Dies
        <4>2. Len(notes') \in New /\ Len(notes') > Len(notes)
          BY <1>5, <4>1 DEF New, Added
        <4>3. PICK k \in New : \A i \in DOMAIN notes : i < k
          BY <1>5, <4>2
        <4>4. k \in DOMAIN notes' /\ Buries(k, d)'
          BY <1>2, <3>1, <4>1 DEF New, Buries
        <4> QED BY <2>3, <4>3, <4>4
      <3>4. CASE Fades(c)
        <4>1. Busied(d) \/ Declined(d)
          BY <3>1, <3>4 DEF Fades
        <4>2. Declined(d) => d \in shown
          BY <1>1, <2>1 DEF DeclinedIsClosed, TypeOK
        <4>3. \A i \in DOMAIN notes : ~Announces(i, d)
          BY <1>1, <4>1, <4>2 DEF OneAtATime
        <4>4. ~Coming(d)
          BY <1>1, <4>1, <4>2 DEF OneAtATime
        <4> QED BY <1>4, <2>1, <2>3, <4>3, <4>4
      <3> QED BY <2>2, <3>1, <3>2, <3>3, <3>4
    <2> QED BY <2>4, <2>5
  <1>13. DeclinedIsClosed'
    BY <1>1, <1>2, <1>3 DEF DeclinedIsClosed, Frozen
  <1>14. AlertIsOwn'
    BY <1>1 DEF AlertIsOwn, Frozen
  <1>15. NoDeafScreen'
    <2> SUFFICES ASSUME screen.call \in Incoming, phase'[screen.call] = "over",
                        ~screen.isClose, screen.call \notin astray
                 PROVE  Told(screen.call)'
      <3>1. screen' = screen /\ astray' = astray
        BY DEF Frozen
      <3> QED BY <3>1 DEF NoDeafScreen, Told
    <2> DEFINE d == screen.call
    <2>1. d \in Calls /\ screen' = screen
      BY <1>3 DEF Frozen
    <2>2. CASE phase[d] = "over"
      <3>1. Told(d)
        BY <1>1, <2>2 DEF NoDeafScreen
      <3> QED BY <1>2, <2>1, <3>1 DEF Told, Frozen
    <2>3. CASE phase[d] # "over"
      <3>1. d = c
        BY <1>2, <2>1, <2>3
      <3>2. ~Moves(c) /\ ~Arrives(c)
        BY <1>1, <2>1, <3>1 DEF TypeOK, Moves, Arrives
      <3>3. CASE Dies(c)
        <4>1. Added(c) /\ \A i \in New : notes'[i].state \in Ends
          BY <3>3 DEF Dies
        <4>2. Len(notes') \in New
          BY <1>5, <4>1 DEF New, Added
        <4>3. /\ Len(notes') \in DOMAIN notes' /\ notes'[Len(notes')].call = d
              /\ notes'[Len(notes')].state \in Ends
          BY <1>2, <3>1, <4>1, <4>2 DEF New
        <4> QED BY <2>1, <4>3 DEF Told
      <3>4. CASE Fades(c)
        <4>1. Busied(d) \/ Declined(d)
          BY <3>1, <3>4 DEF Fades
        <4>2. d \in shown /\ d \notin closed
          <5>1. NoScreen.call = NoCall /\ NoCall \notin Incoming
            BY CallsAssumption DEF NoScreen
          <5> QED BY <1>1, <5>1 DEF ScreenIsOpen
        <4>3. d \in astray
          BY <1>1, <4>1, <4>2 DEF DeclinedIsClosed, OneAtATime
        <4> QED BY <4>3
      <3> QED BY <3>1, <3>2, <3>3, <3>4
    <2> QED BY <2>2, <2>3
  <1> QED BY <1>2, <1>8, <1>9, <1>10, <1>11, <1>12, <1>13, <1>14, <1>15 DEF IInv

-----------------------------------------------------------------------------
(* The user *)

LEMMA NothingShown == NoScreen.call = NoCall /\ NoCall \notin Calls /\ NoCall \notin Incoming
  BY CallsAssumption DEF NoScreen, Calls

LEMMA ScreenType ==
    ASSUME screen \in Screen \cup {NoScreen}, screen # NoScreen
    PROVE  /\ screen \in [call : Calls, isInCall : BOOLEAN, isClose : BOOLEAN,
                          alert : Calls \cup {NoCall}]
           /\ screen.alert # NoCall => screen.isClose
  BY DEF Screen

\* A command e is posted, and the screen stays as it is or goes.
LEMMA PostKeeps ==
    ASSUME IInv, UNCHANGED phase, UNCHANGED notes, UNCHANGED delegate,
           UNCHANGED call_id, UNCHANGED shown,
           NEW e \in Command, cmds' = Append(cmds, e), e.op # "BUSY",
           e.op = "CALL" => e.call \in Outgoing,
           e.op = "DECLINE" /\ e.call \in Incoming => e.call \in closed' \cup astray',
           closed \subseteq closed', closed' \subseteq shown,
           astray \subseteq astray', astray' \subseteq Calls \cup {NoCall},
           dialing' \in Outgoing \cup {NoCall},
           \/ screen' = NoScreen
           \/ /\ screen # NoScreen /\ screen' \in Screen /\ closed' = closed
              /\ screen'.call = screen.call /\ screen'.isClose = screen.isClose
    PROVE  IInv'
  <1>1. /\ TypeOK /\ OnlyIncoming /\ CallsOutgoing /\ OneAtATime /\ ScreenIsOpen
        /\ ReportedLater /\ DeclinedIsClosed /\ AlertIsOwn /\ NoDeafScreen
    BY DEF IInv
  <1>2. cmds' \in Seq(Command) /\ Elems(cmds') = Elems(cmds) \cup {e}
    BY <1>1, Appended DEF TypeOK
  <1>3. /\ \A d : Busied(d)' <=> Busied(d)
        /\ \A d : Declined(d)' => Declined(d) \/ (e.op = "DECLINE" /\ e.call = d)
    <2>1. \A d : /\ e = [op |-> "BUSY", call |-> d] => e.op = "BUSY"
                 /\ e = [op |-> "DECLINE", call |-> d] => e.op = "DECLINE" /\ e.call = d
      OBVIOUS
    <2> QED BY <1>2, <2>1 DEF Busied, Declined
  <1>4. /\ \A i, d : Announces(i, d)' <=> Announces(i, d)
        /\ \A i, d : Buries(i, d)' <=> Buries(i, d)
        /\ \A d : Coming(d)' <=> Coming(d)
        /\ \A d : Told(d)' <=> Told(d)
    BY DEF Announces, Buries, Coming, Told
  <1>5. TypeOK'
    BY <1>1, <1>2 DEF TypeOK
  <1>6. OnlyIncoming'
    BY <1>1, <1>3, <1>4 DEF OnlyIncoming
  <1>7. CallsOutgoing'
    BY <1>1, <1>2 DEF CallsOutgoing
  <1>8. OneAtATime'
    BY <1>1, <1>3, <1>4 DEF OneAtATime
  <1>9. ScreenIsOpen'
    BY <1>1, NothingShown DEF ScreenIsOpen
  <1>10. ReportedLater'
    BY <1>1, <1>4 DEF ReportedLater
  <1>11. DeclinedIsClosed'
    BY <1>1, <1>3 DEF DeclinedIsClosed
  <1>12. AlertIsOwn'
    BY <1>1, NothingShown DEF AlertIsOwn
  <1>13. NoDeafScreen'
    BY <1>1, <1>4, NothingShown DEF NoDeafScreen
  <1> QED BY <1>5, <1>6, <1>7, <1>8, <1>9, <1>10, <1>11, <1>12, <1>13 DEF IInv

LEMMA CallClickKeeps ==
    ASSUME IInv, NEW c \in Outgoing, CallClick(c)
    PROVE  IInv'
  <1> DEFINE e == [op |-> "CALL", call |-> c]
  <1>1. e \in Command /\ e.op = "CALL" /\ e.call = c
    BY DEF Command, Calls
  <1>2. /\ cmds' = Append(cmds, e) /\ dialing' = c /\ screen' = NoScreen
        /\ UNCHANGED phase /\ UNCHANGED notes /\ UNCHANGED delegate
        /\ UNCHANGED call_id /\ UNCHANGED shown /\ closed' = closed /\ astray' = astray
    BY DEF CallClick, Post
  <1>3. closed \subseteq shown /\ astray \subseteq Calls \cup {NoCall}
    BY DEF IInv, TypeOK
  <1> HIDE DEF e
  <1> QED BY <1>1, <1>2, <1>3, PostKeeps

\* The two commands that name call_id_.
LEMMA AimKeeps ==
    ASSUME IInv, screen # NoScreen, Aim
    PROVE  /\ screen.call \in shown /\ screen.call \in Calls
           /\ call_id \in Calls \cup {NoCall}
           /\ astray \subseteq astray' /\ astray' \subseteq Calls \cup {NoCall}
           /\ call_id = screen.call \/ call_id \in astray'
  <1>1. screen.call \in Calls
    BY ScreenType DEF IInv, TypeOK
  <1>2. /\ screen.call \in shown /\ call_id \in Calls \cup {NoCall}
        /\ astray \subseteq Calls \cup {NoCall}
    BY DEF IInv, TypeOK, ScreenIsOpen
  <1>3. CASE call_id = screen.call
    BY <1>1, <1>2, <1>3 DEF Aim
  <1>4. CASE call_id # screen.call
    BY <1>1, <1>2, <1>4 DEF Aim
  <1> QED BY <1>3, <1>4

LEMMA AcceptClickKeeps ==
    ASSUME IInv, AcceptClick
    PROVE  IInv'
  <1> DEFINE e == [op |-> "ACCEPT", call |-> call_id]
  <1>1. /\ screen # NoScreen /\ Aim /\ cmds' = Append(cmds, e)
        /\ screen' = [screen EXCEPT !.isInCall = TRUE]
        /\ UNCHANGED phase /\ UNCHANGED notes /\ UNCHANGED delegate
        /\ UNCHANGED call_id /\ UNCHANGED shown /\ closed' = closed
        /\ dialing' = dialing
    BY DEF AcceptClick, Post
  <1>2. e \in Command /\ e.op = "ACCEPT"
    BY <1>1, AimKeeps DEF Command
  <1>3. astray \subseteq astray' /\ astray' \subseteq Calls \cup {NoCall}
    BY <1>1, AimKeeps
  <1>4. closed \subseteq shown /\ dialing \in Outgoing \cup {NoCall}
    BY DEF IInv, TypeOK
  <1>5. /\ screen' \in Screen /\ screen'.call = screen.call
        /\ screen'.isClose = screen.isClose
    BY <1>1, ScreenType DEF IInv, TypeOK, Screen
  <1> HIDE DEF e
  <1> QED BY <1>1, <1>2, <1>3, <1>4, <1>5, PostKeeps

LEMMA CloseClickKeeps ==
    ASSUME IInv, CloseClick
    PROVE  IInv'
  <1>1. PICK op \in {"END", "DECLINE"} :
          cmds' = Append(cmds, [op |-> op, call |-> call_id])
    BY DEF CloseClick, Post
  <1> DEFINE e == [op |-> op, call |-> call_id]
  <1>2. /\ screen # NoScreen /\ Aim /\ cmds' = Append(cmds, e)
        /\ screen' = NoScreen /\ closed' = closed \cup {screen.call}
        /\ UNCHANGED phase /\ UNCHANGED notes /\ UNCHANGED delegate
        /\ UNCHANGED call_id /\ UNCHANGED shown /\ dialing' = dialing
    BY <1>1 DEF CloseClick
  <1>3. e \in Command /\ e.op \in {"END", "DECLINE"} /\ e.call = call_id
    BY <1>2, AimKeeps DEF Command
  <1>4. /\ astray \subseteq astray' /\ astray' \subseteq Calls \cup {NoCall}
        /\ screen.call \in shown /\ call_id \in closed' \cup astray'
    BY <1>2, AimKeeps
  <1>5. closed \subseteq shown /\ dialing \in Outgoing \cup {NoCall}
    BY DEF IInv, TypeOK
  <1>6. closed' \subseteq shown /\ closed \subseteq closed'
    BY <1>2, <1>4, <1>5
  <1> HIDE DEF e
  <1> QED BY <1>2, <1>3, <1>4, <1>5, <1>6, PostKeeps

LEMMA NewScreenType ==
    ASSUME NEW c \in Calls, NEW inCall \in BOOLEAN
    PROVE  /\ NewScreen(c, inCall) \in Screen
           /\ NewScreen(c, inCall).call = c
  BY DEF NewScreen, Screen

LEMMA PresentOutgoingKeeps ==
    ASSUME IInv, PresentOutgoing
    PROVE  IInv'
  <1>1. /\ TypeOK /\ OnlyIncoming /\ CallsOutgoing /\ OneAtATime /\ ScreenIsOpen
        /\ ReportedLater /\ DeclinedIsClosed /\ AlertIsOwn /\ NoDeafScreen
    BY DEF IInv
  <1>2. /\ dialing # NoCall /\ screen' = NewScreen(dialing, TRUE)
        /\ shown' = shown \cup {dialing} /\ dialing' = NoCall
        /\ UNCHANGED phase /\ UNCHANGED cmds /\ UNCHANGED notes /\ UNCHANGED delegate
        /\ UNCHANGED call_id /\ UNCHANGED closed /\ UNCHANGED astray
    BY DEF PresentOutgoing
  <1>3. dialing \in Outgoing /\ dialing \in Calls /\ dialing \notin Incoming
    BY <1>1, <1>2, CallsAssumption DEF TypeOK, Calls
  <1>4. screen' \in Screen /\ screen'.call = dialing
    BY <1>2, <1>3, NewScreenType
  <1>5. /\ \A i, d : Announces(i, d)' <=> Announces(i, d)
        /\ \A i, d : Buries(i, d)' <=> Buries(i, d)
        /\ \A d : Coming(d)' <=> Coming(d)
        /\ \A d : Busied(d)' <=> Busied(d)
        /\ \A d : Declined(d)' <=> Declined(d)
    BY <1>2 DEF Announces, Buries, Coming, Busied, Declined
  <1>6. TypeOK'
    BY <1>1, <1>2, <1>3, <1>4 DEF TypeOK
  <1>7. OnlyIncoming' /\ CallsOutgoing' /\ ReportedLater' /\ DeclinedIsClosed'
    <2>1. OnlyIncoming'
      BY <1>1, <1>2, <1>5 DEF OnlyIncoming
    <2>2. CallsOutgoing'
      BY <1>1, <1>2 DEF CallsOutgoing
    <2>3. ReportedLater'
      BY <1>1, <1>2, <1>5 DEF ReportedLater
    <2>4. DeclinedIsClosed'
      BY <1>1, <1>2, <1>5 DEF DeclinedIsClosed
    <2> QED BY <2>1, <2>2, <2>3, <2>4
  <1>8. OneAtATime'
    <2>1. \A d \in Incoming : d \in shown' <=> d \in shown
      BY <1>2, <1>3
    <2> QED BY <1>1, <1>2, <1>5, <2>1 DEF OneAtATime
  <1>9. ScreenIsOpen' /\ AlertIsOwn' /\ NoDeafScreen'
    BY <1>2, <1>3, <1>4 DEF ScreenIsOpen, AlertIsOwn, NoDeafScreen
  <1> QED BY <1>6, <1>7, <1>8, <1>9 DEF IInv

-----------------------------------------------------------------------------
(* main_thread_ *)

LEMMA RestingType ==
    /\ Resting \in [step : {"rest", "callin", "present", "alert"},
                    call : Calls \cup {NoCall}, to : Calls \cup {NoCall}]
    /\ Resting.step = "rest"
  BY DEF Resting

LEMMA NoteTakenKeeps ==
    ASSUME IInv, OnSignalCallStateChange
    PROVE  IInv'
  <1> DEFINE n == Head(notes)
  <1>1. /\ TypeOK /\ OnlyIncoming /\ CallsOutgoing /\ OneAtATime /\ ScreenIsOpen
        /\ ReportedLater /\ DeclinedIsClosed /\ AlertIsOwn /\ NoDeafScreen
    BY DEF IInv
  <1>2. /\ delegate = Resting /\ notes # <<>> /\ notes' = Tail(notes)
        /\ UNCHANGED phase /\ UNCHANGED cmds /\ UNCHANGED dialing /\ UNCHANGED screen
        /\ UNCHANGED shown /\ UNCHANGED closed /\ UNCHANGED astray
    BY DEF OnSignalCallStateChange
  <1>3. /\ notes' \in Seq(Note) /\ n \in Note /\ 1 \in DOMAIN notes /\ notes[1] = n
        /\ \A i \in DOMAIN notes' : i + 1 \in DOMAIN notes /\ notes'[i] = notes[i + 1]
        /\ \A i \in DOMAIN notes : i # 1 => i - 1 \in DOMAIN notes'
        /\ DOMAIN notes = 1..Len(notes) /\ DOMAIN notes' = 1..Len(notes')
    BY <1>1, <1>2, Dequeued DEF TypeOK
  <1>4. /\ n.call \in Calls /\ n.call # NoCall
        /\ n.state \in Ends \cup {"SENTINITIATE", "RECEIVEDINITIATE"}
    BY <1>3, NothingShown DEF Note
  <1>5. "RECEIVEDINITIATE" \notin Ends
    BY DEF Ends
  <1>6. \/ /\ n.state = "RECEIVEDINITIATE" /\ call_id' = n.call
           /\ delegate' = [step |-> "callin", call |-> n.call, to |-> NoCall]
        \/ /\ n.state \in Ends /\ screen # NoScreen /\ call_id' = call_id
           /\ delegate' = [step |-> "alert", call |-> n.call, to |-> screen.call]
        \/ /\ n.state \in Ends => screen = NoScreen
           /\ n.state # "RECEIVEDINITIATE"
           /\ call_id' \in {call_id, n.call} /\ delegate' = Resting
    <2>1. CASE n.state = "RECEIVEDINITIATE"
      BY <1>5, <2>1 DEF OnSignalCallStateChange
    <2>2. CASE n.state \in Ends
      <3>1. n.state # "RECEIVEDINITIATE" /\ call_id' = call_id
        BY <1>5, <2>2 DEF OnSignalCallStateChange
      <3>2. CASE screen # NoScreen
        BY <2>2, <3>1, <3>2 DEF OnSignalCallStateChange, Observed
      <3>3. CASE screen = NoScreen
        BY <2>2, <3>1, <3>3 DEF OnSignalCallStateChange, Observed
      <3> QED BY <3>2, <3>3
    <2>3. CASE n.state \notin Ends /\ n.state # "RECEIVEDINITIATE"
      BY <2>3 DEF OnSignalCallStateChange
    <2> QED BY <2>1, <2>2, <2>3
  <1>7. /\ \A i \in DOMAIN notes' : \A d : Announces(i, d)' => Announces(i + 1, d)
        /\ \A j \in DOMAIN notes : \A d : j # 1 /\ Buries(j, d) => Buries(j - 1, d)'
        /\ \A i, d : /\ Announces(i, d) => i \in DOMAIN notes
                     /\ Buries(i, d) => i \in DOMAIN notes
                     /\ Announces(i, d)' => i \in DOMAIN notes'
    <2>1. \A i \in DOMAIN notes' : \A d : Announces(i, d)' => Announces(i + 1, d)
      BY <1>3 DEF Announces
    <2>2. \A j \in DOMAIN notes : j # 1 =>
            j - 1 \in DOMAIN notes' /\ notes'[j - 1] = notes[(j - 1) + 1] /\ (j - 1) + 1 = j
      BY <1>3
    <2>3. \A j \in DOMAIN notes : \A d : j # 1 /\ Buries(j, d) => Buries(j - 1, d)'
      BY <2>2 DEF Buries
    <2> QED BY <2>1, <2>3 DEF Announces, Buries
  <1>8. \A d : Coming(d)' => /\ Announces(1, d) /\ d = n.call /\ call_id' = d
                             /\ delegate'.step = "callin"
    <2> TAKE d
    <2> HAVE Coming(d)'
    <2>1. /\ n.state = "RECEIVEDINITIATE" /\ call_id' = n.call
          /\ delegate' = [step |-> "callin", call |-> n.call, to |-> NoCall]
      BY <1>6, RestingType DEF Coming
    <2> QED BY <1>3, <2>1 DEF Coming, Announces
  <1>9. \A d : (Busied(d)' <=> Busied(d)) /\ (Declined(d)' <=> Declined(d))
    BY <1>2 DEF Busied, Declined
  <1>10. Incoming \subseteq Calls
    BY DEF Calls
  <1>11. TypeOK'
    <2>1. screen # NoScreen => screen.call \in Calls
      BY <1>1, ScreenType DEF TypeOK
    <2>2. /\ delegate' \in [step : {"rest", "callin", "present", "alert"},
                           call : Calls \cup {NoCall}, to : Calls \cup {NoCall}]
          /\ call_id' \in Calls \cup {NoCall}
      BY <1>1, <1>4, <1>6, <2>1, RestingType DEF TypeOK
    <2> QED BY <1>1, <1>2, <1>3, <2>2 DEF TypeOK
  <1>12. OnlyIncoming'
    <2>1. \A i \in DOMAIN notes', d \in Calls : Announces(i, d)' => d \in Incoming
      BY <1>1, <1>3, <1>7 DEF OnlyIncoming
    <2>2. \A d \in Calls \cup {NoCall} : (Coming(d) \/ Busied(d))' => d \in Incoming
      BY <1>1, <1>3, <1>4, <1>8, <1>9 DEF OnlyIncoming
    <2>3. (delegate.step = "callin" => call_id = delegate.call)'
      BY <1>6, RestingType
    <2> QED BY <2>1, <2>2, <2>3 DEF OnlyIncoming
  <1>13. CallsOutgoing' /\ DeclinedIsClosed' /\ ScreenIsOpen'
    BY <1>1, <1>2, <1>9 DEF CallsOutgoing, DeclinedIsClosed, ScreenIsOpen
  <1>14. OneAtATime'
    <2> SUFFICES ASSUME NEW d \in Incoming
                 PROVE  /\ \A i \in DOMAIN notes' : Announces(i, d)' =>
                             /\ phase[d] # "idle" /\ ~Coming(d)' /\ ~Busied(d)
                             /\ d \notin shown
                             /\ \A j \in DOMAIN notes' : Announces(j, d)' => i = j
                        /\ Coming(d)' => phase[d] # "idle" /\ ~Busied(d) /\ d \notin shown
                        /\ Busied(d) => phase[d] # "idle" /\ d \notin shown
                        /\ phase[d] = "idle" => d \notin shown
      BY <1>2, <1>9 DEF OneAtATime
    <2>1. \A i \in DOMAIN notes : Announces(i, d) =>
             /\ phase[d] # "idle" /\ ~Busied(d) /\ d \notin shown
             /\ \A j \in DOMAIN notes : Announces(j, d) => i = j
      BY <1>1 DEF OneAtATime
    <2>2. \A i \in DOMAIN notes' : Announces(i, d)' =>
             /\ phase[d] # "idle" /\ ~Busied(d) /\ d \notin shown
             /\ \A j \in DOMAIN notes : Announces(j, d) => i + 1 = j
      BY <1>3, <1>7, <2>1
    <2>3. \A i \in DOMAIN notes' : Announces(i, d)' => ~Coming(d)'
      <3>1. \A i \in DOMAIN notes' : i + 1 # 1
        BY <1>3
      <3> QED BY <1>3, <1>8, <2>2, <3>1
    <2>4. \A i, j \in DOMAIN notes' : Announces(i, d)' /\ Announces(j, d)' => i = j
      <3>1. \A i, j \in DOMAIN notes' : i + 1 = j + 1 => i = j
        BY <1>3
      <3> QED BY <1>3, <1>7, <2>2, <3>1
    <2>5. Coming(d)' => phase[d] # "idle" /\ ~Busied(d) /\ d \notin shown
      BY <1>3, <1>8, <2>1
    <2> QED BY <1>1, <2>2, <2>3, <2>4, <2>5 DEF OneAtATime
  <1>15. ReportedLater'
    <2> SUFFICES ASSUME NEW d \in Incoming, phase[d] = "over", d \notin astray
                 PROVE  /\ \A i \in DOMAIN notes' : Announces(i, d)' =>
                             \E j \in DOMAIN notes' : i < j /\ Buries(j, d)'
                        /\ Coming(d)' => \E j \in DOMAIN notes' : Buries(j, d)'
      BY <1>2 DEF ReportedLater
    <2>1. \A i \in DOMAIN notes : Announces(i, d) =>
            \E j \in DOMAIN notes : i < j /\ Buries(j, d)
      BY <1>1 DEF ReportedLater
    <2>2. \A j \in DOMAIN notes : 1 < j /\ Buries(j, d) =>
            j - 1 \in DOMAIN notes' /\ Buries(j - 1, d)'
      BY <1>3, <1>7
    <2>3. ASSUME NEW i \in DOMAIN notes', Announces(i, d)'
          PROVE  \E j \in DOMAIN notes' : i < j /\ Buries(j, d)'
      <3>1. PICK j \in DOMAIN notes : i + 1 < j /\ Buries(j, d)
        BY <1>3, <1>7, <2>1, <2>3
      <3>2. 1 < j /\ i < j - 1
        BY <1>3, <3>1
      <3> QED BY <2>2, <3>1, <3>2
    <2>4. ASSUME Coming(d)'
          PROVE  \E j \in DOMAIN notes' : Buries(j, d)'
      <3>1. PICK j \in DOMAIN notes : 1 < j /\ Buries(j, d)
        BY <1>3, <1>8, <2>1, <2>4
      <3> QED BY <2>2, <3>1
    <2> QED BY <2>3, <2>4
  <1>16. AlertIsOwn'
    BY <1>2, <1>6, RestingType DEF AlertIsOwn
  <1>17. NoDeafScreen'
    <2> SUFFICES ASSUME screen.call \in Incoming, phase[screen.call] = "over",
                        ~screen.isClose, screen.call \notin astray
                 PROVE  \/ \E i \in DOMAIN notes' : /\ notes'[i].call = screen.call
                                                    /\ notes'[i].state \in Ends
                        \/ delegate'.step = "alert" /\ delegate'.call = screen.call
      BY <1>2 DEF NoDeafScreen, Told
    <2>1. delegate.step # "alert" /\ screen # NoScreen
      BY <1>2, RestingType, NothingShown
    <2>2. PICK i \in DOMAIN notes : notes[i].call = screen.call /\ notes[i].state \in Ends
      BY <1>1, <2>1 DEF NoDeafScreen, Told
    <2>3. CASE i = 1
      <3>1. n.state \in Ends /\ n.call = screen.call
        BY <1>3, <2>2, <2>3
      <3> QED BY <1>5, <1>6, <2>1, <3>1
    <2>4. CASE i # 1
      <3>1. i - 1 \in DOMAIN notes' /\ notes'[i - 1] = notes[(i - 1) + 1] /\ (i - 1) + 1 = i
        BY <1>3, <2>4
      <3> QED BY <2>2, <3>1
    <2> QED BY <2>3, <2>4
  <1> QED BY <1>11, <1>12, <1>13, <1>14, <1>15, <1>16, <1>17 DEF IInv

LEMMA CallInKeeps ==
    ASSUME IInv, someonCallIn
    PROVE  IInv'
  <1>1. /\ TypeOK /\ OnlyIncoming /\ CallsOutgoing /\ OneAtATime /\ ScreenIsOpen
        /\ ReportedLater /\ DeclinedIsClosed /\ AlertIsOwn /\ NoDeafScreen
    BY DEF IInv
  <1>2. /\ delegate.step = "callin"
        /\ UNCHANGED phase /\ UNCHANGED notes /\ UNCHANGED call_id /\ UNCHANGED dialing
        /\ UNCHANGED screen /\ UNCHANGED shown /\ UNCHANGED closed /\ UNCHANGED astray
    BY DEF someonCallIn
  <1> DEFINE e == [op |-> "BUSY", call |-> call_id]
  <1>3. /\ delegate.call = call_id /\ call_id \in Calls \cup {NoCall} /\ Coming(call_id)
    BY <1>1, <1>2 DEF OnlyIncoming, TypeOK, Coming
  <1>4. call_id \in Incoming /\ e \in Command /\ e.op = "BUSY"
    BY <1>1, <1>3 DEF OnlyIncoming, Command
  <1>5. /\ \A i, d : Announces(i, d)' <=> Announces(i, d)
        /\ \A i, d : Buries(i, d)' <=> Buries(i, d)
    BY <1>2 DEF Announces, Buries
  <1>6. CASE screen # NoScreen
    <2>1. cmds' = Append(cmds, e) /\ delegate' = Resting
      BY <1>6 DEF someonCallIn, Post
    <2>2. cmds' \in Seq(Command) /\ Elems(cmds') = Elems(cmds) \cup {e}
      BY <1>1, <1>4, <2>1, Appended DEF TypeOK
    <2>3. /\ \A d : Busied(d)' <=> Busied(d) \/ d = call_id
          /\ \A d : Declined(d)' <=> Declined(d)
          /\ \A d : ~Coming(d)'
      <3>1. \A d : /\ e # [op |-> "DECLINE", call |-> d]
                   /\ e = [op |-> "BUSY", call |-> d] <=> d = call_id
        OBVIOUS
      <3> QED BY <2>1, <2>2, <3>1, RestingType DEF Busied, Declined, Coming
    <2>4. TypeOK'
      BY <1>1, <1>2, <2>1, <2>2, RestingType DEF TypeOK
    <2>5. OnlyIncoming'
      BY <1>1, <1>2, <1>4, <1>5, <2>1, <2>3, RestingType DEF OnlyIncoming
    <2>6. CallsOutgoing'
      BY <1>1, <1>4, <2>2 DEF CallsOutgoing
    <2>7. OneAtATime'
      <3>1. /\ phase[call_id] # "idle" /\ call_id \notin shown
            /\ \A i \in DOMAIN notes : ~Announces(i, call_id)
        BY <1>1, <1>3, <1>4 DEF OneAtATime
      <3> QED BY <1>1, <1>2, <1>5, <2>3, <3>1 DEF OneAtATime
    <2>8. ReportedLater' /\ DeclinedIsClosed' /\ ScreenIsOpen'
      BY <1>1, <1>2, <1>5, <2>3 DEF ReportedLater, DeclinedIsClosed, ScreenIsOpen
    <2>9. AlertIsOwn' /\ NoDeafScreen'
      BY <1>1, <1>2, <2>1, RestingType DEF AlertIsOwn, NoDeafScreen, Told
    <2> QED BY <2>4, <2>5, <2>6, <2>7, <2>8, <2>9 DEF IInv
  <1>7. CASE screen = NoScreen
    <2>1. UNCHANGED cmds /\ delegate' = [delegate EXCEPT !.step = "present"]
      BY <1>7 DEF someonCallIn
    <2>2. /\ delegate' \in [step : {"rest", "callin", "present", "alert"},
                            call : Calls \cup {NoCall}, to : Calls \cup {NoCall}]
          /\ delegate'.step = "present" /\ delegate'.call = delegate.call
      BY <1>1, <2>1 DEF TypeOK
    <2>3. /\ \A d : Coming(d)' <=> Coming(d)
          /\ \A d : Busied(d)' <=> Busied(d)
          /\ \A d : Declined(d)' <=> Declined(d)
      BY <1>2, <2>1, <2>2 DEF Coming, Busied, Declined
    <2>4. TypeOK'
      BY <1>1, <1>2, <2>1, <2>2 DEF TypeOK
    <2>5. OnlyIncoming' /\ CallsOutgoing'
      BY <1>1, <1>2, <1>5, <2>1, <2>2, <2>3 DEF OnlyIncoming, CallsOutgoing
    <2>6. OneAtATime'
      BY <1>1, <1>2, <1>5, <2>3 DEF OneAtATime
    <2>7. ReportedLater'
      BY <1>1, <1>2, <1>5, <2>3 DEF ReportedLater
    <2>8. DeclinedIsClosed' /\ ScreenIsOpen'
      BY <1>1, <1>2, <2>3 DEF DeclinedIsClosed, ScreenIsOpen
    <2>9. AlertIsOwn' /\ NoDeafScreen'
      BY <1>2, <1>7, <2>2, NothingShown DEF AlertIsOwn, NoDeafScreen
    <2> QED BY <2>4, <2>5, <2>6, <2>7, <2>8, <2>9 DEF IInv
  <1> QED BY <1>6, <1>7

LEMMA PresentIncomingKeeps ==
    ASSUME IInv, someonCallInMainThread
    PROVE  IInv'
  <1>1. /\ TypeOK /\ OnlyIncoming /\ CallsOutgoing /\ OneAtATime /\ ScreenIsOpen
        /\ ReportedLater /\ DeclinedIsClosed /\ AlertIsOwn /\ NoDeafScreen
    BY DEF IInv
  <1>2. /\ delegate.step = "present" /\ delegate' = Resting
        /\ UNCHANGED phase /\ UNCHANGED cmds /\ UNCHANGED notes /\ UNCHANGED call_id
        /\ UNCHANGED dialing /\ UNCHANGED closed /\ UNCHANGED astray
    BY DEF someonCallInMainThread
  <1> DEFINE c == delegate.call
  <1>3. c \in Incoming /\ Coming(c) /\ c \in Calls
    BY <1>1, <1>2 DEF OnlyIncoming, TypeOK, Coming, Calls
  <1>4. /\ phase[c] # "idle" /\ ~Busied(c) /\ c \notin shown /\ c \notin closed
        /\ \A i \in DOMAIN notes : ~Announces(i, c)
    BY <1>1, <1>3 DEF OneAtATime, TypeOK
  <1>5. /\ \A i, d : Announces(i, d)' <=> Announces(i, d)
        /\ \A i, d : Buries(i, d)' <=> Buries(i, d)
        /\ \A d : Busied(d)' <=> Busied(d)
        /\ \A d : Declined(d)' <=> Declined(d)
        /\ \A d : ~Coming(d)'
    BY <1>2, RestingType DEF Announces, Buries, Busied, Declined, Coming
  <1>6. \/ screen = NoScreen /\ screen' = NewScreen(c, FALSE) /\ shown' = shown \cup {c}
        \/ screen' = screen /\ shown' = shown
    BY DEF someonCallInMainThread
  <1>7. NewScreen(c, FALSE) \in Screen /\ NewScreen(c, FALSE).call = c
    BY <1>3, NewScreenType
  <1>8. TypeOK'
    BY <1>1, <1>2, <1>3, <1>6, <1>7, RestingType DEF TypeOK
  <1>9. OnlyIncoming' /\ CallsOutgoing' /\ ReportedLater' /\ DeclinedIsClosed'
    <2>1. OnlyIncoming'
      BY <1>1, <1>2, <1>5, RestingType DEF OnlyIncoming
    <2>2. CallsOutgoing' /\ DeclinedIsClosed'
      BY <1>1, <1>2, <1>5 DEF CallsOutgoing, DeclinedIsClosed
    <2>3. ReportedLater'
      BY <1>1, <1>2, <1>5 DEF ReportedLater
    <2> QED BY <2>1, <2>2, <2>3
  <1>10. OneAtATime'
    <2>1. CASE shown' = shown
      BY <1>1, <1>2, <1>5, <2>1 DEF OneAtATime
    <2>2. CASE shown' = shown \cup {c}
      BY <1>1, <1>2, <1>4, <1>5, <2>2 DEF OneAtATime
    <2> QED BY <1>6, <2>1, <2>2
  <1>11. ScreenIsOpen'
    BY <1>1, <1>2, <1>4, <1>6, <1>7 DEF ScreenIsOpen
  <1>12. AlertIsOwn'
    BY <1>2, RestingType DEF AlertIsOwn
  <1>13. NoDeafScreen'
    <2>1. CASE screen' = screen
      BY <1>1, <1>2, <2>1, RestingType DEF NoDeafScreen, Told
    <2>2. CASE screen' = NewScreen(c, FALSE)
      <3>1. phase[c] = "over" /\ c \notin astray =>
              \E j \in DOMAIN notes : Buries(j, c)
        BY <1>1, <1>3 DEF ReportedLater
      <3>2. phase[c] = "over" /\ c \notin astray =>
              \E i \in DOMAIN notes' : notes'[i].call = c /\ notes'[i].state \in Ends
        BY <1>2, <3>1 DEF Buries
      <3>3. screen'.call = c
        BY <1>7, <2>2
      <3> QED BY <1>2, <3>2, <3>3 DEF NoDeafScreen, Told
    <2> QED BY <1>6, <2>1, <2>2
  <1> QED BY <1>8, <1>9, <1>10, <1>11, <1>12, <1>13 DEF IInv

LEMMA AlertKeeps ==
    ASSUME IInv, showAlertView
    PROVE  IInv'
  <1>1. /\ TypeOK /\ OnlyIncoming /\ CallsOutgoing /\ OneAtATime /\ ScreenIsOpen
        /\ ReportedLater /\ DeclinedIsClosed /\ AlertIsOwn /\ NoDeafScreen
    BY DEF IInv
  <1>2. /\ delegate.step = "alert" /\ delegate' = Resting
        /\ UNCHANGED phase /\ UNCHANGED cmds /\ UNCHANGED notes /\ UNCHANGED call_id
        /\ UNCHANGED dialing /\ UNCHANGED shown /\ UNCHANGED closed /\ UNCHANGED astray
    BY DEF showAlertView
  <1>3. /\ \A i, d : Announces(i, d)' <=> Announces(i, d)
        /\ \A i, d : Buries(i, d)' <=> Buries(i, d)
        /\ \A d : Busied(d)' <=> Busied(d)
        /\ \A d : Declined(d)' <=> Declined(d)
        /\ \A d : ~Coming(d)'
    BY <1>2, RestingType DEF Announces, Buries, Busied, Declined, Coming
  <1>4. /\ screen' \in Screen \cup {NoScreen} /\ screen'.call = screen.call
        /\ screen' # NoScreen => screen # NoScreen
        /\ screen.isClose => screen'.isClose
        /\ screen # NoScreen /\ screen.call = delegate.to => screen'.isClose
    <2>1. CASE screen.call = delegate.to /\ ~screen.isClose
      <3>1. screen' = [screen EXCEPT !.isClose = TRUE, !.alert = delegate.call]
        BY <2>1 DEF showAlertView
      <3>2. CASE screen = NoScreen
        <4>1. screen' = NoScreen
          BY <3>1, <3>2 DEF NoScreen
        <4> QED BY <3>2, <4>1
      <3>3. CASE screen # NoScreen
        <4>1. /\ screen \in [call : Calls, isInCall : BOOLEAN, isClose : BOOLEAN,
                             alert : Calls \cup {NoCall}]
              /\ delegate.call \in Calls \cup {NoCall}
          BY <1>1, <3>3, ScreenType DEF TypeOK
        <4> QED BY <3>1, <3>3, <4>1 DEF Screen
      <3> QED BY <3>2, <3>3
    <2>2. CASE ~(screen.call = delegate.to /\ ~screen.isClose)
      <3>1. screen' = screen
        BY <2>2 DEF showAlertView
      <3> QED BY <1>1, <2>2, <3>1 DEF TypeOK
    <2> QED BY <2>1, <2>2
  <1>5. TypeOK'
    BY <1>1, <1>2, <1>4, RestingType DEF TypeOK
  <1>6. OnlyIncoming' /\ CallsOutgoing' /\ ReportedLater' /\ DeclinedIsClosed'
    <2>1. OnlyIncoming'
      BY <1>1, <1>2, <1>3, RestingType DEF OnlyIncoming
    <2>2. CallsOutgoing' /\ DeclinedIsClosed'
      BY <1>1, <1>2, <1>3 DEF CallsOutgoing, DeclinedIsClosed
    <2>3. ReportedLater'
      BY <1>1, <1>2, <1>3 DEF ReportedLater
    <2> QED BY <2>1, <2>2, <2>3
  <1>7. OneAtATime'
    BY <1>1, <1>2, <1>3 DEF OneAtATime
  <1>8. ScreenIsOpen' /\ AlertIsOwn'
    BY <1>1, <1>2, <1>4, RestingType DEF ScreenIsOpen, AlertIsOwn
  <1>9. NoDeafScreen'
    <2> SUFFICES ASSUME screen.call \in Incoming, phase[screen.call] = "over",
                        ~screen'.isClose, screen.call \notin astray
                 PROVE  \E i \in DOMAIN notes : /\ notes[i].call = screen.call
                                                /\ notes[i].state \in Ends
      BY <1>2, <1>4 DEF NoDeafScreen, Told
    <2>1. screen # NoScreen /\ ~screen.isClose /\ screen.call # delegate.to
      BY <1>4, NothingShown
    <2>2. delegate.call # screen.call
      BY <1>1, <1>2, <2>1 DEF AlertIsOwn
    <2> QED BY <1>1, <2>1, <2>2 DEF NoDeafScreen, Told
  <1> QED BY <1>5, <1>6, <1>7, <1>8, <1>9 DEF IInv

-----------------------------------------------------------------------------
(* The theorems *)

LEMMA InitHolds == Init => IInv
  <1> SUFFICES ASSUME Init PROVE IInv
    OBVIOUS
  <1>1. /\ phase = [c \in Calls |-> "idle"] /\ cmds = <<>> /\ notes = <<>>
        /\ delegate = Resting /\ call_id = NoCall /\ dialing = NoCall
        /\ screen = NoScreen /\ shown = {} /\ closed = {} /\ astray = {}
    BY DEF Init
  <1>2. /\ Elems(cmds) = {} /\ DOMAIN notes = {} /\ \A d : ~Coming(d)
    BY <1>1, RestingType DEF Elems, Coming
  <1>3. \A d : ~Busied(d) /\ ~Declined(d)
    BY <1>2 DEF Busied, Declined
  <1>4. TypeOK
    BY <1>1, RestingType DEF TypeOK, Phases
  <1>5. OnlyIncoming /\ CallsOutgoing /\ OneAtATime
    BY <1>1, <1>2, <1>3, RestingType DEF OnlyIncoming, CallsOutgoing, OneAtATime
  <1>6. ScreenIsOpen /\ ReportedLater /\ DeclinedIsClosed /\ AlertIsOwn /\ NoDeafScreen
    BY <1>1, <1>2, <1>3, RestingType, NothingShown
       DEF ScreenIsOpen, ReportedLater, DeclinedIsClosed, AlertIsOwn, NoDeafScreen
  <1> QED BY <1>4, <1>5, <1>6 DEF IInv

\* A step that leaves the calls and the notes alone, like a command without
\* effect, keeps the invariant.
LEMMA NothingKeeps ==
    ASSUME IInv, Frozen, Fewer, UNCHANGED phase, UNCHANGED notes
    PROVE  IInv'
  <1>1. /\ TypeOK /\ OnlyIncoming /\ CallsOutgoing /\ OneAtATime /\ ScreenIsOpen
        /\ ReportedLater /\ DeclinedIsClosed /\ AlertIsOwn /\ NoDeafScreen
    BY DEF IInv
  <1>2. /\ \A i, d : Announces(i, d)' <=> Announces(i, d)
        /\ \A i, d : Buries(i, d)' <=> Buries(i, d)
        /\ \A d : Coming(d)' <=> Coming(d)
        /\ \A d : Busied(d)' => Busied(d)
        /\ \A d : Declined(d)' => Declined(d)
    BY DEF Announces, Buries, Coming, Busied, Declined, Frozen, Fewer
  <1>3. TypeOK'
    BY <1>1 DEF TypeOK, Frozen, Fewer
  <1>4. OnlyIncoming'
    BY <1>1, <1>2 DEF OnlyIncoming, Frozen
  <1>5. CallsOutgoing' /\ DeclinedIsClosed' /\ ScreenIsOpen'
    BY <1>1, <1>2 DEF CallsOutgoing, DeclinedIsClosed, ScreenIsOpen, Frozen, Fewer
  <1>6. OneAtATime'
    BY <1>1, <1>2 DEF OneAtATime, Frozen
  <1>7. ReportedLater'
    BY <1>1, <1>2 DEF ReportedLater, Frozen
  <1>8. AlertIsOwn' /\ NoDeafScreen'
    BY <1>1 DEF AlertIsOwn, NoDeafScreen, Told, Frozen
  <1> QED BY <1>3, <1>4, <1>5, <1>6, <1>7, <1>8 DEF IInv

LEMMA NextKeeps == IInv /\ [Next]_vars => IInv'
  <1> SUFFICES ASSUME IInv, [Next]_vars PROVE IInv'
    OBVIOUS
  <1>1. CASE User
    BY <1>1, CallClickKeeps, AcceptClickKeeps, CloseClickKeeps DEF User
  <1>2. CASE PresentOutgoing
    BY <1>2, PresentOutgoingKeeps
  <1>3. CASE Delegate
    BY <1>3, NoteTakenKeeps, CallInKeeps, PresentIncomingKeeps, AlertKeeps DEF Delegate
  <1>4. CASE OnCommand
    BY <1>4, CommandStep, EngineKeeps, NothingKeeps DEF IInv
  <1>5. CASE Network
    BY <1>5, NetworkStep, EngineKeeps DEF IInv
  <1>6. CASE UNCHANGED vars
    <2>1. Frozen /\ Fewer /\ UNCHANGED phase /\ UNCHANGED notes
      BY <1>6 DEF vars, Frozen, Fewer, IInv, TypeOK
    <2> QED BY <2>1, NothingKeeps
  <1> QED BY <1>1, <1>2, <1>3, <1>4, <1>5, <1>6 DEF Next

LEMMA Invariance == Spec => []IInv
  BY InitHolds, NextKeeps, PTL DEF Spec

\* Every variable keeps its type: only an end shows an alert, and each screen
\* one at most.
THEOREM TypeCorrectness == Spec => []TypeOK
  <1>1. IInv => TypeOK
    BY DEF IInv
  <1> QED BY <1>1, Invariance, PTL

LEMMA BusyUnshown == IInv => BusyOnlyUnshown
  <1> SUFFICES ASSUME IInv, NEW i \in DOMAIN cmds, cmds[i].op = "BUSY"
               PROVE  cmds[i].call \in Incoming \ shown
    BY DEF BusyOnlyUnshown
  <1>1. cmds[i] \in Command /\ cmds[i] \in Elems(cmds)
    BY DEF IInv, TypeOK, Elems
  <1>2. cmds[i].call \in Calls \cup {NoCall} /\ Busied(cmds[i].call)
    <2>1. cmds[i] = [op |-> "BUSY", call |-> cmds[i].call]
      BY <1>1 DEF Command
    <2> QED BY <1>1, <2>1 DEF Command, Busied
  <1> QED BY <1>2 DEF IInv, OnlyIncoming, OneAtATime

\* A screen of an incoming call hears of the call's end, whenever that comes.
THEOREM ScreensHear == Spec => []NoDeafScreen
  <1>1. IInv => NoDeafScreen
    BY DEF IInv
  <1> QED BY <1>1, Invariance, PTL

-----------------------------------------------------------------------------
(* What call_id_ names.  An outgoing call is unsent from the click until     *)
(* main_thread_ takes the note that it was sent; only then call_id_ names    *)
(* it.  Until then its screen may be gone.                                   *)

Placed(i, c) == i \in DOMAIN cmds /\ cmds[i].op = "CALL" /\ cmds[i].call = c
Sent(i, c) == /\ i \in DOMAIN notes
              /\ notes[i].state = "SENTINITIATE" /\ notes[i].call = c

\* Only the user's own calls are sent.
SentOutgoing == \A i \in DOMAIN notes, c \in Calls : Sent(i, c) => c \in Outgoing

\* One command and one note for each call, and never both at once.
CalledOnce ==
    \A c \in Outgoing :
        /\ \A i, j \in DOMAIN cmds : Placed(i, c) /\ Placed(j, c) => i = j
        /\ \A i, j \in DOMAIN notes : Sent(i, c) /\ Sent(j, c) => i = j
        /\ \A i \in DOMAIN cmds, j \in DOMAIN notes : ~(Placed(i, c) /\ Sent(j, c))

\* An unsent call is not in call_id_.  It is on the screen, about to be, or its
\* screen was closed, which sent a command to another call.
UnsentKnown ==
    \A c \in Outgoing : Unsent(c) =>
        call_id # c /\ (c = dialing \/ c = screen.call \/ c \in closed \cap astray)

\* An outgoing call in call_id_ has been dialled.
IdDialled == call_id \in Outgoing => call_id \in shown \cup {dialing}

\* The user dials where nothing is shown, and main_thread_ presents the call it
\* put into call_id_.
OneWindow == /\ dialing # NoCall => screen = NoScreen
             /\ delegate.step = "present" => call_id = delegate.call

Explains(c) == \/ call_id = c
               \/ c \in Outgoing /\ Unsent(c)
               \/ call_id \in Incoming \ shown
               \/ call_id \in Outgoing \cap closed \cap astray

\* call_id_ is explained for the call on the screen and for the next one.
Explained == /\ screen # NoScreen => Explains(screen.call)
             /\ dialing # NoCall => Explains(dialing)

Aimed == /\ SentOutgoing /\ CalledOnce /\ UnsentKnown /\ IdDialled
         /\ OneWindow /\ Explained

LEMMA PostSends ==
    ASSUME TypeOK, CalledOnce, SentOutgoing, NEW e \in Command,
           cmds' = Append(cmds, e), UNCHANGED notes,
           e.op = "CALL" => ~Unsent(e.call)
    PROVE  /\ CalledOnce' /\ SentOutgoing'
           /\ \A c : Unsent(c)' <=> Unsent(c) \/ (e.op = "CALL" /\ c = e.call)
  <1>1. /\ DOMAIN cmds = 1..Len(cmds) /\ DOMAIN cmds' = 1..(Len(cmds) + 1)
        /\ Len(cmds) \in Nat
        /\ \A i \in 1..Len(cmds) : cmds'[i] = cmds[i]
        /\ cmds'[Len(cmds) + 1] = e
    BY DEF TypeOK
  <1>2. \A i, c : Placed(i, c)' <=> \/ Placed(i, c)
                                    \/ i = Len(cmds) + 1 /\ e.op = "CALL" /\ e.call = c
    <2> TAKE i, c
    <2>1. CASE i \in DOMAIN cmds
      <3>1. i # Len(cmds) + 1 /\ i \in DOMAIN cmds' /\ cmds'[i] = cmds[i]
        BY <1>1, <2>1
      <3> QED BY <2>1, <3>1 DEF Placed
    <2>2. CASE i = Len(cmds) + 1
      <3>1. i \notin DOMAIN cmds /\ i \in DOMAIN cmds' /\ cmds'[i] = e
        BY <1>1, <2>2
      <3> QED BY <2>2, <3>1 DEF Placed
    <2>3. CASE i \notin DOMAIN cmds /\ i # Len(cmds) + 1
      <3>1. i \notin DOMAIN cmds'
        BY <1>1, <2>3
      <3> QED BY <2>3, <3>1 DEF Placed
    <2> QED BY <2>1, <2>2, <2>3
  <1>3. \A i, c : Sent(i, c)' <=> Sent(i, c)
    BY DEF Sent
  <1>4. \A c : /\ Unsent(c) <=> (\E i : Placed(i, c)) \/ (\E i : Sent(i, c))
               /\ Unsent(c)' <=> (\E i : Placed(i, c)') \/ (\E i : Sent(i, c)')
    BY DEF Unsent, Placed, Sent
  <1>5. \A i, c : /\ Placed(i, c) => i \in DOMAIN cmds /\ i # Len(cmds) + 1
                  /\ Sent(i, c) => i \in DOMAIN notes
    BY <1>1 DEF Placed, Sent
  <1>6. \A c : Unsent(c)' <=> Unsent(c) \/ (e.op = "CALL" /\ c = e.call)
    BY <1>2, <1>3, <1>4
  <1>7. SentOutgoing'
    BY <1>3 DEF SentOutgoing
  <1>8. CalledOnce'
    <2> SUFFICES ASSUME NEW c \in Outgoing
                 PROVE  /\ \A i, j : Placed(i, c)' /\ Placed(j, c)' => i = j
                        /\ \A i, j : Sent(i, c)' /\ Sent(j, c)' => i = j
                        /\ \A i, j : ~(Placed(i, c)' /\ Sent(j, c)')
      BY DEF CalledOnce
    <2>1. /\ \A i, j : Placed(i, c) /\ Placed(j, c) => i = j
          /\ \A i, j : Sent(i, c) /\ Sent(j, c) => i = j
          /\ \A i, j : ~(Placed(i, c) /\ Sent(j, c))
      BY <1>5 DEF CalledOnce
    <2>2. e.op = "CALL" /\ e.call = c => \A i : ~Placed(i, c) /\ ~Sent(i, c)
      BY <1>4
    <2> QED BY <1>2, <1>3, <2>1, <2>2
  <1> QED BY <1>6, <1>7, <1>8

LEMMA TakenSent ==
    ASSUME TypeOK, CalledOnce, SentOutgoing, UNCHANGED cmds,
           notes # <<>>, notes' = Tail(notes)
    PROVE  /\ CalledOnce' /\ SentOutgoing'
           /\ \A c : Unsent(c)' => Unsent(c)
           /\ \A c : Unsent(c) /\ ~Sent(1, c) => Unsent(c)'
           /\ \A c \in Outgoing : Sent(1, c) => Unsent(c) /\ ~Unsent(c)'
  <1>1. /\ \A i \in DOMAIN notes' : i + 1 \in DOMAIN notes /\ notes'[i] = notes[i + 1]
        /\ \A i \in DOMAIN notes : i # 1 => i - 1 \in DOMAIN notes'
        /\ DOMAIN notes = 1..Len(notes) /\ DOMAIN notes' = 1..Len(notes')
        /\ Len(notes) \in Nat
    BY Dequeued DEF TypeOK
  <1>2. \A i, c : Placed(i, c)' <=> Placed(i, c)
    BY DEF Placed
  <1>3. \A i, c : Sent(i, c)' => i \in DOMAIN notes' /\ Sent(i + 1, c)
    BY <1>1 DEF Sent
  <1>4. \A i, c : Sent(i, c) /\ i # 1 => \E j : Sent(j, c)'
    <2> TAKE i, c
    <2> HAVE Sent(i, c) /\ i # 1
    <2>1. /\ i - 1 \in DOMAIN notes' /\ notes'[i - 1] = notes[(i - 1) + 1]
          /\ (i - 1) + 1 = i
      BY <1>1 DEF Sent
    <2> QED BY <2>1 DEF Sent
  <1>5. \A c : /\ Unsent(c) <=> (\E i : Placed(i, c)) \/ (\E i : Sent(i, c))
               /\ Unsent(c)' <=> (\E i : Placed(i, c)') \/ (\E i : Sent(i, c)')
    BY DEF Unsent, Placed, Sent
  <1>6. \A i, c : /\ Placed(i, c) => i \in DOMAIN cmds
                  /\ Sent(i, c) => i \in DOMAIN notes
    BY DEF Placed, Sent
  <1>7. \A i, j \in DOMAIN notes' : i + 1 # 1 /\ (i + 1 = j + 1 => i = j)
    BY <1>1
  <1>8. SentOutgoing'
    <2> SUFFICES ASSUME NEW i \in DOMAIN notes', NEW c \in Calls, Sent(i, c)'
                 PROVE  c \in Outgoing
      BY DEF SentOutgoing
    <2> QED BY <1>1, <1>3 DEF SentOutgoing
  <1>9. ASSUME NEW c \in Outgoing
        PROVE  /\ \A i, j : Placed(i, c) /\ Placed(j, c) => i = j
               /\ \A i, j : Sent(i, c) /\ Sent(j, c) => i = j
               /\ \A i, j : ~(Placed(i, c) /\ Sent(j, c))
    BY <1>6 DEF CalledOnce
  <1>10. CalledOnce'
    <2> SUFFICES ASSUME NEW c \in Outgoing
                 PROVE  /\ \A i, j : Placed(i, c)' /\ Placed(j, c)' => i = j
                        /\ \A i, j : Sent(i, c)' /\ Sent(j, c)' => i = j
                        /\ \A i, j : ~(Placed(i, c)' /\ Sent(j, c)')
      BY DEF CalledOnce
    <2>1. \A i, j : Sent(i, c)' /\ Sent(j, c)' => i = j
      BY <1>3, <1>7, <1>9
    <2> QED BY <1>2, <1>3, <1>9, <2>1
  <1>11. \A c : Unsent(c)' => Unsent(c)
    BY <1>2, <1>3, <1>5
  <1>12. \A c : Unsent(c) /\ ~Sent(1, c) => Unsent(c)'
    BY <1>2, <1>4, <1>5
  <1>13. \A c \in Outgoing : Sent(1, c) => Unsent(c) /\ ~Unsent(c)'
    <2> TAKE c \in Outgoing
    <2> HAVE Sent(1, c)
    <2>1. \A i : ~Placed(i, c)'
      BY <1>2, <1>9
    <2>2. \A i : ~Sent(i, c)'
      BY <1>3, <1>7, <1>9
    <2> QED BY <1>5, <2>1, <2>2
  <1> QED BY <1>8, <1>10, <1>11, <1>12, <1>13

\* A command leaves its queue; a call that it makes leaves a note.
LEMMA CommandNotes ==
    ASSUME TypeOK, CallsOutgoing, OnCommand
    PROVE  /\ cmds # <<>> /\ cmds' = Tail(cmds)
           /\ \A i, c : Sent(i, c)' <=> \/ Sent(i, c)
                                        \/ /\ i = Len(notes) + 1
                                           /\ Placed(1, c) /\ c \in Outgoing
           /\ \A i, c : Sent(i, c) => i # Len(notes) + 1
           /\ \A c : Placed(1, c) => c \in Outgoing
  <1> DEFINE m == Head(cmds)
  <1>1. cmds # <<>> /\ cmds' = Tail(cmds)
    BY DEF OnCommand
  <1>2. m \in Command /\ m \in Elems(cmds) /\ 1 \in DOMAIN cmds /\ cmds[1] = m
    BY <1>1, Dequeued DEF TypeOK
  <1>3. \A c : /\ Placed(1, c) <=> m.op = "CALL" /\ m.call = c
               /\ Placed(1, c) => c \in Outgoing
    BY <1>2 DEF Placed, CallsOutgoing
  <1>4. DOMAIN notes = 1..Len(notes) /\ Len(notes) \in Nat
    BY DEF TypeOK
  <1>5. \A i, c : Sent(i, c) => i # Len(notes) + 1
    BY <1>4 DEF Sent
  <1>6. CASE m.op = "CALL"
    <2>1. m.call \in Outgoing /\ m.call \in Calls
      BY <1>2, <1>6 DEF CallsOutgoing, Calls
    <2>2. Report(m.call, <<"SENTINITIATE">>)
      BY <1>6 DEF OnCommand
    <2>3. /\ Added(m.call) /\ Len(notes') = Len(notes) + 1
          /\ \A i \in New : notes'[i].state = "SENTINITIATE"
      BY <2>1, <2>2, ReportsOne
    <2>4. /\ DOMAIN notes' = 1..(Len(notes) + 1)
          /\ \A i \in DOMAIN notes : i \in DOMAIN notes' /\ notes'[i] = notes[i]
          /\ \A i \in New : notes'[i].call = m.call
          /\ \A i : i \in New <=> i = Len(notes) + 1
      BY <1>4, <2>3 DEF Added, New
    <2>5. \A i, c : Sent(i, c)' <=> Sent(i, c) \/ (i = Len(notes) + 1 /\ c = m.call)
      <3> TAKE i, c
      <3>1. CASE i \in DOMAIN notes
        BY <1>4, <2>4, <3>1 DEF Sent
      <3>2. CASE i \in New
        BY <2>3, <2>4, <3>2 DEF Sent, New
      <3>3. CASE i \notin DOMAIN notes /\ i \notin New
        BY <2>4, <3>3 DEF Sent, New
      <3> QED BY <3>1, <3>2, <3>3
    <2> QED BY <1>1, <1>3, <1>5, <1>6, <2>1, <2>5
  <1>7. CASE m.op # "CALL"
    <2>1. UNCHANGED notes \/ \E c \in Calls : Report(c, <<"SENTTERMINATE">>)
      BY <1>7 DEF OnCommand
    <2>2. \A i, c : Sent(i, c)' <=> Sent(i, c)
      <3>1. CASE UNCHANGED notes
        BY <3>1 DEF Sent
      <3>2. CASE \E c \in Calls : Report(c, <<"SENTTERMINATE">>)
        <4>1. PICK c \in Calls : Report(c, <<"SENTTERMINATE">>)
          BY <3>2
        <4>2. Added(c) /\ \A i \in New : notes'[i].state = "SENTTERMINATE"
          BY <4>1, ReportsOne DEF Ends
        <4> QED BY <4>2 DEF Added, New, Sent
      <3> QED BY <2>1, <3>1, <3>2
    <2> QED BY <1>1, <1>3, <1>5, <1>7, <2>2
  <1> QED BY <1>6, <1>7

LEMMA CommandSends ==
    ASSUME TypeOK, CallsOutgoing, CalledOnce, SentOutgoing, OnCommand
    PROVE  CalledOnce' /\ SentOutgoing' /\ \A c : Unsent(c)' <=> Unsent(c)
  <1>1. /\ cmds # <<>> /\ cmds' = Tail(cmds)
        /\ \A i, c : Sent(i, c)' <=> \/ Sent(i, c)
                                     \/ /\ i = Len(notes) + 1
                                        /\ Placed(1, c) /\ c \in Outgoing
        /\ \A i, c : Sent(i, c) => i # Len(notes) + 1
        /\ \A c : Placed(1, c) => c \in Outgoing
    BY CommandNotes
  <1>2. /\ \A i \in DOMAIN cmds' : i + 1 \in DOMAIN cmds /\ cmds'[i] = cmds[i + 1]
        /\ \A i \in DOMAIN cmds : i # 1 => i - 1 \in DOMAIN cmds'
        /\ DOMAIN cmds = 1..Len(cmds) /\ DOMAIN cmds' = 1..Len(cmds')
        /\ Len(cmds) \in Nat
    BY <1>1, Dequeued DEF TypeOK
  <1>3. \A i, c : Placed(i, c)' => i \in DOMAIN cmds' /\ Placed(i + 1, c)
    BY <1>2 DEF Placed
  <1>4. \A i, c : Placed(i, c) /\ i # 1 => \E j : Placed(j, c)'
    <2> TAKE i, c
    <2> HAVE Placed(i, c) /\ i # 1
    <2>1. /\ i - 1 \in DOMAIN cmds' /\ cmds'[i - 1] = cmds[(i - 1) + 1]
          /\ (i - 1) + 1 = i
      BY <1>2 DEF Placed
    <2> QED BY <2>1 DEF Placed
  <1>5. \A c : /\ Unsent(c) <=> (\E i : Placed(i, c)) \/ (\E i : Sent(i, c))
               /\ Unsent(c)' <=> (\E i : Placed(i, c)') \/ (\E i : Sent(i, c)')
    BY DEF Unsent, Placed, Sent
  <1>6. \A i, c : /\ Placed(i, c) => i \in DOMAIN cmds
                  /\ Sent(i, c) => i \in DOMAIN notes
    BY DEF Placed, Sent
  <1>7. \A i, j \in DOMAIN cmds' : i + 1 # 1 /\ (i + 1 = j + 1 => i = j)
    BY <1>2
  <1>8. \A c : Unsent(c)' => Unsent(c)
    BY <1>1, <1>3, <1>5
  <1>9. \A c : Unsent(c) => Unsent(c)'
    <2> TAKE c
    <2> HAVE Unsent(c)
    <2>1. CASE \E i : Sent(i, c)
      BY <1>1, <1>5, <2>1
    <2>2. CASE Placed(1, c)
      BY <1>1, <1>5, <2>2
    <2>3. CASE \E i : Placed(i, c) /\ i # 1
      BY <1>4, <1>5, <2>3
    <2> QED BY <1>5, <2>1, <2>2, <2>3
  <1>10. SentOutgoing'
    <2> SUFFICES ASSUME NEW i \in DOMAIN notes', NEW c \in Calls, Sent(i, c)'
                 PROVE  c \in Outgoing
      BY DEF SentOutgoing
    <2> QED BY <1>1, <1>6 DEF SentOutgoing
  <1>11. CalledOnce'
    <2> SUFFICES ASSUME NEW c \in Outgoing
                 PROVE  /\ \A i, j : Placed(i, c)' /\ Placed(j, c)' => i = j
                        /\ \A i, j : Sent(i, c)' /\ Sent(j, c)' => i = j
                        /\ \A i, j : ~(Placed(i, c)' /\ Sent(j, c)')
      BY DEF CalledOnce
    <2>1. /\ \A i, j : Placed(i, c) /\ Placed(j, c) => i = j
          /\ \A i, j : Sent(i, c) /\ Sent(j, c) => i = j
          /\ \A i, j : ~(Placed(i, c) /\ Sent(j, c))
      BY <1>6 DEF CalledOnce
    <2>2. \A i, j : Placed(i, c)' /\ Placed(j, c)' => i = j
      BY <1>3, <1>7, <2>1
    <2>3. CASE Placed(1, c)
      <3>1. \A i : ~Placed(i, c)' /\ ~Sent(i, c)
        BY <1>3, <1>7, <2>1, <2>3
      <3> QED BY <1>1, <3>1
    <2>4. CASE ~Placed(1, c)
      <3>1. \A i : Sent(i, c)' <=> Sent(i, c)
        BY <1>1, <2>4
      <3> QED BY <1>3, <2>1, <2>2, <3>1
    <2> QED BY <2>3, <2>4
  <1> QED BY <1>8, <1>9, <1>10, <1>11

LEMMA NetworkSends ==
    ASSUME TypeOK, CalledOnce, SentOutgoing, Network
    PROVE  CalledOnce' /\ SentOutgoing' /\ \A c : Unsent(c)' <=> Unsent(c)
  <1>1. UNCHANGED cmds
    BY NetworkStep
  <1>2. PICK c \in Calls : \/ UNCHANGED notes
                           \/ /\ Added(c)
                              /\ \A i \in New : notes'[i].state # "SENTINITIATE"
    <2>1. PICK c \in Calls : (Moves(c) /\ UNCHANGED notes) \/ Dies(c) \/ Arrives(c)
      BY NetworkStep
    <2>2. "SENTINITIATE" \notin Ends
      BY DEF Ends
    <2> QED BY <2>1, <2>2 DEF Dies, Arrives
  <1>3. \A i, d : /\ Sent(i, d)' <=> Sent(i, d)
                  /\ Placed(i, d)' <=> Placed(i, d)
    BY <1>1, <1>2 DEF Added, New, Sent, Placed
  <1>4. \A d : /\ Unsent(d) <=> (\E i : Placed(i, d)) \/ (\E i : Sent(i, d))
               /\ Unsent(d)' <=> (\E i : Placed(i, d)') \/ (\E i : Sent(i, d)')
    BY DEF Unsent, Placed, Sent
  <1>5. \A d : Unsent(d)' <=> Unsent(d)
    BY <1>3, <1>4
  <1>6. \A i, d : /\ Placed(i, d) => i \in DOMAIN cmds
                  /\ Sent(i, d) => i \in DOMAIN notes
    BY DEF Placed, Sent
  <1>7. SentOutgoing'
    <2> SUFFICES ASSUME NEW i \in DOMAIN notes', NEW d \in Calls, Sent(i, d)'
                 PROVE  d \in Outgoing
      BY DEF SentOutgoing
    <2> QED BY <1>3, <1>6 DEF SentOutgoing
  <1>8. CalledOnce'
    <2> SUFFICES ASSUME NEW d \in Outgoing
                 PROVE  /\ \A i, j : Placed(i, d)' /\ Placed(j, d)' => i = j
                        /\ \A i, j : Sent(i, d)' /\ Sent(j, d)' => i = j
                        /\ \A i, j : ~(Placed(i, d)' /\ Sent(j, d)')
      BY DEF CalledOnce
    <2> QED BY <1>3, <1>6 DEF CalledOnce
  <1> QED BY <1>5, <1>7, <1>8

\* A step of the signalling thread, or none.
LEMMA FrozenAims ==
    ASSUME Aimed, Frozen, CalledOnce', SentOutgoing', \A c : Unsent(c)' <=> Unsent(c)
    PROVE  Aimed'
  <1>1. UnsentKnown' /\ IdDialled' /\ OneWindow'
    BY DEF Aimed, Frozen, UnsentKnown, IdDialled, OneWindow
  <1>2. \A c : Explains(c)' <=> Explains(c)
    BY DEF Frozen, Explains
  <1>3. Explained'
    BY <1>2 DEF Aimed, Frozen, Explained
  <1> QED BY <1>1, <1>3 DEF Aimed

LEMMA CallClickAims ==
    ASSUME IInv, Aimed, NEW c \in Outgoing, CallClick(c)
    PROVE  Aimed'
  <1> DEFINE e == [op |-> "CALL", call |-> c]
  <1>1. /\ cmds' = Append(cmds, e) /\ dialing = NoCall /\ dialing' = c
        /\ screen = NoScreen /\ screen' = screen /\ c \notin shown
        /\ UNCHANGED notes /\ UNCHANGED delegate /\ UNCHANGED call_id
        /\ shown' = shown /\ closed' = closed /\ astray' = astray
    BY DEF CallClick, Post, UserMay, MainIdle
  <1>2. /\ TypeOK /\ CalledOnce /\ SentOutgoing /\ UnsentKnown /\ IdDialled
        /\ OneWindow
    BY DEF IInv, Aimed
  <1>3. closed \subseteq shown /\ c \in Calls /\ NoCall \notin Outgoing
    BY <1>2, CallsAssumption DEF TypeOK, Calls
  <1>4. ~Unsent(c)
    BY <1>1, <1>2, <1>3, NothingShown DEF UnsentKnown
  <1>5. e \in Command /\ e.op = "CALL" /\ e.call = c
    BY <1>3 DEF Command
  <1> HIDE DEF e
  <1>6. /\ CalledOnce' /\ SentOutgoing'
        /\ \A d : Unsent(d)' <=> Unsent(d) \/ d = c
    BY <1>1, <1>2, <1>4, <1>5, PostSends
  <1>7. call_id # c
    BY <1>1, <1>2, <1>3 DEF IdDialled
  <1>8. UnsentKnown'
    BY <1>1, <1>2, <1>3, <1>6, <1>7 DEF UnsentKnown
  <1>9. IdDialled' /\ OneWindow'
    BY <1>1, <1>2, <1>3 DEF IdDialled, OneWindow
  <1>10. Explained'
    BY <1>1, <1>6 DEF Explained, Explains
  <1> QED BY <1>6, <1>8, <1>9, <1>10 DEF Aimed

LEMMA AcceptClickAims ==
    ASSUME IInv, Aimed, AcceptClick
    PROVE  Aimed'
  <1> DEFINE e == [op |-> "ACCEPT", call |-> call_id]
  <1>1. /\ screen # NoScreen /\ Aim /\ cmds' = Append(cmds, e)
        /\ screen' = [screen EXCEPT !.isInCall = TRUE]
        /\ UNCHANGED notes /\ UNCHANGED delegate /\ UNCHANGED call_id
        /\ shown' = shown /\ closed' = closed /\ dialing' = dialing
    BY DEF AcceptClick, Post
  <1>2. e \in Command /\ e.op # "CALL"
    BY <1>1, AimKeeps DEF Command
  <1>3. astray \subseteq astray' /\ screen'.call = screen.call
    BY <1>1, AimKeeps, ScreenType DEF IInv, TypeOK
  <1> HIDE DEF e
  <1>4. CalledOnce' /\ SentOutgoing' /\ \A d : Unsent(d)' <=> Unsent(d)
    BY <1>1, <1>2, PostSends DEF IInv, Aimed
  <1>5. UnsentKnown' /\ IdDialled'
    BY <1>1, <1>3, <1>4 DEF Aimed, UnsentKnown, IdDialled
  <1>6. OneWindow'
    BY <1>1 DEF Aimed, OneWindow
  <1>7. \A d : Explains(d) => Explains(d)'
    BY <1>1, <1>3, <1>4 DEF Explains
  <1>8. Explained'
    BY <1>1, <1>3, <1>7 DEF Aimed, Explained
  <1> QED BY <1>4, <1>5, <1>6, <1>8 DEF Aimed

LEMMA CloseClickAims ==
    ASSUME IInv, Aimed, CloseClick
    PROVE  Aimed'
  <1>1. PICK op \in {"END", "DECLINE"} :
          cmds' = Append(cmds, [op |-> op, call |-> call_id])
    BY DEF CloseClick, Post
  <1> DEFINE e == [op |-> op, call |-> call_id]
  <1>2. /\ screen # NoScreen /\ Aim /\ cmds' = Append(cmds, e)
        /\ screen' = NoScreen /\ closed' = closed \cup {screen.call}
        /\ UNCHANGED notes /\ UNCHANGED delegate /\ UNCHANGED call_id
        /\ shown' = shown /\ dialing = NoCall /\ dialing' = dialing
    BY <1>1 DEF CloseClick, UserMay, MainIdle
  <1>3. e \in Command /\ e.op # "CALL"
    BY <1>2, AimKeeps DEF Command
  <1>4. astray \subseteq astray'
    BY <1>2, AimKeeps
  <1>5. call_id # screen.call => screen.call \in astray'
    BY <1>2 DEF Aim
  <1> HIDE DEF e
  <1>6. CalledOnce' /\ SentOutgoing' /\ \A d : Unsent(d)' <=> Unsent(d)
    BY <1>2, <1>3, PostSends DEF IInv, Aimed
  <1>7. UnsentKnown'
    <2> SUFFICES ASSUME NEW c \in Outgoing, Unsent(c)
                 PROVE  call_id # c /\ (c = dialing \/ c \in closed' \cap astray')
      BY <1>2, <1>6 DEF UnsentKnown
    <2>1. call_id # c /\ (c = dialing \/ c = screen.call \/ c \in closed \cap astray)
      BY DEF Aimed, UnsentKnown
    <2> QED BY <1>2, <1>4, <1>5, <2>1
  <1>8. IdDialled' /\ OneWindow' /\ Explained'
    BY <1>2 DEF Aimed, IdDialled, OneWindow, Explained
  <1> QED BY <1>6, <1>7, <1>8 DEF Aimed

LEMMA PresentOutgoingAims ==
    ASSUME IInv, Aimed, PresentOutgoing
    PROVE  Aimed'
  <1>1. /\ dialing # NoCall /\ screen' = NewScreen(dialing, TRUE)
        /\ shown' = shown \cup {dialing} /\ dialing' = NoCall
        /\ UNCHANGED cmds /\ UNCHANGED notes /\ UNCHANGED delegate
        /\ UNCHANGED call_id /\ closed' = closed /\ astray' = astray
    BY DEF PresentOutgoing
  <1>2. screen = NoScreen /\ dialing \in Outgoing /\ dialing \notin Incoming
    BY <1>1, CallsAssumption DEF IInv, TypeOK, Aimed, OneWindow
  <1>3. screen'.call = dialing
    BY <1>1 DEF NewScreen
  <1>4. CalledOnce' /\ SentOutgoing' /\ \A d : Unsent(d)' <=> Unsent(d)
    <2>1. \A i, d : (Placed(i, d)' <=> Placed(i, d)) /\ (Sent(i, d)' <=> Sent(i, d))
      BY <1>1 DEF Placed, Sent
    <2> QED BY <1>1, <2>1 DEF Aimed, CalledOnce, SentOutgoing, Unsent
  <1>5. NoCall \notin Outgoing /\ screen.call = NoCall
    BY <1>2, CallsAssumption DEF NoScreen
  <1>6. UnsentKnown'
    BY <1>1, <1>3, <1>4, <1>5 DEF Aimed, UnsentKnown
  <1>7. IdDialled' /\ OneWindow'
    BY <1>1 DEF Aimed, IdDialled, OneWindow
  <1>8. Explains(dialing)
    BY <1>1 DEF Aimed, Explained
  <1>9. Explained'
    BY <1>1, <1>2, <1>3, <1>4, <1>8 DEF Explained, Explains
  <1> QED BY <1>4, <1>6, <1>7, <1>9 DEF Aimed

LEMMA NoteTakenAims ==
    ASSUME IInv, Aimed, OnSignalCallStateChange
    PROVE  Aimed'
  <1> DEFINE n == Head(notes)
  <1>1. /\ notes # <<>> /\ notes' = Tail(notes)
        /\ UNCHANGED cmds /\ dialing' = dialing /\ screen' = screen
        /\ shown' = shown /\ closed' = closed /\ astray' = astray
    BY DEF OnSignalCallStateChange
  <1>2. /\ TypeOK /\ OneAtATime /\ OnlyIncoming /\ ScreenIsOpen
        /\ CalledOnce /\ SentOutgoing /\ UnsentKnown /\ IdDialled
        /\ OneWindow /\ Explained
    BY DEF IInv, Aimed
  <1>3. /\ CalledOnce' /\ SentOutgoing'
        /\ \A c : Unsent(c)' => Unsent(c)
        /\ \A c : Unsent(c) /\ ~Sent(1, c) => Unsent(c)'
        /\ \A c \in Outgoing : Sent(1, c) => Unsent(c) /\ ~Unsent(c)'
    BY <1>1, <1>2, TakenSent
  <1>4. /\ n \in Note /\ 1 \in DOMAIN notes /\ notes[1] = n
        /\ n.call \in Calls
        /\ n.state \in Ends \cup {"SENTINITIATE", "RECEIVEDINITIATE"}
    <2>1. n \in Note /\ 1 \in DOMAIN notes /\ notes[1] = n
      BY <1>1, <1>2, Dequeued DEF TypeOK
    <2> QED BY <2>1 DEF Note
  <1>5. "SENTINITIATE" \notin Ends /\ "RECEIVEDINITIATE" \notin Ends
    BY DEF Ends
  <1>6. delegate'.step # "present"
    <2>1. \/ delegate' = [step |-> "callin", call |-> n.call, to |-> NoCall]
          \/ delegate' = [step |-> "alert", call |-> n.call, to |-> screen.call]
          \/ delegate' = Resting
      BY <1>4, <1>5 DEF OnSignalCallStateChange
    <2> QED BY <2>1, RestingType
  <1>7. OneWindow'
    BY <1>1, <1>2, <1>6 DEF OneWindow
  <1>8. closed \subseteq shown /\ NoCall \notin Calls /\ NoCall \notin Outgoing
        /\ NoScreen.call = NoCall /\ Outgoing \subseteq Calls
    BY <1>2, NothingShown, CallsAssumption DEF TypeOK, Calls
  <1>9. CASE n.state = "SENTINITIATE"
    <2>1. Sent(1, n.call) /\ n.call \in Outgoing /\ call_id' = n.call
      <3>1. Sent(1, n.call) /\ call_id' = n.call
        BY <1>4, <1>5, <1>9 DEF Sent, OnSignalCallStateChange
      <3> QED BY <1>2, <1>4, <3>1 DEF SentOutgoing
    <2>2. PICK d \in Outgoing : d = n.call /\ Sent(1, d) /\ call_id' = d
      BY <2>1
    <2>3. Unsent(d) /\ ~Unsent(d)'
      BY <1>3, <2>2
    <2>4. d = dialing \/ d = screen.call \/ d \in closed \cap astray
      BY <1>2, <2>3 DEF UnsentKnown
    <2>5. UnsentKnown'
      BY <1>1, <1>2, <1>3, <2>2, <2>3 DEF UnsentKnown
    <2>6. d = screen.call => screen # NoScreen /\ screen.call \in shown
      BY <1>2, <1>8, <2>2 DEF ScreenIsOpen
    <2>7. IdDialled'
      BY <1>1, <1>8, <2>2, <2>4, <2>6 DEF IdDialled
    <2>8. CASE d \in closed \cap astray
      <3>1. Explained'
        BY <1>1, <2>2, <2>8 DEF Explained, Explains
      <3> QED BY <1>3, <1>7, <2>5, <2>7, <3>1 DEF Aimed
    <2>9. CASE d = dialing
      <3>1. dialing' # NoCall /\ screen' = NoScreen /\ call_id' = dialing'
        BY <1>1, <1>2, <1>8, <2>2, <2>9 DEF OneWindow
      <3>2. Explained'
        BY <3>1 DEF Explained, Explains
      <3> QED BY <1>3, <1>7, <2>5, <2>7, <3>2 DEF Aimed
    <2>10. CASE d = screen.call
      <3>1. screen' # NoScreen /\ dialing' = NoCall /\ call_id' = screen'.call
        BY <1>1, <1>2, <2>2, <2>6, <2>10 DEF OneWindow
      <3>2. Explained'
        BY <3>1 DEF Explained, Explains
      <3> QED BY <1>3, <1>7, <2>5, <2>7, <3>2 DEF Aimed
    <2> QED BY <2>4, <2>8, <2>9, <2>10
  <1>10. CASE n.state = "RECEIVEDINITIATE"
    <2>1. call_id' = n.call /\ Announces(1, n.call)
      BY <1>4, <1>5, <1>10 DEF OnSignalCallStateChange, Announces
    <2>2. n.call \in Incoming \ shown /\ n.call \notin Outgoing
      <3>1. n.call \in Incoming
        BY <1>2, <1>4, <2>1 DEF OnlyIncoming
      <3> QED BY <1>2, <1>4, <2>1, <3>1, CallsAssumption DEF OneAtATime
    <2>3. UnsentKnown' /\ IdDialled'
      BY <1>1, <1>2, <1>3, <2>1, <2>2 DEF UnsentKnown, IdDialled
    <2>4. Explained'
      BY <1>1, <2>1, <2>2 DEF Explained, Explains
    <2> QED BY <1>3, <1>7, <2>3, <2>4 DEF Aimed
  <1>11. CASE n.state \in Ends
    <2>1. call_id' = call_id /\ \A c : ~Sent(1, c)
      BY <1>4, <1>5, <1>11 DEF OnSignalCallStateChange, Sent
    <2>2. \A c : Unsent(c)' <=> Unsent(c)
      BY <1>3, <2>1
    <2>3. UnsentKnown' /\ IdDialled'
      BY <1>1, <1>2, <2>1, <2>2 DEF UnsentKnown, IdDialled
    <2>4. Explained'
      BY <1>1, <1>2, <2>1, <2>2 DEF Explained, Explains
    <2> QED BY <1>3, <1>7, <2>3, <2>4 DEF Aimed
  <1> QED BY <1>4, <1>9, <1>10, <1>11

LEMMA CallInAims ==
    ASSUME IInv, Aimed, someonCallIn
    PROVE  Aimed'
  <1> DEFINE e == [op |-> "BUSY", call |-> call_id]
  <1>1. /\ delegate.step = "callin" /\ UNCHANGED notes /\ call_id' = call_id
        /\ dialing' = dialing /\ screen' = screen /\ shown' = shown
        /\ closed' = closed /\ astray' = astray
    BY DEF someonCallIn
  <1>2. delegate.call = call_id /\ e \in Command /\ e.op # "CALL"
    BY <1>1 DEF IInv, TypeOK, OnlyIncoming, Command
  <1>3. CalledOnce' /\ SentOutgoing' /\ \A d : Unsent(d)' <=> Unsent(d)
    <2>1. CASE cmds' = Append(cmds, e)
      <3> HIDE DEF e
      <3> QED BY <1>1, <1>2, <2>1, PostSends DEF IInv, Aimed
    <2>2. CASE UNCHANGED cmds
      <3>1. \A i, d : (Placed(i, d)' <=> Placed(i, d)) /\ (Sent(i, d)' <=> Sent(i, d))
        BY <1>1, <2>2 DEF Placed, Sent
      <3> QED BY <1>1, <2>2, <3>1 DEF Aimed, CalledOnce, SentOutgoing, Unsent
    <2> QED BY <2>1, <2>2 DEF someonCallIn, Post
  <1>4. delegate'.step = "present" => delegate'.call = call_id
    <2>1. \/ delegate' = Resting
          \/ delegate' = [delegate EXCEPT !.step = "present"]
      BY DEF someonCallIn
    <2> QED BY <1>2, <2>1, RestingType DEF IInv, TypeOK
  <1>5. UnsentKnown' /\ IdDialled' /\ OneWindow'
    BY <1>1, <1>3, <1>4 DEF Aimed, UnsentKnown, IdDialled, OneWindow
  <1>6. \A d : Explains(d)' <=> Explains(d)
    BY <1>1, <1>3 DEF Explains
  <1>7. Explained'
    BY <1>1, <1>6 DEF Aimed, Explained
  <1> QED BY <1>3, <1>5, <1>7 DEF Aimed

\* What main_thread_ does on UIKit's thread posts no command.
LEMMA QuietSends ==
    ASSUME Aimed, UNCHANGED cmds, UNCHANGED notes
    PROVE  CalledOnce' /\ SentOutgoing' /\ \A d : Unsent(d)' <=> Unsent(d)
  <1>1. \A i, d : (Placed(i, d)' <=> Placed(i, d)) /\ (Sent(i, d)' <=> Sent(i, d))
    BY DEF Placed, Sent
  <1> QED BY <1>1 DEF Aimed, CalledOnce, SentOutgoing, Unsent

LEMMA PresentIncomingAims ==
    ASSUME IInv, Aimed, someonCallInMainThread
    PROVE  Aimed'
  <1>1. /\ delegate.step = "present" /\ delegate' = Resting /\ dialing = NoCall
        /\ UNCHANGED cmds /\ UNCHANGED notes /\ call_id' = call_id
        /\ dialing' = dialing /\ closed' = closed /\ astray' = astray
    BY DEF someonCallInMainThread, MainIdle
  <1>2. CalledOnce' /\ SentOutgoing' /\ \A d : Unsent(d)' <=> Unsent(d)
    BY <1>1, QuietSends
  <1>3. OneWindow' /\ delegate.call = call_id
    BY <1>1, RestingType DEF Aimed, OneWindow
  <1>4. CASE screen = NoScreen /\ screen' = NewScreen(delegate.call, FALSE)
               /\ shown' = shown \cup {delegate.call}
    <2>1. screen'.call = call_id /\ screen.call = NoCall /\ NoCall \notin Outgoing
      BY <1>3, <1>4, CallsAssumption DEF NewScreen, NoScreen
    <2>2. UnsentKnown' /\ IdDialled'
      BY <1>1, <1>2, <1>4, <2>1 DEF Aimed, UnsentKnown, IdDialled
    <2>3. Explained'
      BY <1>1, <2>1 DEF Explained, Explains
    <2> QED BY <1>2, <1>3, <2>2, <2>3 DEF Aimed
  <1>5. CASE screen' = screen /\ shown' = shown
    <2>1. UnsentKnown' /\ IdDialled'
      BY <1>1, <1>2, <1>5 DEF Aimed, UnsentKnown, IdDialled
    <2>2. \A d : Explains(d)' <=> Explains(d)
      BY <1>1, <1>2, <1>5 DEF Explains
    <2>3. Explained'
      BY <1>1, <1>5, <2>2 DEF Aimed, Explained
    <2> QED BY <1>2, <1>3, <2>1, <2>3 DEF Aimed
  <1>6. \/ screen = NoScreen /\ screen' = NewScreen(delegate.call, FALSE)
             /\ shown' = shown \cup {delegate.call}
        \/ screen' = screen /\ shown' = shown
    BY DEF someonCallInMainThread
  <1> QED BY <1>4, <1>5, <1>6

LEMMA AlertAims ==
    ASSUME IInv, Aimed, showAlertView
    PROVE  Aimed'
  <1>1. /\ delegate' = Resting /\ dialing = NoCall
        /\ UNCHANGED cmds /\ UNCHANGED notes /\ call_id' = call_id
        /\ dialing' = dialing /\ shown' = shown /\ closed' = closed
        /\ astray' = astray
    BY DEF showAlertView, MainIdle
  <1>2. CalledOnce' /\ SentOutgoing' /\ \A d : Unsent(d)' <=> Unsent(d)
    BY <1>1, QuietSends
  <1>3. screen'.call = screen.call /\ (screen = NoScreen => screen' = NoScreen)
    <2>1. \/ screen' = [screen EXCEPT !.isClose = TRUE, !.alert = delegate.call]
          \/ screen' = screen
      BY DEF showAlertView
    <2>2. CASE screen = NoScreen
      <3>1. [screen EXCEPT !.isClose = TRUE, !.alert = delegate.call] = screen
        BY <2>2 DEF NoScreen
      <3> QED BY <2>1, <2>2, <3>1
    <2>3. CASE screen # NoScreen
      BY <2>1, <2>3, ScreenType DEF IInv, TypeOK
    <2> QED BY <2>2, <2>3
  <1>4. UnsentKnown' /\ IdDialled' /\ OneWindow'
    BY <1>1, <1>2, <1>3, RestingType DEF Aimed, UnsentKnown, IdDialled, OneWindow
  <1>5. \A d : Explains(d)' <=> Explains(d)
    BY <1>1, <1>2 DEF Explains
  <1>6. Explained'
    BY <1>1, <1>3, <1>5 DEF Aimed, Explained
  <1> QED BY <1>2, <1>4, <1>6 DEF Aimed

LEMMA InitAims == Init => Aimed
  <1> SUFFICES ASSUME Init PROVE Aimed
    OBVIOUS
  <1>1. /\ DOMAIN cmds = {} /\ DOMAIN notes = {} /\ delegate = Resting
        /\ call_id = NoCall /\ dialing = NoCall /\ screen = NoScreen
    BY DEF Init
  <1>2. \A c : ~Unsent(c)
    BY <1>1 DEF Unsent
  <1>3. SentOutgoing /\ CalledOnce /\ UnsentKnown
    BY <1>1, <1>2 DEF SentOutgoing, CalledOnce, UnsentKnown
  <1>4. IdDialled /\ OneWindow /\ Explained
    BY <1>1, RestingType, CallsAssumption DEF IdDialled, OneWindow, Explained
  <1> QED BY <1>3, <1>4 DEF Aimed

LEMMA NextAims == IInv /\ Aimed /\ [Next]_vars => Aimed'
  <1> SUFFICES ASSUME IInv, Aimed, [Next]_vars PROVE Aimed'
    OBVIOUS
  <1>1. CASE User
    BY <1>1, CallClickAims, AcceptClickAims, CloseClickAims DEF User
  <1>2. CASE PresentOutgoing
    BY <1>2, PresentOutgoingAims
  <1>3. CASE Delegate
    BY <1>3, NoteTakenAims, CallInAims, PresentIncomingAims, AlertAims DEF Delegate
  <1>4. TypeOK /\ CallsOutgoing /\ CalledOnce /\ SentOutgoing
    BY DEF IInv, Aimed
  <1>5. CASE OnCommand
    <2>1. Frozen
      BY <1>4, <1>5, CommandStep
    <2>2. CalledOnce' /\ SentOutgoing' /\ \A c : Unsent(c)' <=> Unsent(c)
      BY <1>4, <1>5, CommandSends
    <2> QED BY <2>1, <2>2, FrozenAims
  <1>6. CASE Network
    <2>1. Frozen
      BY <1>4, <1>6, NetworkStep
    <2>2. CalledOnce' /\ SentOutgoing' /\ \A c : Unsent(c)' <=> Unsent(c)
      BY <1>4, <1>6, NetworkSends
    <2> QED BY <2>1, <2>2, FrozenAims
  <1>7. CASE UNCHANGED vars
    <2>1. Frozen /\ UNCHANGED cmds /\ UNCHANGED notes
      BY <1>7 DEF vars, Frozen
    <2> QED BY <2>1, QuietSends, FrozenAims
  <1> QED BY <1>1, <1>2, <1>3, <1>5, <1>6, <1>7 DEF Next

\* A command of the user reaches another call than the one on the screen only
\* for one of the three reasons that IdExplained names: VoiceClientDelegate
\* overwrites call_id_ for no other.
THEOREM IdsAreExplained == Spec => []IdExplained
  <1>1. Aimed => IdExplained
    BY DEF Aimed, Explained, Explains, IdExplained
  <1>2. Spec => []Aimed
    BY Invariance, InitAims, NextAims, PTL DEF Spec
  <1> QED BY <1>1, <1>2, PTL

-----------------------------------------------------------------------------
(* What ends a call whose screen was closed.  A DECLINE works only while the *)
(* call rings and an END only while it lives, so the invariant says in which *)
(* phase the call is when its screen is closed.                              *)

\* An outgoing call is idle until the command of its click is dispatched.
Dialled ==
    \A c \in Outgoing :
        /\ phase[c] = "idle" => (Posted("CALL", c) <=> c \in shown \cup {dialing})
        /\ phase[c] # "idle" => ~Posted("CALL", c) /\ c \in shown \cup {dialing}

Received == \A c \in Incoming : phase[c] # "calling"

\* Only the screen of an incoming call has an accept button.
OutgoingInCall == screen # NoScreen /\ screen.call \in Outgoing => screen.isInCall

\* A call that is accepted, or will be, has its screen in the call.
AcceptedOpen ==
    \A c \in Incoming \ astray :
        Posted("ACCEPT", c) \/ phase[c] = "active"
          => c \in closed \/ (screen.call = c /\ screen.isInCall)

EInv == Dialled /\ Received /\ OutgoingInCall /\ AcceptedOpen /\ ClosedWillEnd

LEMMA PostedElems == \A op, c : Posted(op, c) <=> [op |-> op, call |-> c] \in Elems(cmds)
  BY DEF Posted, Elems

LEMMA PostedGrows ==
    ASSUME TypeOK, NEW e \in Command, cmds' = Append(cmds, e)
    PROVE  \A op, c : Posted(op, c)' <=> Posted(op, c) \/ e = [op |-> op, call |-> c]
  <1>1. Elems(cmds') = Elems(cmds) \cup {e}
    BY Appended DEF TypeOK
  <1>2. \A op, c : Posted(op, c)' <=> [op |-> op, call |-> c] \in Elems(cmds')
    BY DEF Posted, Elems
  <1> QED BY <1>1, <1>2, PostedElems

LEMMA PostedTaken ==
    ASSUME TypeOK, cmds # <<>>, cmds' = Tail(cmds)
    PROVE  /\ Head(cmds) \in Command
           /\ Posted(Head(cmds).op, Head(cmds).call)
           /\ \A op, c :
                 /\ Posted(op, c)' => Posted(op, c)
                 /\ Posted(op, c) => Posted(op, c)' \/ Head(cmds) = [op |-> op, call |-> c]
  <1>1. /\ \A i \in DOMAIN cmds' : i + 1 \in DOMAIN cmds /\ cmds'[i] = cmds[i + 1]
        /\ \A i \in DOMAIN cmds : i # 1 => i - 1 \in DOMAIN cmds'
        /\ DOMAIN cmds = 1..Len(cmds) /\ Len(cmds) \in Nat
        /\ 1 \in DOMAIN cmds /\ cmds[1] = Head(cmds) /\ Head(cmds) \in Command
    BY Dequeued DEF TypeOK
  <1>2. Head(cmds) = [op |-> Head(cmds).op, call |-> Head(cmds).call]
    BY <1>1 DEF Command
  <1>3. Posted(Head(cmds).op, Head(cmds).call)
    BY <1>1, <1>2 DEF Posted
  <1>4. \A op, c : Posted(op, c)' => Posted(op, c)
    BY <1>1 DEF Posted
  <1>5. ASSUME NEW op, NEW c, Posted(op, c), Head(cmds) # [op |-> op, call |-> c]
        PROVE  Posted(op, c)'
    <2>1. PICK i \in DOMAIN cmds : cmds[i] = [op |-> op, call |-> c]
      BY <1>5 DEF Posted
    <2>2. i # 1
      BY <1>1, <1>5, <2>1
    <2>3. i - 1 \in DOMAIN cmds' /\ cmds'[i - 1] = cmds[(i - 1) + 1] /\ (i - 1) + 1 = i
      BY <1>1, <2>2
    <2> QED BY <2>1, <2>3 DEF Posted
  <1> QED BY <1>1, <1>3, <1>4, <1>5

LEMMA PostedUnsent ==
    ASSUME TypeOK
    PROVE  \A c : Posted("CALL", c) <=> \E i : Placed(i, c)
  <1>1. \A i \in DOMAIN cmds : cmds[i] = [op |-> cmds[i].op, call |-> cmds[i].call]
    <2>1. \A i \in DOMAIN cmds : cmds[i] \in Command
      BY DEF TypeOK
    <2> QED BY <2>1 DEF Command
  <1>2. \A c : Posted("CALL", c) => \E i : Placed(i, c)
    BY DEF Posted, Placed
  <1>3. ASSUME NEW c, NEW i, Placed(i, c)
        PROVE  cmds[i] = [op |-> "CALL", call |-> c] /\ i \in DOMAIN cmds
    BY <1>1, <1>3 DEF Placed
  <1> QED BY <1>2, <1>3 DEF Posted

\* A call is made once, so that its command is gone once it was dispatched.
LEMMA CallTaken ==
    ASSUME TypeOK, CalledOnce, cmds # <<>>, cmds' = Tail(cmds),
           NEW c \in Outgoing, Head(cmds) = [op |-> "CALL", call |-> c]
    PROVE  ~Posted("CALL", c)'
  <1>1. /\ \A i \in DOMAIN cmds' : i + 1 \in DOMAIN cmds /\ cmds'[i] = cmds[i + 1]
        /\ DOMAIN cmds' = 1..Len(cmds')
        /\ 1 \in DOMAIN cmds /\ cmds[1] = Head(cmds)
    BY Dequeued DEF TypeOK
  <1>2. Placed(1, c)
    BY <1>1 DEF Placed
  <1>3. ASSUME NEW i \in DOMAIN cmds', cmds'[i] = [op |-> "CALL", call |-> c]
        PROVE  FALSE
    <2>1. Placed(i + 1, c) /\ i + 1 # 1
      BY <1>1, <1>3 DEF Placed
    <2> QED BY <1>2, <2>1 DEF CalledOnce, Placed
  <1> QED BY <1>3 DEF Posted

-----------------------------------------------------------------------------
(* What the user does *)

LEMMA CallClickEnds ==
    ASSUME IInv, Aimed, EInv, NEW c \in Outgoing, CallClick(c)
    PROVE  EInv'
  <1> DEFINE e == [op |-> "CALL", call |-> c]
  <1>1. /\ dialing = NoCall /\ screen = NoScreen /\ c \notin shown
        /\ cmds' = Append(cmds, e) /\ dialing' = c
        /\ phase' = phase /\ screen' = screen /\ shown' = shown
        /\ closed' = closed /\ astray' = astray
    BY DEF CallClick, UserMay, MainIdle, Post
  <1>2. e \in Command /\ TypeOK
    BY DEF IInv, Command, Calls
  <1>3. \A op, d : Posted(op, d)' <=> Posted(op, d) \/ e = [op |-> op, call |-> d]
    BY <1>1, <1>2, PostedGrows
  <1>4. \A op, d : e = [op |-> op, call |-> d] <=> op = "CALL" /\ d = c
    OBVIOUS
  <1> HIDE DEF e
  <1>5. NoCall \notin Outgoing
    BY CallsAssumption
  <1>6. Dialled'
    BY <1>1, <1>3, <1>4, <1>5 DEF EInv, Dialled
  <1>7. Received' /\ OutgoingInCall'
    BY <1>1 DEF EInv, Received, OutgoingInCall
  <1>8. AcceptedOpen'
    BY <1>1, <1>3, <1>4 DEF EInv, AcceptedOpen
  <1>9. ClosedWillEnd'
    BY <1>1, <1>3, <1>4 DEF EInv, ClosedWillEnd, Live
  <1> QED BY <1>6, <1>7, <1>8, <1>9 DEF EInv

LEMMA AcceptClickEnds ==
    ASSUME IInv, Aimed, EInv, AcceptClick
    PROVE  EInv'
  <1> DEFINE e == [op |-> "ACCEPT", call |-> call_id]
  <1>1. /\ screen # NoScreen /\ ~screen.isInCall /\ Aim
        /\ cmds' = Append(cmds, e) /\ dialing' = dialing
        /\ phase' = phase /\ screen' = [screen EXCEPT !.isInCall = TRUE]
        /\ shown' = shown /\ closed' = closed
    BY DEF AcceptClick, Post
  <1>2. e \in Command /\ TypeOK
    BY DEF IInv, TypeOK, Command
  <1>3. \A op, d : Posted(op, d)' <=> Posted(op, d) \/ e = [op |-> op, call |-> d]
    BY <1>1, <1>2, PostedGrows
  <1>4. \A op, d : e = [op |-> op, call |-> d] <=> op = "ACCEPT" /\ d = call_id
    OBVIOUS
  <1> HIDE DEF e
  <1>5. screen'.call = screen.call /\ screen'.isInCall /\ screen.call \in Calls
    BY <1>1, <1>2, ScreenType DEF TypeOK
  <1>6. /\ astray \subseteq astray'
        /\ call_id # screen.call => call_id \in astray'
    BY <1>1 DEF Aim
  <1>7. screen.call \in Incoming /\ screen.call \notin closed
    BY <1>1, <1>5 DEF EInv, OutgoingInCall, Calls, IInv, ScreenIsOpen
  <1>8. Dialled'
    BY <1>1, <1>3, <1>4 DEF EInv, Dialled
  <1>9. Received' /\ OutgoingInCall'
    BY <1>1, <1>5 DEF EInv, Received, OutgoingInCall
  <1>10. AcceptedOpen'
    BY <1>1, <1>3, <1>4, <1>5, <1>6 DEF EInv, AcceptedOpen
  <1>11. ClosedWillEnd'
    BY <1>1, <1>3, <1>4, <1>6, <1>7 DEF EInv, ClosedWillEnd, Live
  <1> QED BY <1>8, <1>9, <1>10, <1>11 DEF EInv

\* The screen that is closed is of a call for which its command works.
LEMMA CloseClickEnds ==
    ASSUME IInv, Aimed, EInv, CloseClick
    PROVE  EInv'
  <1> DEFINE op == IF screen.isInCall THEN "END" ELSE "DECLINE"
             e == [op |-> op, call |-> call_id]
  <1>1. /\ screen # NoScreen /\ Aim /\ cmds' = Append(cmds, e)
        /\ dialing' = dialing /\ phase' = phase /\ screen' = NoScreen
        /\ shown' = shown /\ closed' = closed \cup {screen.call}
    BY DEF CloseClick, Post
  <1>2. e \in Command /\ TypeOK
    BY DEF IInv, TypeOK, Command
  <1>3. \A o, d : Posted(o, d)' <=> Posted(o, d) \/ e = [op |-> o, call |-> d]
    BY <1>1, <1>2, PostedGrows
  <1>4. \A o, d : e = [op |-> o, call |-> d] <=> op = o /\ d = call_id
    OBVIOUS
  <1>5. op # "CALL" /\ op # "ACCEPT"
    OBVIOUS
  <1>6. screen.isInCall => op = "END"
    OBVIOUS
  <1>7. ~screen.isInCall => op = "DECLINE"
    OBVIOUS
  <1> HIDE DEF e, op
  <1>8. screen.call \in Calls /\ screen.call \in shown /\ NoScreen.call = NoCall
    BY <1>1, <1>2, ScreenType DEF TypeOK, IInv, ScreenIsOpen, NoScreen
  <1>9. /\ astray \subseteq astray'
        /\ call_id # screen.call => screen.call \in astray'
    BY <1>1 DEF Aim
  <1>10. Dialled'
    BY <1>1, <1>3, <1>4, <1>5 DEF EInv, Dialled
  <1>11. Received' /\ OutgoingInCall'
    BY <1>1 DEF EInv, Received, OutgoingInCall
  <1>12. AcceptedOpen'
    BY <1>1, <1>3, <1>4, <1>5, <1>9 DEF EInv, AcceptedOpen
  <1>13. call_id = screen.call => phase[screen.call] # "idle"
    <2>1. CASE screen.call \in Incoming
      BY <1>8, <2>1 DEF IInv, OneAtATime
    <2>2. CASE screen.call \in Outgoing
      <3>1. Posted("CALL", screen.call) => Unsent(screen.call)
        BY <1>2, PostedUnsent DEF Placed, Unsent
      <3> QED BY <1>8, <2>2, <3>1 DEF EInv, Dialled, Aimed, UnsentKnown
    <2> QED BY <1>8, <2>1, <2>2 DEF Calls
  <1>14. ASSUME NEW c, c = call_id, c = screen.call, c \notin astray
         PROVE  \/ phase'[c] = "over"
                \/ Live(c)' /\ Posted("END", c)'
                \/ phase'[c] = "ringing" /\ Posted("DECLINE", c)' /\ ~Posted("ACCEPT", c)'
    <2>1. phase[c] \in Phases /\ phase[c] # "idle"
      BY <1>2, <1>8, <1>13, <1>14 DEF TypeOK
    <2>2. CASE screen.isInCall
      <3>1. Posted("END", c)'
        BY <1>3, <1>4, <1>6, <1>14, <2>2
      <3>2. phase'[c] = "over" \/ Live(c)'
        BY <1>1, <2>1 DEF Live, Phases
      <3> QED BY <3>1, <3>2
    <2>3. CASE ~screen.isInCall
      <3>1. c \in Incoming /\ c \notin closed
        BY <1>1, <1>8, <1>14, <2>3 DEF EInv, OutgoingInCall, Calls, IInv, ScreenIsOpen
      <3>2. ~Posted("ACCEPT", c) /\ phase[c] # "active"
        BY <1>14, <2>3, <3>1 DEF EInv, AcceptedOpen
      <3>3. phase[c] # "calling"
        BY <3>1 DEF EInv, Received
      <3>4. phase[c] \in {"ringing", "over"}
        BY <2>1, <3>2, <3>3 DEF Phases
      <3>5. Posted("DECLINE", c)' /\ ~Posted("ACCEPT", c)'
        BY <1>3, <1>4, <1>5, <1>7, <1>14, <2>3, <3>2
      <3> QED BY <1>1, <3>4, <3>5
    <2> QED BY <2>2, <2>3
  <1>15. ASSUME NEW c \in closed \ astray
         PROVE  \/ phase'[c] = "over"
                \/ Live(c)' /\ Posted("END", c)'
                \/ phase'[c] = "ringing" /\ Posted("DECLINE", c)' /\ ~Posted("ACCEPT", c)'
    BY <1>1, <1>3, <1>4, <1>5 DEF EInv, ClosedWillEnd, Live
  <1>16. ClosedWillEnd'
    <2>1. \A c \in closed' \ astray' :
            c \in closed \ astray \/ (c = screen.call /\ c = call_id /\ c \notin astray)
      BY <1>1, <1>9
    <2> QED BY <1>14, <1>15, <2>1 DEF ClosedWillEnd
  <1> QED BY <1>10, <1>11, <1>12, <1>16 DEF EInv

LEMMA PresentOutgoingEnds ==
    ASSUME IInv, Aimed, EInv, PresentOutgoing
    PROVE  EInv'
  <1>1. /\ dialing # NoCall /\ screen' = NewScreen(dialing, TRUE)
        /\ shown' = shown \cup {dialing} /\ dialing' = NoCall
        /\ cmds' = cmds /\ phase' = phase /\ closed' = closed /\ astray' = astray
    BY DEF PresentOutgoing
  <1>2. screen = NoScreen /\ screen.call = NoCall /\ screen'.isInCall
    BY <1>1 DEF Aimed, OneWindow, NoScreen, NewScreen
  <1>3. NoCall \notin Outgoing /\ NoCall \notin Incoming
    BY CallsAssumption
  <1>4. \A op, c : Posted(op, c)' <=> Posted(op, c)
    BY <1>1 DEF Posted
  <1>5. Dialled'
    BY <1>1, <1>3, <1>4 DEF EInv, Dialled
  <1>6. Received' /\ OutgoingInCall'
    BY <1>1, <1>2 DEF EInv, Received, OutgoingInCall
  <1>7. AcceptedOpen'
    BY <1>1, <1>2, <1>3, <1>4 DEF EInv, AcceptedOpen
  <1>8. ClosedWillEnd'
    BY <1>1, <1>4 DEF EInv, ClosedWillEnd, Live
  <1> QED BY <1>5, <1>6, <1>7, <1>8 DEF EInv

-----------------------------------------------------------------------------
(* What main_thread_ and the engine do *)

LEMMA DelegateEnds ==
    ASSUME IInv, Aimed, EInv, Delegate
    PROVE  EInv'
  <1>1. phase' = phase /\ dialing' = dialing /\ closed' = closed /\ astray' = astray
    BY DEF Delegate, OnSignalCallStateChange, someonCallIn, someonCallInMainThread,
           showAlertView
  <1>2. \A op \in {"CALL", "ACCEPT", "DECLINE", "END"} : \A c : Posted(op, c)' <=> Posted(op, c)
    <2>1. CASE cmds' = cmds
      BY <2>1 DEF Posted
    <2>2. CASE cmds' = Append(cmds, [op |-> "BUSY", call |-> call_id])
      <3>1. TypeOK /\ [op |-> "BUSY", call |-> call_id] \in Command
        BY DEF IInv, TypeOK, Command
      <3>2. \A op \in {"CALL", "ACCEPT", "DECLINE", "END"} : \A c :
              [op |-> "BUSY", call |-> call_id] # [op |-> op, call |-> c]
        OBVIOUS
      <3> QED BY <2>2, <3>1, <3>2, PostedGrows
    <2> QED BY <2>1, <2>2 DEF Delegate, OnSignalCallStateChange, someonCallIn, Post,
                              someonCallInMainThread, showAlertView
  <1>3. shown \subseteq shown' /\ shown' \cap Outgoing = shown \cap Outgoing
    <2>1. CASE shown' = shown
      BY <2>1
    <2>2. CASE delegate.step = "present" /\ shown' = shown \cup {delegate.call}
      <3>1. delegate.call \in Incoming
        BY <2>2 DEF IInv, TypeOK, OnlyIncoming, Coming
      <3> QED BY <2>2, <3>1, CallsAssumption
    <2> QED BY <2>1, <2>2 DEF Delegate, OnSignalCallStateChange, someonCallIn,
                              someonCallInMainThread, showAlertView
  <1>4. \/ screen' = screen
        \/ screen = NoScreen /\ delegate.step = "present"
             /\ screen' = NewScreen(delegate.call, FALSE)
        \/ /\ screen # NoScreen /\ screen' # NoScreen
           /\ screen'.call = screen.call /\ screen'.isInCall = screen.isInCall
    <2>1. CASE showAlertView
      <3>1. \/ screen' = screen
            \/ screen' = [screen EXCEPT !.isClose = TRUE, !.alert = delegate.call]
        BY <2>1 DEF showAlertView
      <3>2. CASE screen = NoScreen
        <4>1. [screen EXCEPT !.isClose = TRUE, !.alert = delegate.call] = screen
          BY <3>2 DEF NoScreen
        <4> QED BY <3>1, <4>1
      <3>3. CASE screen # NoScreen
        <4>1. screen \in Screen
          BY <3>3 DEF IInv, TypeOK
        <4>2. [screen EXCEPT !.isClose = TRUE, !.alert = delegate.call] # NoScreen
          BY <4>1 DEF Screen, NoScreen
        <4> QED BY <3>1, <3>3, <4>1, <4>2 DEF Screen
      <3> QED BY <3>2, <3>3
    <2>2. CASE someonCallInMainThread
      BY <2>2 DEF someonCallInMainThread
    <2> QED BY <2>1, <2>2 DEF Delegate, OnSignalCallStateChange, someonCallIn
  <1>5. delegate.step = "present" => delegate.call \in Incoming
    BY DEF IInv, TypeOK, OnlyIncoming, Coming
  <1>6. NoScreen.call = NoCall /\ NoCall \notin Incoming /\ Outgoing \cap Incoming = {}
    BY CallsAssumption DEF NoScreen
  <1>7. Dialled'
    BY <1>1, <1>2, <1>3 DEF EInv, Dialled
  <1>8. Received'
    BY <1>1 DEF EInv, Received
  <1>9. OutgoingInCall'
    BY <1>4, <1>5, <1>6 DEF EInv, OutgoingInCall, NewScreen
  <1>10. AcceptedOpen'
    BY <1>1, <1>2, <1>4, <1>6 DEF EInv, AcceptedOpen
  <1>11. ClosedWillEnd'
    BY <1>1, <1>2 DEF EInv, ClosedWillEnd, Live
  <1> QED BY <1>7, <1>8, <1>9, <1>10, <1>11 DEF EInv

\* What a command does to a call: only the one it names moves, and only from
\* the phase it needs.
LEMMA CommandPhase ==
    ASSUME TypeOK, CallsOutgoing, OnCommand, NEW d \in Calls
    PROVE  LET m == Head(cmds) IN
           \/ phase'[d] = phase[d]
                /\ (m.call = d => /\ m.op # "CALL"
                                  /\ m.op = "END" => ~Live(d)
                                  /\ m.op = "DECLINE" => phase[d] # "ringing")
           \/ m.call = d /\ m.op = "CALL" /\ phase'[d] = "calling" /\ d \in Outgoing
           \/ m.call = d /\ m.op = "ACCEPT" /\ phase[d] = "ringing" /\ phase'[d] = "active"
           \/ m.call = d /\ m.op # "CALL" /\ Live(d) /\ phase'[d] = "over"
  <1> DEFINE m == Head(cmds)
  <1>1. cmds # <<>> /\ phase \in [Calls -> Phases]
    BY DEF OnCommand, TypeOK
  <1>2. m \in Command /\ m \in Elems(cmds)
    BY <1>1, Dequeued DEF TypeOK
  <1>3. m.op = "CALL" => m.call \in Outgoing /\ m.call \in Calls
    BY <1>2 DEF CallsOutgoing, Calls
  <1>4. \A c, p : phase' = [phase EXCEPT ![c] = p] =>
            phase'[d] = IF c = d THEN p ELSE phase[d]
    BY <1>1
  <1> DEFINE c == m.call
  <1>5. \/ m.op = "CALL" /\ phase' = [phase EXCEPT ![c] = "calling"]
        \/ /\ m.op = "ACCEPT" /\ c \in Calls /\ phase[c] = "ringing"
           /\ phase' = [phase EXCEPT ![c] = "active"]
        \/ /\ m.op \in {"DECLINE", "BUSY"} /\ c \in Calls /\ phase[c] = "ringing"
           /\ phase' = [phase EXCEPT ![c] = "over"]
        \/ /\ m.op = "END" /\ c \in Calls /\ Live(c)
           /\ phase' = [phase EXCEPT ![c] = "over"]
        \/ /\ \/ m.op \in {"ACCEPT", "DECLINE", "BUSY"} /\ ~(c \in Calls /\ phase[c] = "ringing")
              \/ m.op = "END" /\ ~(c \in Calls /\ Live(c))
           /\ phase' = phase
    BY DEF OnCommand, Become
  <1> HIDE DEF m, c
  <1>6. c = d => c \in Calls
    OBVIOUS
  <1>7. phase[d] = "ringing" => Live(d)
    BY DEF Live
  <1>8. \/ phase'[d] = phase[d]
             /\ (c = d => /\ m.op # "CALL"
                          /\ m.op = "END" => ~Live(d)
                          /\ m.op = "DECLINE" => phase[d] # "ringing")
        \/ c = d /\ m.op = "CALL" /\ phase'[d] = "calling"
        \/ c = d /\ m.op = "ACCEPT" /\ phase[d] = "ringing" /\ phase'[d] = "active"
        \/ c = d /\ m.op # "CALL" /\ Live(d) /\ phase'[d] = "over"
    <2>1. CASE m.op = "CALL" /\ phase' = [phase EXCEPT ![c] = "calling"]
      BY <1>4, <2>1
    <2>2. CASE /\ m.op = "ACCEPT" /\ phase[c] = "ringing"
               /\ phase' = [phase EXCEPT ![c] = "active"]
      BY <1>4, <2>2
    <2>3. CASE /\ m.op \in {"DECLINE", "BUSY"} /\ phase[c] = "ringing"
               /\ phase' = [phase EXCEPT ![c] = "over"]
      BY <1>4, <1>7, <2>3
    <2>4. CASE m.op = "END" /\ Live(c) /\ phase' = [phase EXCEPT ![c] = "over"]
      BY <1>4, <2>4
    <2>5. CASE /\ \/ m.op \in {"ACCEPT", "DECLINE", "BUSY"}
                      /\ ~(c \in Calls /\ phase[c] = "ringing")
                  \/ m.op = "END" /\ ~(c \in Calls /\ Live(c))
               /\ phase' = phase
      BY <1>6, <2>5
    <2> QED BY <1>5, <2>1, <2>2, <2>3, <2>4, <2>5
  <1> QED BY <1>3, <1>8 DEF m, c

LEMMA CommandEnds ==
    ASSUME IInv, Aimed, EInv, OnCommand
    PROVE  EInv'
  <1> DEFINE m == Head(cmds)
  <1>1. /\ cmds # <<>> /\ cmds' = Tail(cmds) /\ dialing' = dialing /\ screen' = screen
        /\ shown' = shown /\ closed' = closed /\ astray' = astray
    BY DEF OnCommand
  <1>2. TypeOK /\ CallsOutgoing /\ CalledOnce /\ phase \in [Calls -> Phases]
        /\ closed \subseteq Calls
    BY DEF IInv, Aimed, TypeOK
  <1>3. /\ m \in Command /\ Posted(m.op, m.call)
        /\ \A op, c : /\ Posted(op, c)' => Posted(op, c)
                      /\ Posted(op, c) => Posted(op, c)' \/ m = [op |-> op, call |-> c]
    BY <1>1, <1>2, PostedTaken
  <1>4. ASSUME NEW d \in Calls
        PROVE  \/ phase'[d] = phase[d]
                    /\ (m.call = d => /\ m.op # "CALL"
                                      /\ m.op = "END" => ~Live(d)
                                      /\ m.op = "DECLINE" => phase[d] # "ringing")
               \/ m.call = d /\ m.op = "CALL" /\ phase'[d] = "calling" /\ d \in Outgoing
               \/ /\ m.call = d /\ m.op = "ACCEPT"
                  /\ phase[d] = "ringing" /\ phase'[d] = "active"
               \/ m.call = d /\ m.op # "CALL" /\ Live(d) /\ phase'[d] = "over"
    BY <1>2, CommandPhase
  <1>5. \A c \in Outgoing : m = [op |-> "CALL", call |-> c] => ~Posted("CALL", c)'
    BY <1>1, <1>2, CallTaken
  <1>6. m = [op |-> m.op, call |-> m.call]
    BY <1>3 DEF Command
  <1>7. \A op, c : m = [op |-> op, call |-> c] <=> m.op = op /\ m.call = c
    BY <1>6
  <1> HIDE DEF m
  <1>8. Outgoing \subseteq Calls /\ Incoming \subseteq Calls /\ Outgoing \cap Incoming = {}
    BY CallsAssumption DEF Calls
  <1>9. ASSUME NEW c \in Outgoing
        PROVE  /\ phase'[c] = "idle" => (Posted("CALL", c)' <=> c \in shown \cup {dialing})
               /\ phase'[c] # "idle" => ~Posted("CALL", c)' /\ c \in shown \cup {dialing}
    <2>1. /\ phase[c] = "idle" => (Posted("CALL", c) <=> c \in shown \cup {dialing})
          /\ phase[c] # "idle" => ~Posted("CALL", c) /\ c \in shown \cup {dialing}
      BY DEF EInv, Dialled
    <2>2. CASE m.op = "CALL" /\ m.call = c
      <3>1. Posted("CALL", c) /\ ~Posted("CALL", c)'
        BY <1>3, <1>5, <1>7, <2>2
      <3>2. c \in shown \cup {dialing} /\ phase[c] = "idle" /\ phase'[c] # "idle"
        BY <1>4, <1>8, <2>1, <2>2, <3>1 DEF Live
      <3> QED BY <3>1, <3>2
    <2>3. CASE ~(m.op = "CALL" /\ m.call = c)
      <3>1. Posted("CALL", c)' <=> Posted("CALL", c)
        BY <1>3, <1>7, <2>3
      <3>2. phase'[c] = "idle" <=> phase[c] = "idle"
        BY <1>4, <1>8, <2>3 DEF Live
      <3> QED BY <2>1, <3>1, <3>2
    <2> QED BY <2>2, <2>3
  <1>10. Dialled'
    BY <1>1, <1>9 DEF Dialled
  <1>11. Received'
    BY <1>4, <1>8 DEF EInv, Received
  <1>12. OutgoingInCall'
    BY <1>1 DEF EInv, OutgoingInCall
  <1>13. ASSUME NEW c \in Incoming \ astray, Posted("ACCEPT", c)' \/ phase'[c] = "active"
         PROVE  Posted("ACCEPT", c) \/ phase[c] = "active"
    BY <1>3, <1>4, <1>8, <1>13
  <1>14. AcceptedOpen'
    BY <1>1, <1>13 DEF EInv, AcceptedOpen
  <1>15. ASSUME NEW c \in closed \ astray
         PROVE  \/ phase'[c] = "over"
                \/ Live(c)' /\ Posted("END", c)'
                \/ phase'[c] = "ringing" /\ Posted("DECLINE", c)' /\ ~Posted("ACCEPT", c)'
    <2>1. \/ phase[c] = "over"
          \/ Live(c) /\ Posted("END", c)
          \/ phase[c] = "ringing" /\ Posted("DECLINE", c) /\ ~Posted("ACCEPT", c)
      BY DEF EInv, ClosedWillEnd
    <2>2. phase[c] # "idle"
      BY <2>1 DEF Live
    <2>3. ~(m.call = c /\ m.op = "CALL")
      <3>1. m.call = c /\ m.op = "CALL" => c \in Outgoing /\ Posted("CALL", c)
        BY <1>2, <1>3, <1>4, <1>7
      <3> QED BY <2>2, <3>1 DEF EInv, Dialled
    <2>4. CASE phase[c] = "over"
      BY <1>2, <1>4, <2>3, <2>4 DEF Live
    <2>5. CASE Live(c) /\ Posted("END", c)
      <3>1. CASE m.call = c /\ m.op = "END"
        BY <1>2, <1>4, <2>5, <3>1
      <3>2. CASE ~(m.call = c /\ m.op = "END")
        <4>1. Posted("END", c)'
          BY <1>3, <1>7, <2>5, <3>2
        <4>2. phase'[c] = "over" \/ phase'[c] \in {"calling", "ringing", "active"}
          BY <1>2, <1>4, <2>3, <2>5 DEF Live
        <4> QED BY <4>1, <4>2 DEF Live
      <3> QED BY <3>1, <3>2
    <2>6. CASE phase[c] = "ringing" /\ Posted("DECLINE", c) /\ ~Posted("ACCEPT", c)
      <3>1. ~(m.call = c /\ m.op = "ACCEPT") /\ ~Posted("ACCEPT", c)'
        BY <1>3, <2>6
      <3>2. CASE m.call = c /\ m.op = "DECLINE"
        BY <1>2, <1>4, <2>6, <3>2
      <3>3. CASE ~(m.call = c /\ m.op = "DECLINE")
        <4>1. Posted("DECLINE", c)'
          BY <1>3, <1>7, <2>6, <3>3
        <4>2. phase'[c] = "over" \/ phase'[c] = "ringing"
          BY <1>2, <1>4, <2>3, <2>6, <3>1
        <4> QED BY <3>1, <4>1, <4>2
      <3> QED BY <3>2, <3>3
    <2> QED BY <2>1, <2>4, <2>5, <2>6
  <1>16. ClosedWillEnd'
    BY <1>1, <1>15 DEF ClosedWillEnd
  <1> QED BY <1>10, <1>11, <1>12, <1>14, <1>16 DEF EInv

LEMMA NetworkEnds ==
    ASSUME IInv, EInv, Network
    PROVE  EInv'
  <1>1. Frozen /\ cmds' = cmds
    BY NetworkStep DEF IInv
  <1>2. /\ dialing' = dialing /\ screen' = screen /\ shown' = shown
        /\ closed' = closed /\ astray' = astray
    BY <1>1 DEF Frozen
  <1>3. \A op, c : Posted(op, c)' <=> Posted(op, c)
    BY <1>1 DEF Posted
  <1>4. Outgoing \subseteq Calls /\ Incoming \subseteq Calls /\ Outgoing \cap Incoming = {}
    BY CallsAssumption DEF Calls
  <1>5. phase \in [Calls -> Phases] /\ closed \subseteq Calls
    BY DEF IInv, TypeOK
  <1>6. \/ \E c \in Incoming : phase[c] = "idle" /\ Become(c, "ringing")
        \/ \E c \in Outgoing : phase[c] = "calling" /\ Become(c, "active")
        \/ \E c \in Calls : Live(c) /\ Become(c, "over")
    BY <1>4 DEF Network, ReceiveInitiate, PeerAccepts, NoAnswer, PeerEnds, Fail, Live
  <1>7. ASSUME NEW d \in Calls
        PROVE  \/ phase'[d] = phase[d]
               \/ d \in Incoming /\ phase[d] = "idle" /\ phase'[d] = "ringing"
               \/ d \in Outgoing /\ phase[d] = "calling" /\ phase'[d] = "active"
               \/ Live(d) /\ phase'[d] = "over"
    BY <1>4, <1>5, <1>6 DEF Become
  <1>8. Dialled'
    BY <1>2, <1>3, <1>4, <1>7 DEF EInv, Dialled, Live
  <1>9. Received'
    BY <1>4, <1>7 DEF EInv, Received
  <1>10. OutgoingInCall'
    BY <1>2 DEF EInv, OutgoingInCall
  <1>11. AcceptedOpen'
    BY <1>2, <1>3, <1>4, <1>7 DEF EInv, AcceptedOpen
  <1>12. ClosedWillEnd'
    BY <1>2, <1>3, <1>5, <1>7 DEF EInv, ClosedWillEnd, Live
  <1> QED BY <1>8, <1>9, <1>10, <1>11, <1>12 DEF EInv

LEMMA InitEnds == Init => EInv
  <1> SUFFICES ASSUME Init PROVE EInv
    OBVIOUS
  <1>1. /\ DOMAIN cmds = {} /\ dialing = NoCall /\ screen = NoScreen
        /\ shown = {} /\ closed = {} /\ \A c \in Calls : phase[c] = "idle"
    BY DEF Init
  <1>2. \A op, c : ~Posted(op, c)
    BY <1>1 DEF Posted
  <1>3. NoCall \notin Outgoing /\ Outgoing \subseteq Calls /\ Incoming \subseteq Calls
    BY CallsAssumption DEF Calls
  <1>4. Dialled /\ Received /\ OutgoingInCall
    BY <1>1, <1>2, <1>3 DEF Dialled, Received, OutgoingInCall
  <1>5. AcceptedOpen /\ ClosedWillEnd
    BY <1>1, <1>2, <1>3 DEF AcceptedOpen, ClosedWillEnd
  <1> QED BY <1>4, <1>5 DEF EInv

LEMMA NextEnds == IInv /\ Aimed /\ EInv /\ [Next]_vars => EInv'
  <1> SUFFICES ASSUME IInv, Aimed, EInv, [Next]_vars PROVE EInv'
    OBVIOUS
  <1>1. CASE User
    BY <1>1, CallClickEnds, AcceptClickEnds, CloseClickEnds DEF User
  <1>2. CASE PresentOutgoing
    BY <1>2, PresentOutgoingEnds
  <1>3. CASE Delegate
    BY <1>3, DelegateEnds
  <1>4. CASE OnCommand
    BY <1>4, CommandEnds
  <1>5. CASE Network
    BY <1>5, NetworkEnds
  <1>6. CASE UNCHANGED vars
    BY <1>6 DEF vars, EInv, Dialled, Received, OutgoingInCall, AcceptedOpen,
                ClosedWillEnd, Posted, Live
  <1> QED BY <1>1, <1>2, <1>3, <1>4, <1>5, <1>6 DEF Next

\* someonCallIn declines only a call that never had a screen, and the close
\* button ends its call: what it posted (InCallViewController::closeClick) will
\* reach the call in a phase where End or Reject works, whatever the peer and
\* the engine do meanwhile.
THEOREM TheRightCallsEnd == Spec => []RightCallsEnd
  <1>1. IInv /\ EInv => RightCallsEnd
    BY BusyUnshown DEF EInv, RightCallsEnd
  <1>2. Spec => []Aimed
    BY Invariance, InitAims, NextAims, PTL DEF Spec
  <1>3. Spec => []EInv
    BY <1>2, Invariance, InitEnds, NextEnds, PTL DEF Spec
  <1> QED BY <1>1, <1>3, Invariance, PTL

=============================================================================
