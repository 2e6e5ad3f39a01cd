----------------------------- MODULE CallScreen -----------------------------
(* The user interface of one phone: the view controllers on UIKit's main     *)
(* thread, the VoiceClientDelegate that main_thread_ (a thread of its own,   *)
(* whatever its name) calls with what happens to calls, and the signalling   *)
(* thread that has the calls.  The three share call_id_ and talk through two *)
(* queues; an operation that gives up control to another of them is split    *)
(* there.  The signalling thread is reduced to what a call reports           *)
(* (CallSession has the rest).                                               *)
EXTENDS Integers, Sequences

CONSTANTS
    Outgoing,  \* calls this user may make, each once
    Incoming,  \* calls others may make to this user, each once
    NoCall,    \* call_id_ before the first call, and "nothing on the screen"
    MaxQueue   \* bound: nobody starts anything while a queue is that long

ASSUME CallsAssumption == /\ Outgoing \cap Incoming = {}
                          /\ NoCall \notin Outgoing \cup Incoming
                          /\ MaxQueue \in Nat

Calls == Outgoing \cup Incoming

VARIABLES
    phase,    \* of each call, in the engine
    cmds,     \* commands posted to signal_thread_
    notes,    \* call states posted to main_thread_
    delegate, \* what main_thread_ is doing, step by step
    call_id,  \* VoiceClientDelegate::call_id_
    dialing,  \* the call of a callClick that has not presented its screen
    screen,   \* presentedViewController: the InCallViewController
    shown,    \* history: calls that had a screen
    closed,   \* history: calls whose screen the user closed
    astray    \* history: calls on or from whose screen a command went wrong
vars == <<phase, cmds, notes, delegate, call_id, dialing, screen, shown,
          closed, astray>>

Phases == {"idle", "calling", "ringing", "active", "over"}
Command == [op : {"CALL", "ACCEPT", "DECLINE", "BUSY", "END"},
            call : Calls \cup {NoCall}]
Ends == {"SENTTERMINATE", "RECEIVEDTERMINATE", "RECEIVEDBUSY", "ERROR"}
Note == [state : Ends \cup {"SENTINITIATE", "RECEIVEDINITIATE"}, call : Calls]

\* The screen has no call in it: "call" is the one whose name it shows.
Screen == {s \in [call : Calls, isInCall : BOOLEAN, isClose : BOOLEAN,
                  alert : Calls \cup {NoCall}] : s.alert # NoCall => s.isClose}
NoScreen == [call |-> NoCall]
NewScreen(c, inCall) ==
    [call |-> c, isInCall |-> inCall, isClose |-> FALSE, alert |-> NoCall]

Resting == [step |-> "rest", call |-> NoCall, to |-> NoCall]

Init ==
    /\ phase = [c \in Calls |-> "idle"]
    /\ cmds = <<>>
    /\ notes = <<>>
    /\ delegate = Resting
    /\ call_id = NoCall
    /\ dialing = NoCall
    /\ screen = NoScreen
    /\ shown = {}
    /\ closed = {}
    /\ astray = {}

-----------------------------------------------------------------------------
(* The user, on UIKit's main thread. *)

MainIdle == dialing = NoCall
Room == Len(cmds) < MaxQueue /\ Len(notes) < MaxQueue
UserMay == MainIdle /\ Room
Post(op, c) == cmds' = Append(cmds, [op |-> op, call |-> c])

\* A command names call_id_, whatever the screen shows.
Aim == astray' = IF call_id = screen.call THEN astray
                 ELSE astray \cup {call_id, screen.call}

CallClick(c) ==
    /\ UserMay
    /\ screen = NoScreen
    /\ c \notin shown
    /\ Post("CALL", c)
    /\ dialing' = c
    /\ UNCHANGED <<phase, notes, delegate, call_id, screen, shown, closed, astray>>

PresentOutgoing ==
    /\ dialing # NoCall
    /\ screen' = NewScreen(dialing, TRUE)
    /\ shown' = shown \cup {dialing}
    /\ dialing' = NoCall
    /\ UNCHANGED <<phase, cmds, notes, delegate, call_id, closed, astray>>

AcceptClick ==
    /\ UserMay
    /\ screen # NoScreen
    /\ ~screen.isInCall
    /\ screen.alert = NoCall
    /\ Post("ACCEPT", call_id)
    /\ Aim
    /\ screen' = [screen EXCEPT !.isInCall = TRUE]
    /\ UNCHANGED <<phase, notes, delegate, call_id, dialing, shown, closed>>

\* Mutant of CloseClick: every screen declines.
CloseDeclines ==
    /\ UserMay
    /\ screen # NoScreen
    /\ Post("DECLINE", call_id)
    /\ Aim
    /\ closed' = closed \cup {screen.call}
    /\ screen' = NoScreen
    /\ UNCHANGED <<phase, notes, delegate, call_id, dialing, shown>>

\* The close button, and the only button of an alert.
CloseClick ==
    /\ UserMay
    /\ screen # NoScreen
    /\ Post(IF screen.isInCall THEN "END" ELSE "DECLINE", call_id)
    /\ Aim
    /\ closed' = closed \cup {screen.call}
    /\ screen' = NoScreen
    /\ UNCHANGED <<phase, notes, delegate, call_id, dialing, shown>>

-----------------------------------------------------------------------------
(* main_thread_: OnMessage gives the head of its queue to the delegate.      *)

\* Mutant of Observed: the observers are added once the call is accepted.
ObservedInCall == screen # NoScreen /\ screen.isInCall

Observed == screen # NoScreen

\* Mutant of OnSignalCallStateChange: every state sets call_id_.
EveryStateSetsCallId ==
    LET n == Head(notes) IN
    /\ delegate = Resting
    /\ notes # <<>>
    /\ notes' = Tail(notes)
    /\ call_id' = n.call
    /\ delegate' =
          CASE n.state = "RECEIVEDINITIATE" ->
                 [step |-> "callin", call |-> n.call, to |-> NoCall]
            [] n.state \in Ends /\ Observed ->
                 [step |-> "alert", call |-> n.call, to |-> screen.call]
            [] OTHER -> Resting
    /\ UNCHANGED <<phase, cmds, dialing, screen, shown, closed, astray>>

\* A screen registers its observers when it is presented and is freed when it
\* is dismissed; main_thread_ then waits for UIKit to show the alert.
OnSignalCallStateChange ==
    LET n == Head(notes) IN
    /\ delegate = Resting
    /\ notes # <<>>
    /\ notes' = Tail(notes)
    /\ call_id' = IF n.state \in Ends THEN call_id ELSE n.call
    /\ delegate' =
          CASE n.state = "RECEIVEDINITIATE" ->
                 [step |-> "callin", call |-> n.call, to |-> NoCall]
            [] n.state \in Ends /\ Observed ->
                 [step |-> "alert", call |-> n.call, to |-> screen.call]
            [] OTHER -> Resting
    /\ UNCHANGED <<phase, cmds, dialing, screen, shown, closed, astray>>

someonCallIn ==
    /\ delegate.step = "callin"
    /\ IF screen # NoScreen
       THEN /\ Post("BUSY", call_id)
            /\ delegate' = Resting
       ELSE /\ delegate' = [delegate EXCEPT !.step = "present"]
            /\ UNCHANGED cmds
    /\ UNCHANGED <<phase, notes, call_id, dialing, screen, shown, closed, astray>>

\* On UIKit's thread, while main_thread_ waits.  UIKit ignores a second
\* presentation.
someonCallInMainThread ==
    /\ delegate.step = "present"
    /\ MainIdle
    /\ IF screen = NoScreen
       THEN /\ screen' = NewScreen(delegate.call, FALSE)
            /\ shown' = shown \cup {delegate.call}
       ELSE UNCHANGED <<screen, shown>>
    /\ delegate' = Resting
    /\ UNCHANGED <<phase, cmds, notes, call_id, dialing, closed, astray>>

\* Mutant of showAlertView: _isClose stays NO.
AlertTwice ==
    /\ delegate.step = "alert"
    /\ MainIdle
    /\ screen' = IF screen.call = delegate.to /\ ~screen.isClose
                 THEN [screen EXCEPT !.alert = delegate.call]
                 ELSE screen
    /\ delegate' = Resting
    /\ UNCHANGED <<phase, cmds, notes, call_id, dialing, shown, closed, astray>>

showAlertView ==
    /\ delegate.step = "alert"
    /\ MainIdle
    /\ screen' = IF screen.call = delegate.to /\ ~screen.isClose
                 THEN [screen EXCEPT !.isClose = TRUE, !.alert = delegate.call]
                 ELSE screen
    /\ delegate' = Resting
    /\ UNCHANGED <<phase, cmds, notes, call_id, dialing, shown, closed, astray>>

-----------------------------------------------------------------------------
(* The signalling thread and what reaches it.                                *)

Live(c) == phase[c] \in {"calling", "ringing", "active"}
Report(c, states) == notes' = notes \o [i \in DOMAIN states |->
                                          [state |-> states[i], call |-> c]]
Become(c, p) == phase' = [phase EXCEPT ![c] = p]

\* GetCall finds no call that is over; Accept and Reject need an initiate.
OnCommand ==
    LET m == Head(cmds)
        c == m.call
        is(p) == c \in Calls /\ phase[c] = p
    IN
    /\ cmds # <<>>
    /\ cmds' = Tail(cmds)
    /\ \/ m.op = "CALL" /\ Become(c, "calling") /\ Report(c, <<"SENTINITIATE">>)
       \/ m.op = "ACCEPT" /\ is("ringing") /\ Become(c, "active") /\ UNCHANGED notes
       \/ m.op \in {"DECLINE", "BUSY"} /\ is("ringing") /\ Become(c, "over")
            /\ UNCHANGED notes
       \/ m.op = "END" /\ c \in Calls /\ Live(c)
            /\ Become(c, "over") /\ Report(c, <<"SENTTERMINATE">>)
       \/ /\ \/ m.op \in {"ACCEPT", "DECLINE", "BUSY"} /\ ~is("ringing")
             \/ m.op = "END" /\ ~(c \in Calls /\ Live(c))
          /\ UNCHANGED <<phase, notes>>
    /\ UNCHANGED <<delegate, call_id, dialing, screen, shown, closed, astray>>

Engine == Room /\ UNCHANGED <<cmds, delegate, call_id, dialing, screen, shown, closed, astray>>

ReceiveInitiate(c) ==
    /\ phase[c] = "idle"
    /\ Become(c, "ringing")
    /\ Report(c, <<"RECEIVEDINITIATE">>)
    /\ Engine

PeerAccepts(c) ==
    /\ phase[c] = "calling"
    /\ Become(c, "active")
    /\ UNCHANGED notes
    /\ Engine

PeerEnds(c) ==
    /\ Live(c)
    /\ Become(c, "over")
    /\ \/ Report(c, <<"RECEIVEDTERMINATE">>)
       \/ phase[c] = "calling" /\ Report(c, <<"RECEIVEDBUSY">>)
    /\ Engine

NoAnswer(c) ==
    /\ phase[c] = "calling"
    /\ Become(c, "over")
    /\ Report(c, <<"SENTTERMINATE">>)
    /\ Engine

Fail(c) ==
    /\ Live(c)
    /\ Become(c, "over")
    /\ Report(c, <<"ERROR", "SENTTERMINATE">>)
    /\ Engine

-----------------------------------------------------------------------------
User == (\E c \in Outgoing : CallClick(c)) \/ AcceptClick \/ CloseClick
Delegate == OnSignalCallStateChange \/ someonCallIn \/ someonCallInMainThread
              \/ showAlertView
Network == \/ \E c \in Incoming : ReceiveInitiate(c)
           \/ \E c \in Outgoing : PeerAccepts(c) \/ NoAnswer(c)
           \/ \E c \in Calls : PeerEnds(c) \/ Fail(c)
Next == User \/ PresentOutgoing \/ Delegate \/ OnCommand \/ Network

Spec == Init /\ [][Next]_vars

\* Each thread takes its next step; no user and no peer has to do anything.
FairSpec == Spec /\ WF_vars(Delegate) /\ WF_vars(OnCommand)
                 /\ WF_vars(PresentOutgoing)

-----------------------------------------------------------------------------
TypeOK ==
    /\ phase \in [Calls -> Phases]
    /\ cmds \in Seq(Command)
    /\ notes \in Seq(Note)
    /\ delegate \in [step : {"rest", "callin", "present", "alert"},
                     call : Calls \cup {NoCall}, to : Calls \cup {NoCall}]
    /\ call_id \in Calls \cup {NoCall}
    /\ dialing \in Outgoing \cup {NoCall}
    /\ screen \in Screen \cup {NoScreen}
    /\ shown \subseteq Calls
    /\ closed \subseteq shown
    /\ astray \subseteq Calls \cup {NoCall}

Told(c) == \/ \E i \in DOMAIN notes : notes[i].call = c /\ notes[i].state \in Ends
           \/ delegate.step = "alert" /\ delegate.call = c

\* The screen of an incoming call that is over shows an alert, or is about to:
\* main_thread_ waits until the screen is up, so that the observers hear what
\* happens next.  (A call that a command of another screen ended is the
\* exception: nobody reports it.)
NoDeafScreen ==
    screen.call \in Incoming /\ phase[screen.call] = "over"
      => screen.isClose \/ Told(screen.call) \/ screen.call \in astray

\* someonCallIn declines a newcomer as busy, never a call that had a screen.
BusyOnlyUnshown ==
    \A i \in DOMAIN cmds : cmds[i].op = "BUSY" => cmds[i].call \in Incoming \ shown

\* A call whose screen the user closed is over, or the command that ends it is
\* still to be dispatched and will find it in a phase where it works: an END
\* while it lives, a DECLINE while it rings and no ACCEPT is posted.  (If
\* call_id_ was another call, the command went astray.)
Posted(op, c) == \E i \in DOMAIN cmds : cmds[i] = [op |-> op, call |-> c]

ClosedWillEnd ==
    \A c \in closed \ astray :
        \/ phase[c] = "over"
        \/ Live(c) /\ Posted("END", c)
        \/ phase[c] = "ringing" /\ Posted("DECLINE", c) /\ ~Posted("ACCEPT", c)

\* The interface ends the calls it is meant to end: whoever is declined as busy
\* never had a screen, and whose screen was closed will not go on.
RightCallsEnd == BusyOnlyUnshown /\ ClosedWillEnd

Unsent(c) == \/ \E i \in DOMAIN cmds : cmds[i].op = "CALL" /\ cmds[i].call = c
             \/ \E i \in DOMAIN notes : notes[i].state = "SENTINITIATE" /\ notes[i].call = c

\* When call_id_ is not the call on the screen, one of three things happened:
\* the call was not sent yet, another call came in while the screen was up, or
\* the last outgoing call was closed before it was sent.
IdExplained ==
    screen # NoScreen /\ call_id # screen.call
      => \/ screen.call \in Outgoing /\ Unsent(screen.call)
         \/ call_id \in Incoming \ shown
         \/ call_id \in Outgoing \cap closed \cap astray

\* Closing a screen ends its call in the end, unless a command went astray.
ClosedEnds == \A c \in Calls : c \in closed ~> (phase[c] = "over" \/ c \in astray)
=============================================================================
