-------------------------- MODULE TaskRunnerProofs --------------------------
(***************************************************************************)
(* Theorems about TaskRunner, for every set of tasks and every bound.      *)
(***************************************************************************)
EXTENDS TaskRunner, TLAPS

(* The inductive invariant *)

\* A task is a child of its parent, while it is not done, and of nobody else.
Children ==
    \A p \in Task \cup {Runner} : \A c \in children[p] :
        c \in Live /\ ~done[c] /\ parent[c] = p

\* Going from parent to parent leads out of every set of tasks: to the runner.
Grounded ==
    \A U \in SUBSET Live : U # {} => \E t \in U : parent[t] \notin U

\* Only a task that is stepped is busy, and it is not done.
BusyIsCurrent ==
    /\ index = 0 => busy = None
    /\ busy # None =>
         index \in DOMAIN tasks /\ busy = tasks[index] /\ did_run /\ ~done[busy]

DoneIsBlocked == \A t \in Task : done[t] => blocked[t] /\ life[t] # "new"

\* A pass leaves blocked tasks behind, until one of them runs.
PassedIsBlocked ==
    index # 0 /\ ~did_run =>
        \A i \in DOMAIN tasks : i < index => blocked[tasks[i]]

IInv ==
    /\ TypeOK
    /\ NoDangling
    /\ Children
    /\ Grounded
    /\ DoneTreeIsDone
    /\ BusyIsCurrent
    /\ DoneIsBlocked
    /\ PassedIsBlocked
    /\ NobodyForgotten

-----------------------------------------------------------------------------
(* Reached, and what stopping a tree does *)

LEMMA ReachedIsClosed ==
    ASSUME TypeOK, NEW R \in SUBSET Task
    PROVE  /\ R \subseteq Reached(R)
           /\ Reached(R) \subseteq Task
           /\ \A t \in Reached(R) : t # busy =>
                \A c \in children[t] : ~done[c] => c \in Reached(R)
  <1>1. R \subseteq Reached(R) /\ Reached(R) \subseteq Task
    BY DEF Reached
  <1>2. ASSUME NEW t \in Reached(R), t # busy, NEW c \in children[t], ~done[c]
        PROVE  c \in Reached(R)
    <2>1. c \in Task
      BY <1>1, <1>2 DEF TypeOK
    <2>2. ASSUME NEW S \in SUBSET Task, R \subseteq S, Closed(S)
          PROVE  c \in S
      BY <1>2, <2>2 DEF Reached, Closed, Aborts
    <2> QED BY <2>1, <2>2 DEF Reached
  <1> QED BY <1>1, <1>2

\* Nothing but live tasks is reached from live tasks.
LEMMA ReachedIsLive ==
    ASSUME TypeOK, Children, NEW R \in SUBSET Live
    PROVE  Reached(R) \subseteq Live
  <1>1. Live \in SUBSET Task
    BY DEF Live
  <1>2. Closed(Live)
    BY <1>1 DEF Closed, Aborts, Children
  <1> QED BY <1>1, <1>2 DEF Reached

\* The tasks in X are done at once, with all their children but the busy one.
LEMMA Stopping ==
    ASSUME IInv, NEW X \in SUBSET Live,
           done' = Set(done, X, TRUE),
           blocked' = Set(blocked, X, TRUE),
           children' = [p \in DOMAIN children |-> children[p] \ X],
           UNCHANGED <<life, parent, runner>>,
           \A t \in Task : aborted[t] => aborted'[t],
           busy \in X \/ busy' = busy,
           \A t \in X : \A c \in children[t] :
               c \in X \/ (c = busy /\ aborted'[c])
    PROVE  Children' /\ DoneTreeIsDone' /\ DoneIsBlocked'
  <1>1. /\ Live' = Live /\ Live \subseteq Task
        /\ \A t \in Task : done'[t] = (done[t] \/ t \in X)
        /\ \A t \in Task : blocked'[t] = (blocked[t] \/ t \in X)
        /\ \A p \in Task \cup {Runner} : children'[p] = children[p] \ X
    BY DEF IInv, TypeOK, Live, Set
  <1>2. Children'
    <2>1. Children /\ parent' = parent
      BY DEF IInv
    <2>2. ASSUME NEW p \in Task \cup {Runner}, NEW c \in children'[p]
          PROVE  c \in Live' /\ ~done'[c] /\ parent'[c] = p
      <3>1. c \in children[p] /\ c \notin X
        BY <1>1
      <3>2. c \in Live /\ ~done[c] /\ parent[c] = p
        BY <2>1, <3>1 DEF Children
      <3> QED BY <1>1, <2>1, <3>1, <3>2
    <2> QED BY <2>2 DEF Children
  <1>3. ASSUME NEW t \in Live, ~done'[t]
        PROVE  /\ t \in children'[parent[t]]
               /\ parent[t] # Runner /\ done'[parent[t]] => t = busy' /\ aborted'[t]
    <2>1. /\ t \in Task /\ ~done[t] /\ t \notin X
          /\ parent[t] \in Task \cup {Runner}
          /\ t \in children[parent[t]]
      BY <1>1, <1>3 DEF IInv, TypeOK, DoneTreeIsDone
    <2>2. t \in children'[parent[t]]
      BY <1>1, <2>1
    <2>3. ASSUME parent[t] # Runner, done'[parent[t]]
          PROVE  t = busy /\ aborted'[t]
      <3>1. CASE parent[t] \in X
        BY <2>1, <3>1
      <3>2. CASE parent[t] \notin X
        <4>1. done[parent[t]]
          BY <1>1, <2>1, <2>3, <3>2
        <4> QED BY <1>3, <2>1, <2>3, <4>1 DEF IInv, DoneTreeIsDone
      <3> QED BY <3>1, <3>2
    <2> QED BY <2>1, <2>2, <2>3
  <1>4. DoneTreeIsDone'
    BY <1>1, <1>3 DEF IInv, DoneTreeIsDone
  <1>5. DoneIsBlocked'
    BY <1>1 DEF IInv, DoneIsBlocked, Live
  <1> QED BY <1>2, <1>4, <1>5

\* The tasks that an Abort of R stops.
Stopped(R) == Aborts(Reached({t \in R : ~done[t]}))

LEMMA AbortEffect ==
    ASSUME IInv, NEW R \in SUBSET Live, Abort(R)
    PROVE  /\ Stopped(R) \in SUBSET Live
           /\ busy \notin Stopped(R)
           /\ done' = Set(done, Stopped(R), TRUE)
           /\ blocked' = Set(blocked, Stopped(R), TRUE)
           /\ children' = [p \in DOMAIN children |-> children[p] \ Stopped(R)]
           /\ \A t \in Task : aborted[t] => aborted'[t]
           /\ \A t \in Stopped(R) : \A c \in children[t] :
                 c \in Stopped(R) \/ (c = busy /\ aborted'[c])
           /\ \A t \in R : t # busy /\ ~done[t] => t \in Stopped(R)
           /\ done' \in [Task -> BOOLEAN] /\ blocked' \in [Task -> BOOLEAN]
           /\ aborted' \in [Task -> BOOLEAN] /\ error' \in [Task -> BOOLEAN]
           /\ children' \in [Task \cup {Runner} -> SUBSET Task]
  <1> DEFINE Q == {t \in R : ~done[t]}
             X == Stopped(R)
  <1>0. Q \in SUBSET Live /\ Q \in SUBSET Task /\ TypeOK /\ Children
    BY DEF Live, IInv
  <1>1. /\ Q \subseteq Reached(Q) /\ Reached(Q) \subseteq Live /\ Live \subseteq Task
        /\ \A t \in Reached(Q) : t # busy =>
                \A c \in children[t] : ~done[c] => c \in Reached(Q)
    BY <1>0, ReachedIsClosed, ReachedIsLive DEF Live
  <1>2. /\ X = {t \in Reached(Q) : t # busy}
        /\ aborted' = Set(aborted, Reached(Q), TRUE)
        /\ done' = Set(done, X, TRUE)
        /\ blocked' = Set(blocked, X, TRUE)
        /\ error' = Set(error, X, TRUE)
        /\ children' = [p \in DOMAIN children |-> children[p] \ X]
    BY DEF Abort, Aborts, Stopped
  <1> HIDE DEF X
  <1>3. /\ X \in SUBSET Live /\ busy \notin X
        /\ \A t \in R : t # busy /\ ~done[t] => t \in X
    BY <1>1, <1>2
  <1> HIDE DEF Q
  <1>4. \A t \in X : \A c \in children[t] : ~done[c]
    BY <1>0, <1>1, <1>3 DEF Children
  <1>5. \A t \in Task : /\ aborted[t] => aborted'[t]
                        /\ t \in Reached(Q) => aborted'[t]
    BY <1>0, <1>2 DEF TypeOK, Set
  <1>6. \A t \in X : \A c \in children[t] : c \in X \/ (c = busy /\ aborted'[c])
    BY <1>1, <1>2, <1>4, <1>5
  <1>7. /\ done' \in [Task -> BOOLEAN] /\ blocked' \in [Task -> BOOLEAN]
        /\ aborted' \in [Task -> BOOLEAN] /\ error' \in [Task -> BOOLEAN]
    BY <1>0, <1>2 DEF TypeOK, Set
  <1>8. children' \in [Task \cup {Runner} -> SUBSET Task]
    BY <1>0, <1>2 DEF TypeOK
  <1> QED BY <1>2, <1>3, <1>5, <1>6, <1>7, <1>8 DEF X

-----------------------------------------------------------------------------
(* What most steps leave alone *)

LEMMA TreeFrame ==
    ASSUME IInv, UNCHANGED <<life, parent, children, done, aborted, runner>>,
           busy' = busy \/ busy = None \/ ~aborted[busy]
    PROVE  Children' /\ Grounded' /\ DoneTreeIsDone'
  <1>1. Live' = Live
    BY DEF Live
  <1>2. Children' /\ Grounded'
    BY <1>1 DEF IInv, Children, Grounded
  <1>3. ASSUME NEW t \in Live, ~done[t]
        PROVE  /\ t \in children[parent[t]]
               /\ parent[t] # Runner /\ done[parent[t]] => t = busy' /\ aborted[t]
    <2>1. /\ t \in children[parent[t]]
          /\ parent[t] # Runner /\ done[parent[t]] => t = busy /\ aborted[t]
      BY <1>3 DEF IInv, DoneTreeIsDone
    <2>2. t # None
      BY TasksAssumption DEF Live
    <2> QED BY <2>1, <2>2
  <1>4. DoneTreeIsDone'
    BY <1>1, <1>3 DEF IInv, DoneTreeIsDone
  <1> QED BY <1>2, <1>4

LEMMA GroundedFrame ==
    ASSUME IInv, UNCHANGED <<life, parent>>
    PROVE  Grounded'
  BY DEF IInv, Grounded, Live

LEMMA PointerFrame ==
    ASSUME IInv, UNCHANGED <<life, parent, tasks>>, Children',
           next_timeout_task' \in Live \cup {None}
    PROVE  NoDangling'
  <1>1. Live' = Live /\ Live \subseteq Task
    BY DEF Live
  <1>2. \A p \in Live' \cup {Runner} : children'[p] \subseteq Live'
    BY <1>1 DEF Children
  <1> QED BY <1>1, <1>2 DEF IInv, NoDangling

LEMMA TimeoutStep ==
    ASSUME IInv, NEW t \in Live, NEW has \in BOOLEAN, UpdateTaskTimeout(t, has)
    PROVE  timed' \subseteq Task /\ next_timeout_task' \in Live \cup {None}
  <1>1. /\ Live \subseteq Task /\ timed \subseteq Task
        /\ ToSet(tasks) = Live /\ next_timeout_task \in Live \cup {None}
    BY DEF IInv, TypeOK, NoDangling, Live
  <1> QED BY <1>1 DEF UpdateTaskTimeout, Recalc

LEMMA Listed ==
    ASSUME IInv
    PROVE  /\ Live \subseteq Task
           /\ DOMAIN tasks = 1..Len(tasks) /\ Len(tasks) \in Nat
           /\ \A i \in DOMAIN tasks : tasks[i] \in Live
           /\ \A t \in Live : \E i \in DOMAIN tasks : t = tasks[i]
           /\ Len(tasks) + 1 \notin DOMAIN tasks
           /\ index \in 0..(Len(tasks) + 1)
           /\ index \notin DOMAIN tasks => busy = None
           /\ busy # None => busy \in Live /\ busy \in Task
  <1>1. Live \subseteq Task /\ ToSet(tasks) = Live
    BY DEF IInv, NoDangling, Live
  <1>2. /\ DOMAIN tasks = 1..Len(tasks) /\ Len(tasks) \in Nat
        /\ index \in 0..(Len(tasks) + 1)
    BY DEF IInv, TypeOK
  <1>3. /\ \A i \in DOMAIN tasks : tasks[i] \in Live
        /\ \A t \in Live : \E i \in DOMAIN tasks : t = tasks[i]
    BY <1>1 DEF ToSet
  <1>4. Len(tasks) + 1 \notin DOMAIN tasks
    BY <1>2
  <1>5. /\ index \notin DOMAIN tasks => busy = None
        /\ busy # None => busy \in Live /\ busy \in Task
    BY <1>1, <1>3 DEF IInv, BusyIsCurrent
  <1> QED BY <1>1, <1>2, <1>3, <1>4, <1>5

-----------------------------------------------------------------------------
(* Every action preserves the invariant *)

LEMMA StartTaskStep ==
    ASSUME IInv, NEW t \in Task, NEW p \in Task \cup {Runner}, StartTask(t, p)
    PROVE  IInv'
  <1>1. /\ life[t] = "new" /\ runner = "live" /\ (index = 0 \/ busy # None)
        /\ p = Runner \/ (p \in Live /\ ~done[p])
        /\ life' = [life EXCEPT ![t] = "live"]
        /\ parent' = [parent EXCEPT ![t] = p]
        /\ children' = [children EXCEPT ![p] = @ \cup {t}]
        /\ tasks' = Append(tasks, t)
        /\ posted' = TRUE
        /\ UNCHANGED <<state, blocked, done, aborted, error, steps, timed,
                       next_timeout_task, index, did_run, busy, runner>>
    BY DEF StartTask, CodeRuns, flags, timing
  <1>2. /\ t \notin Live /\ ~done[t] /\ Live \subseteq Task
        /\ Live' = Live \cup {t}
        /\ \A u \in Live : parent'[u] = parent[u] /\ parent[u] \in Live \cup {Runner}
        /\ parent'[t] = p
        /\ \A q \in Task \cup {Runner} :
              children'[q] = IF q = p THEN children[q] \cup {t} ELSE children[q]
    <2>1. t \notin Live /\ ~done[t] /\ Live \subseteq Task
      BY <1>1 DEF IInv, DoneIsBlocked, Live
    <2>2. Live' = Live \cup {t}
      BY <1>1 DEF IInv, TypeOK, Live
    <2>3. \A u \in Live : parent'[u] = parent[u] /\ parent[u] \in Live \cup {Runner}
      BY <1>1, <2>1 DEF IInv, TypeOK, NoDangling
    <2>4. parent'[t] = p
      BY <1>1 DEF IInv, TypeOK
    <2>5. \A q \in Task \cup {Runner} :
              children'[q] = IF q = p THEN children[q] \cup {t} ELSE children[q]
      BY <1>1 DEF IInv, TypeOK
    <2> QED BY <2>1, <2>2, <2>3, <2>4, <2>5
  <1>3. /\ tasks' \in Seq(Task) /\ Len(tasks') = Len(tasks) + 1
        /\ DOMAIN tasks' = 1..(Len(tasks) + 1)
        /\ \A i \in DOMAIN tasks : i \in DOMAIN tasks' /\ tasks'[i] = tasks[i]
        /\ tasks'[Len(tasks) + 1] = t
        /\ \A i \in DOMAIN tasks' : i \in DOMAIN tasks \/ i = Len(tasks) + 1
    <2>1. tasks \in Seq(Task)
      BY DEF IInv, TypeOK
    <2> QED BY <1>1, <2>1
  <1>4. TypeOK'
    <2>1. /\ life' \in [Task -> {"new", "live", "deleted"}]
          /\ parent' \in [Task -> Task \cup {Runner}]
          /\ children' \in [Task \cup {Runner} -> SUBSET Task]
      BY <1>1 DEF IInv, TypeOK
    <2>2. index' \in 0..(Len(tasks') + 1)
      BY <1>1, <1>3, Listed
    <2> QED BY <1>1, <1>3, <2>1, <2>2 DEF IInv, TypeOK
  <1>5. ToSet(tasks') = Live'
    <2>1. ToSet(tasks') = ToSet(tasks) \cup {t}
      BY <1>3, Listed DEF ToSet
    <2> QED BY <1>2, <2>1 DEF IInv, NoDangling
  <1>6. Children'
    <2>1. ASSUME NEW q \in Task \cup {Runner}, NEW c \in children'[q]
          PROVE  c \in Live' /\ ~done'[c] /\ parent'[c] = q
      <3>1. CASE c = t /\ q = p
        BY <1>1, <1>2, <3>1
      <3>2. CASE c \in children[q]
        <4>1. c \in Live /\ ~done[c] /\ parent[c] = q
          BY <3>2 DEF IInv, Children
        <4> QED BY <1>1, <1>2, <4>1
      <3>3. (c = t /\ q = p) \/ c \in children[q]
        <4>1. children'[q] = IF q = p THEN children[q] \cup {t} ELSE children[q]
          BY <1>2
        <4> QED BY <2>1, <4>1
      <3> QED BY <3>1, <3>2, <3>3
    <2> QED BY <2>1 DEF Children
  <1>7. NoDangling'
    <2>1. next_timeout_task' \in Live' \cup {None}
      BY <1>1, <1>2 DEF IInv, NoDangling
    <2>2. \A u \in Live' : parent'[u] \in Live' \cup {Runner}
      BY <1>1, <1>2
    <2>3. \A q \in Live' \cup {Runner} : children'[q] \subseteq Live'
      BY <1>2, <1>6 DEF Children
    <2> QED BY <1>5, <2>1, <2>2, <2>3 DEF NoDangling
  <1>8. Grounded'
    <2>1. ASSUME NEW U \in SUBSET Live', U # {}
          PROVE  \E u \in U : parent'[u] \notin U
      <3>1. CASE U \subseteq Live
        BY <1>2, <2>1, <3>1 DEF IInv, Grounded
      <3>2. CASE U = {t}
        BY <1>1, <1>2, <3>2, TasksAssumption
      <3>3. CASE t \in U /\ U \ {t} # {}
        <4>1. PICK u \in U \ {t} : parent[u] \notin U \ {t}
          BY <1>2, <3>3 DEF IInv, Grounded
        <4>2. u \in Live /\ parent[u] # t
          BY <1>2, <4>1, TasksAssumption
        <4> QED BY <1>2, <4>1, <4>2
      <3> QED BY <1>2, <3>1, <3>2, <3>3
    <2> QED BY <2>1 DEF Grounded
  <1>9. DoneTreeIsDone'
    <2>1. ASSUME NEW u \in Live', ~done'[u]
          PROVE  /\ u \in children'[parent'[u]]
                 /\ parent'[u] # Runner /\ done'[parent'[u]] =>
                      u = busy' /\ aborted'[u]
      <3>1. CASE u = t
        <4>1. u \in children'[p] /\ parent'[u] = p
          BY <1>2, <3>1
        <4>2. p # Runner => ~done'[p]
          BY <1>1
        <4> QED BY <4>1, <4>2
      <3>2. CASE u \in Live
        <4>1. /\ u \in children[parent[u]]
              /\ parent[u] # Runner /\ done[parent[u]] => u = busy /\ aborted[u]
          BY <1>1, <2>1, <3>2 DEF IInv, DoneTreeIsDone
        <4>2. parent'[u] = parent[u] /\ parent[u] \in Task \cup {Runner}
          BY <1>2, <3>2
        <4> QED BY <1>1, <1>2, <4>1, <4>2
      <3> QED BY <1>2, <2>1, <3>1, <3>2
    <2>2. runner' = "live"
      BY <1>1
    <2> QED BY <2>1, <2>2 DEF DoneTreeIsDone
  <1>10. BusyIsCurrent'
    BY <1>1, <1>3 DEF IInv, BusyIsCurrent
  <1>11. DoneIsBlocked'
    BY <1>1 DEF IInv, DoneIsBlocked, TypeOK
  <1>12. PassedIsBlocked' /\ NobodyForgotten'
    BY <1>1 DEF IInv, PassedIsBlocked, NobodyForgotten, BusyIsCurrent
  <1> QED BY <1>4, <1>6, <1>7, <1>8, <1>9, <1>10, <1>11, <1>12 DEF IInv

LEMMA WakeStep ==
    ASSUME IInv, NEW t \in Task, Wake(t)
    PROVE  IInv'
  <1>1. /\ index = 0 /\ ~done[t]
        /\ blocked' = [blocked EXCEPT ![t] = FALSE]
        /\ posted' = TRUE
        /\ UNCHANGED <<node, state, done, aborted, error, steps, timing, run, runner>>
    BY DEF Wake
  <1> USE DEF node, timing, run
  <1>2. TypeOK'
    BY <1>1 DEF IInv, TypeOK
  <1>3. Children' /\ Grounded' /\ DoneTreeIsDone'
    BY <1>1, TreeFrame
  <1>4. NoDangling'
    BY <1>1, <1>3, PointerFrame DEF IInv, NoDangling
  <1>5. BusyIsCurrent' /\ PassedIsBlocked' /\ NobodyForgotten'
    BY <1>1 DEF IInv, BusyIsCurrent, PassedIsBlocked, NobodyForgotten
  <1>6. DoneIsBlocked'
    BY <1>1 DEF IInv, DoneIsBlocked, TypeOK
  <1> QED BY <1>2, <1>3, <1>4, <1>5, <1>6 DEF IInv

LEMMA AbortTaskStep ==
    ASSUME IInv, NEW t \in Task, AbortTask(t)
    PROVE  IInv'
  <1>1. /\ t \in Live /\ Abort({t}) /\ {t} \in SUBSET Live
        /\ index = 0 \/ busy # None
        /\ posted' = (posted \/ t # busy)
        /\ UNCHANGED <<life, parent, state, steps, timing, run, runner>>
    BY DEF AbortTask, CodeRuns
  <1> USE DEF timing, run
  <1>2. /\ Stopped({t}) \in SUBSET Live
        /\ busy \notin Stopped({t})
        /\ done' = Set(done, Stopped({t}), TRUE)
        /\ blocked' = Set(blocked, Stopped({t}), TRUE)
        /\ children' = [p \in DOMAIN children |-> children[p] \ Stopped({t})]
        /\ \A u \in Task : aborted[u] => aborted'[u]
        /\ \A u \in Stopped({t}) : \A c \in children[u] :
              c \in Stopped({t}) \/ (c = busy /\ aborted'[c])
        /\ done' \in [Task -> BOOLEAN] /\ blocked' \in [Task -> BOOLEAN]
        /\ aborted' \in [Task -> BOOLEAN] /\ error' \in [Task -> BOOLEAN]
        /\ children' \in [Task \cup {Runner} -> SUBSET Task]
    BY <1>1, AbortEffect
  <1>3. Children' /\ DoneTreeIsDone' /\ DoneIsBlocked'
    BY <1>1, <1>2, Stopping
  <1>4. Grounded'
    BY <1>1, GroundedFrame
  <1>5. NoDangling'
    BY <1>1, <1>3, PointerFrame DEF IInv, NoDangling
  <1>6. TypeOK'
    <2>1. posted' \in BOOLEAN
      BY <1>1
    <2> QED BY <1>1, <1>2, <2>1 DEF IInv, TypeOK
  <1>7. BusyIsCurrent'
    BY <1>1, <1>2, Listed DEF IInv, BusyIsCurrent, Set, TypeOK
  <1>8. PassedIsBlocked'
    BY <1>1 DEF IInv, PassedIsBlocked, BusyIsCurrent
  <1>9. NobodyForgotten'
    <2>1. index = 0 => posted'
      BY <1>1, TasksAssumption DEF IInv, BusyIsCurrent
    <2> QED BY <1>1, <2>1 DEF NobodyForgotten
  <1> QED BY <1>3, <1>4, <1>5, <1>6, <1>7, <1>8, <1>9 DEF IInv

LEMMA SetTimeoutStep ==
    ASSUME IInv, NEW t \in Task, NEW has \in BOOLEAN, SetTimeout(t, has)
    PROVE  IInv'
  <1>1. /\ t \in Live /\ UpdateTaskTimeout(t, has)
        /\ UNCHANGED <<node, state, flags, steps, run, posted, runner>>
    BY DEF SetTimeout
  <1> USE DEF node, flags, run
  <1>2. timed' \subseteq Task /\ next_timeout_task' \in Live \cup {None}
    BY <1>1, TimeoutStep
  <1>3. Children' /\ Grounded' /\ DoneTreeIsDone'
    BY <1>1, TreeFrame
  <1>4. NoDangling'
    BY <1>1, <1>2, <1>3, PointerFrame
  <1>5. TypeOK'
    <2>1. next_timeout_task' \in Task \cup {None}
      BY <1>2 DEF Live
    <2> QED BY <1>1, <1>2, <2>1 DEF IInv, TypeOK
  <1>6. BusyIsCurrent' /\ PassedIsBlocked' /\ DoneIsBlocked'
    BY <1>1 DEF IInv, BusyIsCurrent, PassedIsBlocked, DoneIsBlocked
  <1>7. NobodyForgotten'
    BY <1>1 DEF IInv, NobodyForgotten, Live
  <1> QED BY <1>3, <1>4, <1>5, <1>6, <1>7 DEF IInv

\* A step that leaves the tree, the timeouts and the list as they are.
LEMMA QuietStep ==
    ASSUME IInv,
           UNCHANGED <<life, parent, children, state, blocked, done, aborted,
                       error, steps, timed, next_timeout_task, tasks, runner>>,
           busy' = busy \/ busy = None,
           index' \in 0..(Len(tasks) + 1), did_run' \in BOOLEAN,
           posted' \in BOOLEAN, busy' \in Task \cup {None},
           BusyIsCurrent', PassedIsBlocked', NobodyForgotten'
    PROVE  IInv'
  <1>1. Children' /\ Grounded' /\ DoneTreeIsDone'
    BY TreeFrame
  <1>2. NoDangling'
    BY <1>1, PointerFrame DEF IInv, NoDangling
  <1>3. TypeOK'
    BY DEF IInv, TypeOK
  <1>4. DoneIsBlocked'
    BY DEF IInv, DoneIsBlocked
  <1> QED BY <1>1, <1>2, <1>3, <1>4 DEF IInv

LEMMA LoopStep ==
    ASSUME IInv, RunTasks \/ NextTask \/ Process \/ NextPass
    PROVE  IInv'
  <1> USE DEF node, flags, timing
  <1>1. TypeOK /\ BusyIsCurrent /\ PassedIsBlocked /\ NobodyForgotten
    BY DEF IInv
  <1>2. CASE RunTasks
    <2>1. /\ index = 0 /\ busy = None /\ index' = 1 /\ busy' = busy
          /\ did_run' = FALSE /\ posted' = FALSE
          /\ UNCHANGED <<life, parent, children, state, blocked, done, aborted,
                       error, steps, timed, next_timeout_task, tasks, runner>>
      BY <1>1, <1>2 DEF RunTasks, BusyIsCurrent
    <2>2. BusyIsCurrent' /\ PassedIsBlocked' /\ NobodyForgotten'
      BY <2>1, Listed DEF BusyIsCurrent, PassedIsBlocked, NobodyForgotten
    <2>3. index' \in 0..(Len(tasks) + 1)
      BY <2>1, Listed
    <2> QED BY <1>1, <2>1, <2>2, <2>3, QuietStep DEF TypeOK
  <1>3. CASE NextTask
    <2>1. /\ index \in DOMAIN tasks /\ busy = None /\ blocked[tasks[index]]
          /\ index' = index + 1 /\ busy' = busy
          /\ did_run' = did_run /\ posted' = posted
          /\ UNCHANGED <<life, parent, children, state, blocked, done, aborted,
                       error, steps, timed, next_timeout_task, tasks, runner>>
      BY <1>3 DEF NextTask, InPass, Current
    <2>2. index' \in 0..(Len(tasks) + 1) /\ index' # 0 /\ index # 0
      BY <2>1, Listed
    <2>3. PassedIsBlocked'
      BY <1>1, <2>1, <2>2, Listed DEF PassedIsBlocked
    <2>4. BusyIsCurrent' /\ NobodyForgotten'
      BY <2>1, <2>2 DEF BusyIsCurrent, NobodyForgotten
    <2> QED BY <1>1, <2>1, <2>2, <2>3, <2>4, QuietStep DEF TypeOK
  <1>4. CASE Process
    <2>1. /\ index \in DOMAIN tasks /\ busy = None /\ ~blocked[tasks[index]]
          /\ index' = index /\ busy' = tasks[index]
          /\ did_run' = TRUE /\ posted' = posted
          /\ UNCHANGED <<life, parent, children, state, blocked, done, aborted,
                       error, steps, timed, next_timeout_task, tasks, runner>>
      BY <1>4 DEF Process, InPass, Current
    <2>2. index' \in 0..(Len(tasks) + 1) /\ index # 0 /\ tasks[index] \in Task
      BY <2>1, Listed
    <2>3. ~done[tasks[index]]
      BY <2>1, <2>2 DEF IInv, DoneIsBlocked
    <2>4. BusyIsCurrent' /\ PassedIsBlocked' /\ NobodyForgotten'
      BY <2>1, <2>2, <2>3 DEF BusyIsCurrent, PassedIsBlocked, NobodyForgotten
    <2> QED BY <1>1, <2>1, <2>2, <2>4, QuietStep DEF TypeOK
  <1>5. CASE NextPass
    <2>1. /\ index = Len(tasks) + 1 /\ index' = 1 /\ busy' = busy
          /\ did_run' = FALSE /\ posted' = posted
          /\ UNCHANGED <<life, parent, children, state, blocked, done, aborted,
                       error, steps, timed, next_timeout_task, tasks, runner>>
      BY <1>5 DEF NextPass
    <2>2. index' \in 0..(Len(tasks) + 1) /\ busy = None
      BY <2>1, Listed
    <2>3. BusyIsCurrent' /\ PassedIsBlocked' /\ NobodyForgotten'
      BY <2>1, <2>2, Listed DEF BusyIsCurrent, PassedIsBlocked, NobodyForgotten
    <2> QED BY <1>1, <2>1, <2>2, <2>3, QuietStep DEF TypeOK
  <1> QED BY <1>2, <1>3, <1>4, <1>5

\* The task that is stepped, and what a Step says of the rest of the loop.
LEMMA BusyFacts ==
    ASSUME IInv, busy # None
    PROVE  /\ busy \in Live /\ busy \in Task /\ ~done[busy]
           /\ index # 0 /\ did_run
           /\ UNCHANGED <<tasks, index, did_run>> /\ busy' = None =>
                BusyIsCurrent' /\ PassedIsBlocked' /\ NobodyForgotten'
  <1>1. busy \in Live /\ busy \in Task
    BY Listed
  <1>2. ~done[busy] /\ index # 0 /\ did_run
    BY DEF IInv, BusyIsCurrent
  <1> QED BY <1>1, <1>2 DEF BusyIsCurrent, PassedIsBlocked, NobodyForgotten

\* A Step that makes its task done.
LEMMA StopsStep ==
    ASSUME IInv, busy # None, NEW err \in BOOLEAN, Stops(busy, err),
           busy' = None, UNCHANGED <<life, parent, runner>>
    PROVE  /\ Children' /\ DoneTreeIsDone' /\ DoneIsBlocked'
           /\ done' \in [Task -> BOOLEAN] /\ blocked' \in [Task -> BOOLEAN]
           /\ aborted' \in [Task -> BOOLEAN] /\ error' \in [Task -> BOOLEAN]
           /\ children' \in [Task \cup {Runner} -> SUBSET Task]
  <1> DEFINE Q == {c \in children[busy] : ~done[c]}
             X == Reached(Q) \cup {busy}
  <1>0. /\ TypeOK /\ Children /\ Live \subseteq Task
        /\ busy \in Live /\ busy \in Task
    BY BusyFacts DEF IInv, Live
  <1>1. Q \in SUBSET Live /\ Q \in SUBSET Task
    BY <1>0 DEF Children
  <1>2. /\ Q \subseteq Reached(Q) /\ Reached(Q) \subseteq Live
        /\ \A t \in Reached(Q) : t # busy =>
                \A c \in children[t] : ~done[c] => c \in Reached(Q)
    BY <1>0, <1>1, ReachedIsClosed, ReachedIsLive
  <1>3. /\ done' = Set(done, X, TRUE)
        /\ blocked' = Set(blocked, X, TRUE)
        /\ error' = [Set(error, Reached(Q), TRUE) EXCEPT ![busy] = err]
        /\ aborted' = Set(aborted, Reached(Q), TRUE)
        /\ children' = [p \in DOMAIN children |-> children[p] \ X]
    BY DEF Stops
  <1>4. X \in SUBSET Live /\ busy \in X
    BY <1>0, <1>2
  <1>5. \A t \in X : \A c \in children[t] : c \in X
    <2>1. ASSUME NEW t \in X, NEW c \in children[t]
          PROVE  c \in X
      <3>1. ~done[c]
        BY <1>0, <1>4, <2>1 DEF Children
      <3>2. CASE t = busy
        BY <1>2, <2>1, <3>1, <3>2
      <3>3. CASE t # busy
        BY <1>2, <2>1, <3>1, <3>3
      <3> QED BY <3>2, <3>3
    <2> QED BY <2>1
  <1> HIDE DEF X, Q
  <1>6. \A t \in Task : aborted[t] => aborted'[t]
    BY <1>0, <1>3 DEF TypeOK, Set
  <1>7. Children' /\ DoneTreeIsDone' /\ DoneIsBlocked'
    BY <1>3, <1>4, <1>5, <1>6, Stopping
  <1>8. /\ done' \in [Task -> BOOLEAN] /\ blocked' \in [Task -> BOOLEAN]
        /\ aborted' \in [Task -> BOOLEAN] /\ error' \in [Task -> BOOLEAN]
    BY <1>0, <1>3 DEF TypeOK, Set
  <1>9. children' \in [Task \cup {Runner} -> SUBSET Task]
    BY <1>0, <1>3 DEF TypeOK
  <1> QED BY <1>7, <1>8, <1>9

LEMMA StepStep ==
    ASSUME IInv, StepAborted \/ StepBlocks \/ StepGoesOn \/ StepEnds
    PROVE  IInv'
  <1> USE DEF node, timing
  <1>1. /\ TypeOK /\ busy # None /\ busy \in Live /\ busy \in Task /\ ~done[busy]
        /\ busy' = None /\ index # 0 /\ did_run
        /\ UNCHANGED <<life, parent, tasks, index, did_run, posted, runner>>
        /\ BusyIsCurrent' /\ PassedIsBlocked' /\ NobodyForgotten'
    <2>1. /\ busy # None /\ busy' = None
          /\ UNCHANGED <<life, parent, tasks, index, did_run, posted, runner>>
      BY DEF StepAborted, StepBlocks, StepGoesOn, StepEnds
    <2> QED BY <2>1, BusyFacts DEF IInv
  <1>2. Grounded'
    BY <1>1, GroundedFrame
  <1>3. CASE StepAborted
    <2>1. /\ Children' /\ DoneTreeIsDone' /\ DoneIsBlocked'
          /\ done' \in [Task -> BOOLEAN] /\ blocked' \in [Task -> BOOLEAN]
          /\ aborted' \in [Task -> BOOLEAN] /\ error' \in [Task -> BOOLEAN]
          /\ children' \in [Task \cup {Runner} -> SUBSET Task]
          /\ UNCHANGED <<state, steps, timed, next_timeout_task>>
      BY <1>1, <1>3, StopsStep DEF StepAborted
    <2>2. NoDangling'
      BY <1>1, <2>1, PointerFrame DEF IInv, NoDangling
    <2>3. TypeOK'
      BY <1>1, <2>1 DEF TypeOK
    <2> QED BY <1>1, <1>2, <2>1, <2>2, <2>3 DEF IInv
  <1>4. CASE StepBlocks
    <2>1. /\ blocked' = [blocked EXCEPT ![busy] = TRUE]
          /\ UNCHANGED <<children, state, done, aborted, error, steps, timed,
                         next_timeout_task>>
          /\ ~aborted[busy]
      BY <1>4 DEF StepBlocks
    <2>2. Children' /\ DoneTreeIsDone'
      BY <1>1, <2>1, TreeFrame
    <2>3. NoDangling'
      BY <1>1, <2>1, <2>2, PointerFrame DEF IInv, NoDangling
    <2>4. TypeOK'
      BY <1>1, <2>1 DEF TypeOK
    <2>5. DoneIsBlocked'
      BY <1>1, <2>1 DEF IInv, DoneIsBlocked, TypeOK
    <2> QED BY <1>1, <1>2, <2>2, <2>3, <2>4, <2>5 DEF IInv
  <1>5. CASE StepGoesOn
    <2>1. PICK has \in BOOLEAN : UpdateTaskTimeout(busy, has)
      BY <1>5 DEF StepGoesOn
    <2>2. /\ blocked' = [blocked EXCEPT ![busy] = FALSE]
          /\ state' = [state EXCEPT ![busy] = "run"]
          /\ steps[busy] < MaxSteps /\ steps' = [steps EXCEPT ![busy] = @ + 1]
          /\ UNCHANGED <<children, done, aborted, error>>
          /\ ~aborted[busy]
      BY <1>5 DEF StepGoesOn
    <2>3. timed' \subseteq Task /\ next_timeout_task' \in Live \cup {None}
      BY <1>1, <2>1, TimeoutStep
    <2>4. Children' /\ DoneTreeIsDone'
      BY <1>1, <2>2, TreeFrame
    <2>5. NoDangling'
      BY <1>1, <2>3, <2>4, PointerFrame
    <2>6. TypeOK'
      <3>1. /\ next_timeout_task' \in Task \cup {None}
            /\ blocked' \in [Task -> BOOLEAN]
            /\ state' \in [Task -> {"init", "run", "done", "error"}]
        BY <1>1, <2>2, <2>3 DEF TypeOK, Live
      <3>2. steps' \in [Task -> 0..MaxSteps]
        <4>1. steps[busy] \in 0..MaxSteps /\ steps \in [Task -> 0..MaxSteps]
          BY <1>1 DEF TypeOK
        <4>2. steps[busy] + 1 \in 0..MaxSteps
          BY <2>2, <4>1, TasksAssumption
        <4> QED BY <2>2, <4>1, <4>2
      <3> QED BY <1>1, <2>2, <2>3, <3>1, <3>2 DEF TypeOK
    <2>7. DoneIsBlocked'
      BY <1>1, <2>2 DEF IInv, DoneIsBlocked, TypeOK
    <2> QED BY <1>1, <1>2, <2>4, <2>5, <2>6, <2>7 DEF IInv
  <1>6. CASE StepEnds
    <2>1. PICK err \in BOOLEAN :
            /\ Stops(busy, err)
            /\ state' = [state EXCEPT ![busy] = IF err THEN "error" ELSE "done"]
      BY <1>6 DEF StepEnds
    <2>2. /\ Children' /\ DoneTreeIsDone' /\ DoneIsBlocked'
          /\ done' \in [Task -> BOOLEAN] /\ blocked' \in [Task -> BOOLEAN]
          /\ aborted' \in [Task -> BOOLEAN] /\ error' \in [Task -> BOOLEAN]
          /\ children' \in [Task \cup {Runner} -> SUBSET Task]
      BY <1>1, <2>1, StopsStep
    <2>3. /\ timed' \subseteq Task /\ next_timeout_task' \in Live \cup {None}
          /\ UNCHANGED steps
      BY <1>1, <1>6, TimeoutStep DEF StepEnds
    <2>4. NoDangling'
      BY <1>1, <2>2, <2>3, PointerFrame
    <2>5. TypeOK'
      <3>1. /\ next_timeout_task' \in Task \cup {None}
            /\ state' \in [Task -> {"init", "run", "done", "error"}]
        BY <1>1, <2>1, <2>3 DEF TypeOK, Live
      <3> QED BY <1>1, <2>2, <2>3, <3>1 DEF TypeOK
    <2> QED BY <1>1, <1>2, <2>2, <2>4, <2>5 DEF IInv
  <1> QED BY <1>3, <1>4, <1>5, <1>6

-----------------------------------------------------------------------------
(* Deleting *)

LEMMA Deleting ==
    ASSUME TypeOK, NoDangling, NEW D \in SUBSET Live, Delete(D)
    PROVE  /\ life' \in [Task -> {"new", "live", "deleted"}]
           /\ \A t \in Task : life'[t] = "new" <=> life[t] = "new"
           /\ Live' = Live \ D
           /\ tasks' \in Seq(Task)
           /\ ToSet(tasks') = Live'
           /\ timed' \subseteq Task
           /\ next_timeout_task' \in Live' \cup {None}
  <1>1. /\ life' = Set(life, D, "deleted") /\ D \subseteq Task
        /\ life \in [Task -> {"new", "live", "deleted"}]
        /\ \A t \in D : life[t] = "live"
    BY DEF Delete, Live, TypeOK
  <1>2. \A t \in Task : life'[t] = IF t \in D THEN "deleted" ELSE life[t]
    BY <1>1 DEF Set
  <1>3. /\ life' \in [Task -> {"new", "live", "deleted"}]
        /\ \A t \in Task : life'[t] = "new" <=> life[t] = "new"
    BY <1>1, <1>2 DEF Set
  <1>4. Live' = Live \ D
    BY <1>1, <1>2 DEF Live
  <1>5. tasks' \in Seq(Task) /\ ToSet(tasks') = ToSet(tasks) \ D
    <2>1. ToSet(tasks) \subseteq Task
      BY DEF NoDangling, Live
    <2>2. tasks' \in Without(tasks, D)
      BY DEF Delete
    <2>3. PICK n \in 0..Len(tasks) : tasks' \in [1..n -> ToSet(tasks) \ D]
      BY <2>2 DEF Without
    <2>4. tasks' \in Seq(Task)
      <3>1. n \in Nat /\ tasks' \in [1..n -> Task]
        BY <2>1, <2>3 DEF TypeOK
      <3> QED BY <3>1
    <2> QED BY <2>2, <2>4 DEF Without
  <1>6. ToSet(tasks') = Live'
    BY <1>4, <1>5 DEF NoDangling
  <1>7. timed' \subseteq Task
    BY DEF Delete, TypeOK
  <1>8. next_timeout_task' \in Live' \cup {None}
    <2>1. ToSet(tasks) = Live /\ next_timeout_task \in Live \cup {None}
      BY DEF NoDangling
    <2> QED BY <1>4, <2>1 DEF Delete, Recalc
  <1> QED BY <1>3, <1>4, <1>5, <1>6, <1>7, <1>8

LEMMA PauseStep ==
    ASSUME IInv, Pause
    PROVE  IInv'
  <1> DEFINE D == {t \in ToSet(tasks) : done[t]}
  <1>1. /\ index = Len(tasks) + 1 /\ ~did_run /\ Delete(D) /\ index' = 0
        /\ UNCHANGED <<parent, children, state, blocked, done, aborted, error,
                       steps, did_run, busy, posted, runner>>
    BY DEF Pause, flags
  <1>2. /\ TypeOK /\ NoDangling /\ ToSet(tasks) = Live /\ D \in SUBSET Live
        /\ Live \subseteq Task /\ D = {t \in Live : done[t]}
        /\ busy = None /\ index # 0
    BY <1>1, Listed DEF IInv, NoDangling
  <1> HIDE DEF D
  <1>3. /\ life' \in [Task -> {"new", "live", "deleted"}]
        /\ \A t \in Task : life'[t] = "new" <=> life[t] = "new"
        /\ Live' = Live \ D
        /\ tasks' \in Seq(Task) /\ ToSet(tasks') = Live'
        /\ timed' \subseteq Task
        /\ next_timeout_task' \in Live' \cup {None}
    BY <1>1, <1>2, Deleting
  <1>4. \A t \in Live' : t \in Live /\ ~done[t]
    BY <1>2, <1>3
  <1>5. TypeOK'
    <2>1. next_timeout_task' \in Task \cup {None}
      BY <1>2, <1>3
    <2>2. index' \in 0..(Len(tasks') + 1)
      BY <1>1, <1>3
    <2> QED BY <1>1, <1>2, <1>3, <2>1, <2>2 DEF TypeOK
  <1>6. Children'
    <2>1. ASSUME NEW p \in Task \cup {Runner}, NEW c \in children[p]
          PROVE  c \in Live' /\ ~done[c] /\ parent[c] = p
      <3>1. c \in Live /\ ~done[c] /\ parent[c] = p
        BY DEF IInv, Children
      <3> QED BY <1>2, <1>3, <3>1
    <2> QED BY <1>1, <2>1 DEF Children
  <1>7. ASSUME NEW t \in Live'
        PROVE  /\ t \in children[parent[t]]
               /\ parent[t] \in Live' \cup {Runner}
               /\ parent[t] # Runner => ~done[parent[t]]
    <2>1. /\ t \in children[parent[t]]
          /\ parent[t] # Runner /\ done[parent[t]] => t = busy
          /\ parent[t] \in Live \cup {Runner}
      BY <1>2, <1>4, <1>7 DEF IInv, DoneTreeIsDone, NoDangling
    <2>2. t # None
      BY <1>2, <1>4, <1>7, TasksAssumption
    <2> QED BY <1>2, <1>3, <2>1, <2>2
  <1>8. DoneTreeIsDone'
    <2>1. runner = "deleted" => Live' = {}
      BY <1>3 DEF IInv, DoneTreeIsDone
    <2> QED BY <1>1, <1>7, <2>1 DEF DoneTreeIsDone
  <1>9. NoDangling'
    <2>1. \A p \in Live' \cup {Runner} : children'[p] \subseteq Live'
      BY <1>2, <1>3, <1>6 DEF Children
    <2> QED BY <1>1, <1>3, <1>7, <2>1 DEF NoDangling
  <1>10. Grounded'
    BY <1>1, <1>3 DEF IInv, Grounded
  <1>11. DoneIsBlocked'
    BY <1>1, <1>3 DEF IInv, DoneIsBlocked
  <1>12. BusyIsCurrent' /\ PassedIsBlocked'
    BY <1>1, <1>2 DEF BusyIsCurrent, PassedIsBlocked
  <1>13. NobodyForgotten'
    <2>1. ASSUME NEW t \in Live'
          PROVE  blocked[t]
      <3>1. PICK i \in DOMAIN tasks : t = tasks[i]
        BY <1>4, <2>1, Listed
      <3>2. i < index
        BY <1>1, <3>1, Listed
      <3> QED BY <1>1, <1>2, <3>1, <3>2 DEF IInv, PassedIsBlocked
    <2> QED BY <1>1, <1>4, <2>1 DEF NobodyForgotten
  <1> QED BY <1>5, <1>6, <1>8, <1>9, <1>10, <1>11, <1>12, <1>13 DEF IInv

LEMMA DestroyStep ==
    ASSUME IInv, Destroy
    PROVE  IInv'
  <1> DEFINE R == children[Runner]
             D == {t \in ToSet(tasks) : done'[t]}
  <1>1. /\ index = 0 /\ Abort(R) /\ Delete(D) /\ runner' = "deleted"
        /\ posted' = FALSE
        /\ UNCHANGED <<parent, state, steps, index, did_run, busy>>
    BY DEF Destroy
  <1>2. /\ TypeOK /\ NoDangling /\ Children /\ ToSet(tasks) = Live
        /\ D \in SUBSET Live /\ D = {t \in Live : done'[t]}
        /\ Live \subseteq Task /\ busy = None /\ R \in SUBSET Live
    BY <1>1 DEF IInv, NoDangling, BusyIsCurrent, Live
  <1> HIDE DEF D, R
  <1>3. /\ Stopped(R) \in SUBSET Live
        /\ done' = Set(done, Stopped(R), TRUE)
        /\ blocked' = Set(blocked, Stopped(R), TRUE)
        /\ children' = [p \in DOMAIN children |-> children[p] \ Stopped(R)]
        /\ \A t \in Stopped(R) : \A c \in children[t] :
                 c \in Stopped(R) \/ (c = busy /\ aborted'[c])
        /\ \A t \in R : t # busy /\ ~done[t] => t \in Stopped(R)
        /\ done' \in [Task -> BOOLEAN] /\ blocked' \in [Task -> BOOLEAN]
        /\ aborted' \in [Task -> BOOLEAN] /\ error' \in [Task -> BOOLEAN]
        /\ children' \in [Task \cup {Runner} -> SUBSET Task]
    BY <1>1, <1>2, AbortEffect
  <1>4. /\ \A t \in Task : done'[t] = (done[t] \/ t \in Stopped(R))
        /\ \A t \in Task : blocked'[t] = (blocked[t] \/ t \in Stopped(R))
        /\ None \notin Task
    <2>1. DOMAIN done = Task /\ DOMAIN blocked = Task
      BY <1>2 DEF TypeOK
    <2>2. /\ \A t \in Task : done'[t] = IF t \in Stopped(R) THEN TRUE ELSE done[t]
          /\ \A t \in Task : blocked'[t] = IF t \in Stopped(R) THEN TRUE ELSE blocked[t]
      BY <1>3, <2>1 DEF Set
    <2>3. done \in [Task -> BOOLEAN] /\ blocked \in [Task -> BOOLEAN]
      BY <1>2 DEF TypeOK
    <2> QED BY <2>2, <2>3, TasksAssumption
  \* A live task that is not done has a chain of parents to the runner.
  <1>5. \A t \in Live : done'[t]
    <2> DEFINE U == {t \in Live : ~done'[t]}
    <2>1. SUFFICES U = {}
      OBVIOUS
    <2>2. SUFFICES ASSUME U # {} PROVE FALSE
      OBVIOUS
    <2>3. PICK t \in U : parent[t] \notin U
      BY <2>2 DEF IInv, Grounded
    <2>4. /\ t \in Live /\ t \in Task /\ ~done[t] /\ t \notin Stopped(R) /\ t # busy
      BY <1>2, <1>4, <2>3
    <2>5. /\ t \in children[parent[t]]
          /\ parent[t] = Runner \/ ~done[parent[t]]
          /\ parent[t] \in Live \cup {Runner}
      BY <2>4 DEF IInv, DoneTreeIsDone, NoDangling
    <2>6. parent[t] # Runner
      BY <1>3, <2>4, <2>5 DEF R
    <2>7. parent[t] \in Live /\ parent[t] \in Task /\ done'[parent[t]]
      BY <1>2, <2>3, <2>5, <2>6
    <2>8. parent[t] \in Stopped(R)
      BY <1>4, <2>5, <2>6, <2>7
    <2> QED BY <1>3, <2>4, <2>5, <2>8
  <1>6. /\ life' \in [Task -> {"new", "live", "deleted"}]
        /\ \A t \in Task : life'[t] = "new" <=> life[t] = "new"
        /\ Live' = {} /\ Live' = Live \ D
        /\ tasks' \in Seq(Task) /\ ToSet(tasks') = Live'
        /\ timed' \subseteq Task
        /\ next_timeout_task' \in Live' \cup {None}
    BY <1>1, <1>2, <1>5, Deleting
  <1>7. \A p \in Task \cup {Runner} : children'[p] = {}
    <2>1. ASSUME NEW p \in Task \cup {Runner}, NEW c \in children'[p]
          PROVE  FALSE
      <3>1. c \in children[p] /\ c \notin Stopped(R)
        BY <1>2, <1>3, <2>1 DEF TypeOK
      <3>2. c \in Live /\ ~done[c]
        BY <1>2, <3>1 DEF Children
      <3> QED BY <1>2, <1>4, <1>5, <3>1, <3>2
    <2> QED BY <2>1
  <1>8. TypeOK'
    <2>1. index' \in 0..(Len(tasks') + 1) /\ next_timeout_task' \in Task \cup {None}
      BY <1>1, <1>6
    <2> QED BY <1>1, <1>2, <1>3, <1>6, <2>1 DEF TypeOK
  <1>9. Children' /\ Grounded' /\ DoneTreeIsDone' /\ NobodyForgotten'
    BY <1>6, <1>7 DEF Children, Grounded, DoneTreeIsDone, NobodyForgotten
  <1>10. NoDangling'
    BY <1>6, <1>7 DEF NoDangling
  <1>11. DoneIsBlocked'
    <2>1. \A t \in Stopped(R) : life[t] # "new"
      BY <1>3 DEF Live
    <2> QED BY <1>4, <1>6, <2>1 DEF IInv, DoneIsBlocked
  <1>12. BusyIsCurrent' /\ PassedIsBlocked'
    BY <1>1, <1>2 DEF BusyIsCurrent, PassedIsBlocked
  <1> QED BY <1>8, <1>9, <1>10, <1>11, <1>12 DEF IInv

-----------------------------------------------------------------------------
(* The theorems *)

LEMMA InitInvariant == Init => IInv
  <1> SUFFICES ASSUME Init PROVE IInv
    OBVIOUS
  <1> USE DEF Init
  <1>1. Live = {}
    BY DEF Live
  <1>2. TypeOK
    <2>1. tasks \in Seq(Task) /\ index \in 0..(Len(tasks) + 1)
      OBVIOUS
    <2>2. steps \in [Task -> 0..MaxSteps]
      BY TasksAssumption
    <2> QED BY <2>1, <2>2 DEF TypeOK
  <1>3. Children /\ Grounded /\ DoneTreeIsDone /\ NobodyForgotten
    BY <1>1 DEF Children, Grounded, DoneTreeIsDone, NobodyForgotten
  <1>4. NoDangling
    <2>1. ToSet(tasks) = {}
      BY DEF ToSet
    <2> QED BY <1>1, <2>1 DEF NoDangling
  <1>5. BusyIsCurrent /\ DoneIsBlocked /\ PassedIsBlocked
    BY DEF BusyIsCurrent, DoneIsBlocked, PassedIsBlocked
  <1> QED BY <1>2, <1>3, <1>4, <1>5 DEF IInv

LEMMA NextInvariant == IInv /\ [Next]_vars => IInv'
  <1> SUFFICES ASSUME IInv, [Next]_vars PROVE IInv'
    OBVIOUS
  <1>1. CASE Step \/ Loop
    BY <1>1, LoopStep, StepStep, PauseStep DEF Step, Loop
  <1>2. CASE Destroy
    BY <1>2, DestroyStep
  <1>3. ASSUME NEW t \in Task, Wake(t) \/ AbortTask(t)
        PROVE  IInv'
    BY <1>3, WakeStep, AbortTaskStep
  <1>4. ASSUME NEW t \in Task, NEW p \in Task \cup {Runner}, StartTask(t, p)
        PROVE  IInv'
    BY <1>4, StartTaskStep
  <1>5. ASSUME NEW t \in Task, NEW has \in BOOLEAN, SetTimeout(t, has)
        PROVE  IInv'
    BY <1>5, SetTimeoutStep
  <1>6. CASE UNCHANGED vars
    <2>1. /\ UNCHANGED <<life, parent, children, state, blocked, done, aborted,
                         error, steps, timed, next_timeout_task, tasks, index,
                         did_run, busy, posted, runner>>
      BY <1>6 DEF vars, node, flags, timing, run
    <2>2. BusyIsCurrent' /\ PassedIsBlocked' /\ NobodyForgotten'
      BY <2>1 DEF IInv, BusyIsCurrent, PassedIsBlocked, NobodyForgotten, Live
    <2> QED BY <2>1, <2>2, QuietStep DEF IInv, TypeOK
  <1> QED BY <1>1, <1>2, <1>3, <1>4, <1>5, <1>6 DEF Next

LEMMA Invariance == Spec => []IInv
  BY InitInvariant, NextInvariant, PTL DEF Spec

\* Every variable of the runner keeps its type: the index of the loop in
\* InternalRunTasks never leaves the list, however it grows.
THEOREM TypeCorrectness == Spec => []TypeOK
  <1>1. IInv => TypeOK
    BY DEF IInv
  <1> QED BY <1>1, Invariance, PTL

\* No pointer outlives its task: tasks_, next_timeout_task_, the parents and
\* the sets of children only ever hold tasks that were not deleted.
THEOREM PointersStayAlive == Spec => []NoDangling
  <1>1. IInv => NoDangling
    BY DEF IInv
  <1> QED BY <1>1, Invariance, PTL

\* What is done took its children with it (AbortAllChildren), and ~TaskRunner
\* leaves no task behind.
THEOREM TreesEndTogether == Spec => []DoneTreeIsDone
  <1>1. IInv => DoneTreeIsDone
    BY DEF IInv
  <1> QED BY <1>1, Invariance, PTL

\* While no loop runs, a RunTasks is posted for every task that can run or has
\* to be deleted.
THEOREM SomebodyWillRun == Spec => []NobodyForgotten
  <1>1. IInv => NobodyForgotten
    BY DEF IInv
  <1> QED BY <1>1, Invariance, PTL
=============================================================================
