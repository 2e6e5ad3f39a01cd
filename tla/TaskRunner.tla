----------------------------- MODULE TaskRunner -----------------------------
(* talk_base::TaskRunner, Task and TaskParent, as TXmppPump owns them: a tree *)
(* of tasks, stepped in turn by a RunTasks that is posted whenever one of    *)
(* them has to run, and deleted when RunTasks pauses.  A handler of the      *)
(* signalling thread, or the Process of the task that is being stepped, may  *)
(* start, wake and abort tasks; all this is on one thread.                   *)
EXTENDS Integers, Sequences, FiniteSets, SequencesExt

CONSTANTS
    Task,
    Runner,   \* the root of the tree, not a task
    None,     \* NULL
    MaxSteps  \* bound: how often a task may go on without blocking

ASSUME TasksAssumption == Runner \notin Task /\ None \notin Task /\ MaxSteps \in Nat

VARIABLES
    life,     \* of each task: "new" (not made yet), "live" or "deleted"
    parent,   \* parent_ of each task
    children, \* children_ of each task and of the runner
    state,    \* state_: "init", "run" (any state in between), "done" or "error"
    blocked, done, aborted, error,
    steps,    \* steps of each task that did not block
    timed,    \* the tasks with a timeout_time_
    next_timeout_task,
    tasks,    \* tasks_
    index,    \* of InternalRunTasks in tasks_; 0 when it is not running
    did_run,
    busy,     \* the task whose Process runs, or None
    posted,   \* a RunTasks is in the queue
    runner    \* "live", or "deleted"

node == <<life, parent, children>>
flags == <<blocked, done, aborted, error>>
timing == <<timed, next_timeout_task>>
run == <<tasks, index, did_run, busy>>
vars == <<node, state, flags, steps, timing, run, posted, runner>>

Init ==
    /\ life = [t \in Task |-> "new"]
    /\ parent = [t \in Task |-> Runner]
    /\ children = [p \in Task \cup {Runner} |-> {}]
    /\ state = [t \in Task |-> "init"]
    /\ blocked = [t \in Task |-> FALSE]
    /\ done = [t \in Task |-> FALSE]
    /\ aborted = [t \in Task |-> FALSE]
    /\ error = [t \in Task |-> FALSE]
    /\ steps = [t \in Task |-> 0]
    /\ timed = {} /\ next_timeout_task = None
    /\ tasks = <<>> /\ index = 0 /\ did_run = FALSE /\ busy = None
    /\ posted = FALSE /\ runner = "live"

Live == {t \in Task : life[t] = "live"}

\* A handler of the thread runs, or the Process of a task that was stepped
\* before (its first Step only leaves STATE_INIT), and may call what it likes.
CodeRuns == runner = "live" /\ (index = 0 \/ (busy # None /\ state[busy] = "run"))

\* What s, which lists nothing twice, lists besides D, in the same order.
Without(s, D) ==
    {q \in UNION {[1..n -> ToSet(s) \ D] : n \in 0..Len(s)} :
        /\ ToSet(q) = ToSet(s) \ D
        /\ \A i, j \in DOMAIN q : i < j =>
              \E k, l \in DOMAIN s : k < l /\ s[k] = q[i] /\ s[l] = q[j]}

\* f with value v on S.
Set(f, S, v) == [x \in DOMAIN f |-> IF x \in S THEN v ELSE f[x]]

-----------------------------------------------------------------------------
(* Stopping a tree: Task::Stop, TaskParent::OnStopped, AbortAllChildren *)

Aborts(S) == {t \in S : t # busy}
Closed(S) == \A t \in Aborts(S) : \A c \in children[t] : ~done[c] => c \in S

\* All that Abort reaches from the tasks in R: it goes on below each of them,
\* but for the one that is in its Process.
Reached(R) == {t \in Task : \A S \in SUBSET Task : R \subseteq S /\ Closed(S) => t \in S}

\* Mutant of Abort: the children are left running.
AbortAlone(R) ==
    LET stopped == Aborts({t \in R : ~done[t]})
    IN /\ aborted' = Set(aborted, {t \in R : ~done[t]}, TRUE)
       /\ done' = Set(done, stopped, TRUE)
       /\ blocked' = Set(blocked, stopped, TRUE)
       /\ error' = Set(error, stopped, TRUE)
       /\ children' = [p \in DOMAIN children |-> children[p] \ stopped]
\* Abort of the tasks in R that are not done: a busy one is only marked, the
\* others stop, with their children, and leave their parents.
Abort(R) ==
    LET reached == Reached({t \in R : ~done[t]})
        stopped == Aborts(reached)
    IN /\ aborted' = Set(aborted, reached, TRUE)
       /\ done' = Set(done, stopped, TRUE)
       /\ blocked' = Set(blocked, stopped, TRUE)
       /\ error' = Set(error, stopped, TRUE)
       /\ children' = [p \in DOMAIN children |-> children[p] \ stopped]

\* The end of a Step that makes t done.
Stops(t, err) ==
    LET stopped == Reached({c \in children[t] : ~done[c]})
    IN /\ done' = Set(done, stopped \cup {t}, TRUE)
       /\ blocked' = Set(blocked, stopped \cup {t}, TRUE)
       /\ error' = [Set(error, stopped, TRUE) EXCEPT ![t] = err]
       /\ aborted' = Set(aborted, stopped, TRUE)
       /\ children' = [p \in DOMAIN children |-> children[p] \ (stopped \cup {t})]

-----------------------------------------------------------------------------
(* Timeouts.  How late they are does not matter here, only who has one. *)

\* TaskRunner::RecalcNextTimeout, without the tasks in excluded.
Recalc(candidates) ==
    IF candidates = {} THEN next_timeout_task' = None
    ELSE next_timeout_task' \in candidates

\* Task::ResetTimeout and ClearTimeout, with UpdateTaskTimeout: t has a
\* timeout from now on, or has none.
UpdateTaskTimeout(t, has) ==
    /\ timed' = IF has THEN timed \cup {t} ELSE timed \ {t}
    /\ IF has
       THEN next_timeout_task' \in {t} \cup (IF next_timeout_task = None THEN {}
                                             ELSE {next_timeout_task})
       ELSE IF next_timeout_task = t
       THEN Recalc({u \in ToSet(tasks) : ~done[u] /\ u \in timed /\ u # t})
       ELSE UNCHANGED next_timeout_task

-----------------------------------------------------------------------------
(* What code may do to tasks *)

\* (new Task(p))->Start(), under a parent that is not done.
StartTask(t, p) ==
    /\ CodeRuns
    /\ life[t] = "new"
    /\ p = Runner \/ (p \in Live /\ ~done[p])
    /\ life' = [life EXCEPT ![t] = "live"]
    /\ parent' = [parent EXCEPT ![t] = p]
    /\ children' = [children EXCEPT ![p] = @ \cup {t}]
    /\ tasks' = Append(tasks, t)
    /\ posted' = TRUE
    /\ UNCHANGED <<state, flags, steps, timing, index, did_run, busy, runner>>

\* Mutant of Wake: nobody is told.
WakeQuietly(t) ==
    /\ runner = "live" /\ index = 0
    /\ t \in Live /\ ~done[t] /\ blocked[t]
    /\ blocked' = [blocked EXCEPT ![t] = FALSE]
    /\ UNCHANGED <<node, state, done, aborted, error, steps, timing, run, posted, runner>>
\* Task::Wake, by a handler: a stanza or a delayed message came.  For a task
\* that is not blocked, as the busy one, it does nothing, even if the task is
\* about to block; no Process of src wakes another task.
Wake(t) ==
    /\ runner = "live" /\ index = 0
    /\ t \in Live /\ ~done[t] /\ blocked[t]
    /\ blocked' = [blocked EXCEPT ![t] = FALSE]
    /\ posted' = TRUE
    /\ UNCHANGED <<node, state, done, aborted, error, steps, timing, run, runner>>

\* Task::Abort
AbortTask(t) ==
    /\ CodeRuns
    /\ t \in Live /\ ~done[t]
    /\ Abort({t})
    /\ posted' = (posted \/ t # busy)
    /\ UNCHANGED <<life, parent, state, steps, timing, run, runner>>

\* Task::set_timeout_seconds, ResumeTimeout and SuspendTimeout
SetTimeout(t, has) ==
    /\ CodeRuns
    /\ t \in Live /\ ~done[t] /\ state[t] = "run"
    /\ UpdateTaskTimeout(t, has)
    /\ UNCHANGED <<node, state, flags, steps, run, posted, runner>>

-----------------------------------------------------------------------------
(* TaskRunner::InternalRunTasks *)

\* TXmppPump::OnMessage
RunTasks ==
    /\ runner = "live" /\ posted /\ index = 0
    /\ posted' = FALSE
    /\ index' = 1
    /\ did_run' = FALSE
    /\ UNCHANGED <<node, state, flags, steps, timing, tasks, busy, runner>>

Current == tasks[index]
InPass == index \in DOMAIN tasks /\ busy = None

\* The task at hand is blocked: on to the next, or to another pass.
NextTask ==
    /\ InPass /\ blocked[Current]
    /\ index' = index + 1
    /\ UNCHANGED <<node, state, flags, steps, timing, tasks, did_run, busy, posted, runner>>

\* Task::Step calls Process; a task in its first state needs no code for it.
Process ==
    /\ InPass /\ ~blocked[Current]
    /\ busy' = Current
    /\ did_run' = TRUE
    /\ UNCHANGED <<node, state, flags, steps, timing, tasks, index, posted, runner>>

\* Mutant of StepAborted: the mark is not looked at.
StepAbortedUnseen ==
    /\ busy # None /\ aborted[busy]
    /\ blocked' = [blocked EXCEPT ![busy] = TRUE]
    /\ busy' = None
    /\ UNCHANGED <<node, state, done, aborted, error, steps, timing, tasks, index,
                   did_run, posted, runner>>
\* Step finds that its task was aborted meanwhile.
StepAborted ==
    /\ busy # None /\ aborted[busy]
    /\ Stops(busy, TRUE)
    /\ busy' = None
    /\ UNCHANGED <<life, parent, state, steps, timing, tasks, index, did_run, posted, runner>>

\* Process returned STATE_BLOCKED.
StepBlocks ==
    /\ busy # None /\ ~aborted[busy]
    /\ state[busy] = "run"
    /\ blocked' = [blocked EXCEPT ![busy] = TRUE]
    /\ busy' = None
    /\ UNCHANGED <<node, state, done, aborted, error, steps, timing, tasks, index,
                   did_run, posted, runner>>

\* It returned another state, which may have a timeout.
StepGoesOn ==
    /\ busy # None /\ ~aborted[busy]
    /\ steps[busy] < MaxSteps
    /\ state' = [state EXCEPT ![busy] = "run"]
    /\ blocked' = [blocked EXCEPT ![busy] = FALSE]
    /\ steps' = [steps EXCEPT ![busy] = @ + 1]
    /\ \E has \in BOOLEAN : UpdateTaskTimeout(busy, has)
    /\ busy' = None
    /\ UNCHANGED <<node, done, aborted, error, tasks, index, did_run, posted, runner>>

\* It returned STATE_DONE, as a timeout does, or STATE_ERROR.
StepEnds ==
    /\ busy # None /\ ~aborted[busy]
    /\ state[busy] = "run"
    /\ \E err \in BOOLEAN :
         /\ Stops(busy, err)
         /\ state' = [state EXCEPT ![busy] = IF err THEN "error" ELSE "done"]
    /\ UpdateTaskTimeout(busy, FALSE)
    /\ busy' = None
    /\ UNCHANGED <<life, parent, steps, tasks, index, did_run, posted, runner>>

\* Mutant of NextPass: the index is not set back.
NextPassOnward ==
    /\ index = Len(tasks) + 1 /\ did_run
    /\ index' = index + 1
    /\ did_run' = FALSE
    /\ UNCHANGED <<node, state, flags, steps, timing, tasks, busy, posted, runner>>
\* The end of a pass in which a task ran.
NextPass ==
    /\ index = Len(tasks) + 1 /\ did_run
    /\ index' = 1
    /\ did_run' = FALSE
    /\ UNCHANGED <<node, state, flags, steps, timing, tasks, busy, posted, runner>>

\* Mutant of Delete: the pointer to the next task to time out is kept.
DeleteKeepsNext(D) ==
    /\ life' = Set(life, D, "deleted")
    /\ tasks' \in Without(tasks, D)
    /\ timed' = timed \ D
    /\ UNCHANGED next_timeout_task
\* The tasks in D are deleted, and taken off the list.
Delete(D) ==
    /\ life' = Set(life, D, "deleted")
    /\ tasks' \in Without(tasks, D)
    /\ timed' = timed \ D
    /\ IF next_timeout_task \in D
       THEN Recalc({u \in ToSet(tasks) \ D : u \in timed})
       ELSE UNCHANGED next_timeout_task

\* Running has paused: what is done is deleted.
Pause ==
    /\ index = Len(tasks) + 1 /\ ~did_run
    /\ Delete({t \in ToSet(tasks) : done[t]})
    /\ index' = 0
    /\ UNCHANGED <<parent, children, state, flags, steps, did_run, busy, posted, runner>>

\* ~TaskRunner, by a handler: everything is aborted and deleted.
Destroy ==
    /\ runner = "live" /\ index = 0
    /\ runner' = "deleted"
    /\ Abort(children[Runner])
    /\ Delete({t \in ToSet(tasks) : done'[t]})
    /\ posted' = FALSE
    /\ UNCHANGED <<parent, state, steps, index, did_run, busy>>

-----------------------------------------------------------------------------
Step == Process \/ StepAborted \/ StepBlocks \/ StepGoesOn \/ StepEnds
Loop == RunTasks \/ NextTask \/ NextPass \/ Pause

Next == \/ Step \/ Loop \/ Destroy
        \/ \E t \in Task :
             \/ Wake(t) \/ AbortTask(t)
             \/ \E p \in Task \cup {Runner} : StartTask(t, p)
             \/ \E has \in BOOLEAN : SetTimeout(t, has)

Spec == Init /\ [][Next]_vars

\* The thread goes on, and a Process returns.
FairSpec == Spec /\ WF_vars(Loop \/ Step)

-----------------------------------------------------------------------------
TypeOK ==
    /\ life \in [Task -> {"new", "live", "deleted"}]
    /\ parent \in [Task -> Task \cup {Runner}]
    /\ children \in [Task \cup {Runner} -> SUBSET Task]
    /\ state \in [Task -> {"init", "run", "done", "error"}]
    /\ blocked \in [Task -> BOOLEAN] /\ done \in [Task -> BOOLEAN]
    /\ aborted \in [Task -> BOOLEAN] /\ error \in [Task -> BOOLEAN]
    /\ steps \in [Task -> 0..MaxSteps]
    /\ timed \subseteq Task /\ next_timeout_task \in Task \cup {None}
    /\ tasks \in Seq(Task) /\ index \in 0..(Len(tasks) + 1)
    /\ did_run \in BOOLEAN /\ busy \in Task \cup {None}
    /\ posted \in BOOLEAN /\ runner \in {"live", "deleted"}

\* No pointer outlives its task: not the list, not the next task to time out,
\* not the parent of a task (which its Stop calls) and not a set of children
\* (which an Abort walks).
NoDangling ==
    /\ ToSet(tasks) = Live
    /\ next_timeout_task \in Live \cup {None}
    /\ \A t \in Live : parent[t] \in Live \cup {Runner}
    /\ \A p \in Live \cup {Runner} : children[p] \subseteq Live

\* What is done took its children with it, wherever the end came from: only a
\* task that is in its Process may still be under it, and it is doomed.  The
\* runner, when it is deleted, leaves no task behind that would use it.
DoneTreeIsDone ==
    /\ \A t \in Live : ~done[t] =>
          /\ t \in children[parent[t]]
          /\ parent[t] # Runner /\ done[parent[t]] => t = busy /\ aborted[t]
    /\ runner = "deleted" => Live = {}

\* While nothing runs, a task that can run or has to be deleted has a RunTasks
\* posted for it.
NobodyForgotten ==
    index = 0 /\ (\E t \in Live : ~blocked[t] \/ done[t]) => posted

\* An aborted task is deleted, whoever aborted it and whatever it was doing.
AbortedIsDeleted == \A t \in Task : aborted[t] /\ t \in Live ~> t \notin Live
=============================================================================
