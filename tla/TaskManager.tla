---------------------------- MODULE TaskManager ----------------------------
(***************************************************************************)
(* Delegated tasks (task.py): a manager owned by one agent starts a worker  *)
(* per task, lets at most MaxConcurrent of them run a sub-agent, cancels    *)
(* them, wakes whoever waits for them and forgets the oldest finished ones. *)
(*                                                                         *)
(* Everything runs on one event loop, so a step below is the code between   *)
(* two awaits.  Callers are the concurrent users of the manager: the tool   *)
(* call of the running turn and whoever holds the agent's lifecycle lock.   *)
(***************************************************************************)
EXTENDS Naturals, FiniteSets, Sequences, SequencesExt

CONSTANTS
    Tasks,          \* task ids
    NoTask,         \* not a task
    Callers,        \* concurrent users of the manager
    MaxConcurrent,  \* size of the semaphore
    MaxTerminal,    \* terminal tasks retained
    MaxStarts       \* bound: calls of start_task for one task

ASSUME TaskAssumption ==
    /\ IsFiniteSet(Tasks) /\ NoTask \notin Tasks
    /\ MaxConcurrent \in Nat \ {0}
    /\ MaxTerminal \in Nat
    /\ MaxStarts \in Nat \ {0}

VARIABLES
    registry,     \* _tasks
    born,         \* the place of each task in the order of creation, that of _tasks
    state,        \* Task.state, "absent" before create_task
    creating,     \* create_task suspended in the CREATED event: with or without auto_start
    starts,       \* start_task calls; <<t, starts[t]>> is Task._task, and its future Task._future
    worker,       \* where each worker is suspended
    outcome,      \* what agent.run, then agent.close, left to the worker
    interrupted,  \* workers with a cancellation not yet delivered
    agents,       \* workers whose sub-agent is not closed
    resolved,     \* futures with a result
    terminal,     \* _terminal_task_ids
    published,    \* events of each task, in the order the bus recorded them
    call          \* the manager call each caller is suspended in

managed == <<registry, born, state, creating, starts>>
running == <<worker, outcome, interrupted, agents>>
vars == <<registry, born, state, creating, starts, worker, outcome, interrupted, agents,
          resolved, terminal, published, call>>

Workers == Tasks \X (1 .. MaxStarts)
DoneStates == {"completed", "failed", "cancelled"}
IsDone(t) == state[t] \in DoneStates
Current(t) == <<t, starts[t]>>

(* Mutant: the slot is given back while the sub-agent is settling. *)
HoldersUnsettled == {w \in Workers : worker[w] \in {"starting", "running", "closing", "completing"}}

\* The workers inside `async with self._semaphore`.
Holders == {w \in Workers : worker[w] \in {"starting", "running", "closing", "settling", "completing"}}

Idle == [pc |-> "idle", op |-> "none", task |-> NoTask, todo |-> {}, futures |-> {}]

Init ==
    /\ registry = {}
    /\ born = [t \in Tasks |-> 0]
    /\ state = [t \in Tasks |-> "absent"]
    /\ creating = [t \in Tasks |-> "no"]
    /\ starts = [t \in Tasks |-> 0]
    /\ worker = [w \in Workers |-> "none"]
    /\ outcome = [w \in Workers |-> "none"]
    /\ interrupted = {}
    /\ agents = {}
    /\ resolved = {}
    /\ terminal = <<>>
    /\ published = [t \in Tasks |-> <<>>]
    /\ call = [c \in Callers |-> Idle]

Publish(t, event) == published' = [published EXCEPT ![t] = Append(@, event)]

----------------------------------------------------------------------------
(* Creating and starting.                                                  *)

\* The task is registered, and visible, before its CREATED event is awaited.
CreateTask(t) ==
    /\ state[t] = "absent"
    /\ registry' = registry \cup {t}
    /\ born' = [born EXCEPT ![t] = Cardinality({u \in Tasks : state[u] # "absent"}) + 1]
    /\ state' = [state EXCEPT ![t] = "pending"]
    /\ \E mode \in {"auto", "manual"} : creating' = [creating EXCEPT ![t] = mode]
    /\ UNCHANGED <<starts, running, resolved, terminal, published, call>>

\* start_task: a new future and a new worker, whatever an earlier start left.
Startable(t) == state[t] = "pending" /\ t \in registry /\ starts[t] < MaxStarts
Launch(t) ==
    /\ starts' = [starts EXCEPT ![t] = @ + 1]
    /\ worker' = [worker EXCEPT ![<<t, starts[t] + 1>>] = "acquire"]

StartTask(t) ==
    /\ Startable(t)
    /\ creating[t] = "no"
    /\ Launch(t)
    /\ UNCHANGED <<registry, born, state, creating, outcome, interrupted, agents,
                   resolved, terminal, published, call>>

\* The event is out; auto_start then calls start_task, which raises when the
\* task was cancelled in the meantime.
CreatedPublished(t) ==
    /\ creating[t] # "no"
    /\ Publish(t, "created")
    /\ creating' = [creating EXCEPT ![t] = "no"]
    /\ IF creating[t] = "auto" /\ Startable(t)
         THEN Launch(t)
         ELSE UNCHANGED <<starts, worker>>
    /\ UNCHANGED <<registry, born, state, outcome, interrupted, agents, resolved, terminal, call>>

\* The creator is cancelled during the event: the task stays, never started.
CreatorInterrupted(t) ==
    /\ creating[t] # "no"
    /\ creating' = [creating EXCEPT ![t] = "no"]
    /\ Publish(t, "created") \/ UNCHANGED published
    /\ UNCHANGED <<registry, born, state, starts, running, resolved, terminal, call>>

----------------------------------------------------------------------------
(* _finish_task.                                                           *)

Finish(t) ==
    LET ids == Append(terminal, t)
        excess == IF Len(ids) > MaxTerminal THEN Len(ids) - MaxTerminal ELSE 0
        popped == ToSet(SubSeq(ids, 1, excess))
    IN /\ resolved' = IF starts[t] > 0 THEN resolved \cup {Current(t)} ELSE resolved
       /\ terminal' = SubSeq(ids, excess + 1, Len(ids))
       /\ registry' = {x \in registry : x \notin popped \/ ~IsDone(x)}

----------------------------------------------------------------------------
(* The worker, _execute_task.                                              *)

At(w, pc) == worker[w] = pc /\ w \notin interrupted
Goto(w, pc) == worker' = [worker EXCEPT ![w] = pc]

\* Semaphore acquired.  A task no longer pending is left alone.
Acquire(w) ==
    /\ At(w, "acquire")
    /\ Cardinality(Holders) < MaxConcurrent
    /\ IF state[w[1]] # "pending"
         THEN Goto(w, "ended") /\ UNCHANGED state
         ELSE Goto(w, "starting") /\ state' = [state EXCEPT ![w[1]] = "running"]
    /\ UNCHANGED <<registry, born, creating, starts, outcome, interrupted, agents,
                   resolved, terminal, published, call>>

\* Leaving the semaphore with an exception: the first terminal state wins.
Fail(w, mark, pc) ==
    IF IsDone(w[1])
      THEN Goto(w, "ended") /\ UNCHANGED state
      ELSE Goto(w, pc) /\ state' = [state EXCEPT ![w[1]] = mark]

\* STARTED is out and the sub-agent is created; agent.run is awaited.
StartedPublished(w) ==
    /\ At(w, "starting")
    /\ Publish(w[1], "started")
    /\ \/ /\ Goto(w, "running")
          /\ agents' = agents \cup {w}
          /\ UNCHANGED state
       \/ /\ Fail(w, "failed", "failing")
          /\ UNCHANGED agents
    /\ UNCHANGED <<registry, born, creating, starts, outcome, interrupted, resolved, terminal, call>>

(* Mutant: a cancelled run may return its result. *)
RunReturnsDeaf(w) ==
    /\ worker[w] = "running"
    /\ Goto(w, "closing")
    /\ \E result \in {"ok", "error", "cancelled"} :
         outcome' = [outcome EXCEPT ![w] = result]
    /\ interrupted' = interrupted \ {w}
    /\ UNCHANGED <<managed, agents, resolved, terminal, published, call>>

\* agent.run returned or raised: agent.close begins.  A cancelled run raises
\* CancelledError once its turn is settled, and so does a run whose turn was
\* cancelled from within (TurnCancelledError is a CancelledError).
RunReturns(w) ==
    /\ worker[w] = "running"
    /\ Goto(w, "closing")
    /\ \E result \in IF w \in interrupted THEN {"cancelled"} ELSE {"ok", "error", "cancelled"} :
         outcome' = [outcome EXCEPT ![w] = result]
    /\ interrupted' = interrupted \ {w}
    /\ UNCHANGED <<managed, agents, resolved, terminal, published, call>>

\* The task that runs agent.close ends, perhaps with an error, which replaces
\* what the run left unless the worker was interrupted while it waited.
AgentClosed(w) ==
    /\ w \in agents
    /\ worker[w] # "running"
    /\ agents' = agents \ {w}
    /\ \/ UNCHANGED outcome
       \/ /\ worker[w] = "closing"
          /\ outcome' = [outcome EXCEPT ![w] = "error"]
    /\ UNCHANGED <<managed, worker, interrupted, resolved, terminal, published, call>>

\* _close_agent is interrupted: it keeps waiting, then reports a cancellation.
CloseInterrupted(w) ==
    /\ worker[w] = "closing"
    /\ w \in interrupted
    /\ Goto(w, "settling")
    /\ interrupted' = interrupted \ {w}
    /\ outcome' = [outcome EXCEPT ![w] = "cancelled"]
    /\ UNCHANGED <<managed, agents, resolved, terminal, published, call>>

\* The sub-agent is closed and the worker goes on with what it has; a further
\* interruption of the settling loop is swallowed.
Settled(w) ==
    /\ w \notin agents
    /\ At(w, "closing") \/ worker[w] = "settling"
    /\ interrupted' = interrupted \ {w}
    /\ CASE outcome[w] = "ok" -> Goto(w, "completing") /\ state' = [state EXCEPT ![w[1]] = "completed"]
         [] outcome[w] = "error" -> Fail(w, "failed", "failing")
         [] OTHER -> Fail(w, "cancelled", "cancelling")
    /\ UNCHANGED <<registry, born, creating, starts, outcome, agents, resolved, terminal, published, call>>

TerminalEvent(w) ==
    CASE worker[w] = "completing" -> "completed"
      [] worker[w] = "failing" -> "failed"
      [] OTHER -> "cancelled"

(* Mutant: an interrupted emission skips _finish_task. *)
TerminalPublishedOnce(w) ==
    /\ worker[w] \in {"completing", "failing", "cancelling"}
    /\ \/ Publish(w[1], TerminalEvent(w))
       \/ w \in interrupted /\ UNCHANGED published
    /\ IF w \in interrupted THEN UNCHANGED <<registry, resolved, terminal>> ELSE Finish(w[1])
    /\ Goto(w, "ended")
    /\ interrupted' = interrupted \ {w}
    /\ UNCHANGED <<born, state, creating, starts, outcome, agents, call>>

\* The terminal event is out, or its emission was interrupted: _finish_task
\* runs in both cases.
TerminalPublished(w) ==
    /\ worker[w] \in {"completing", "failing", "cancelling"}
    /\ \/ Publish(w[1], TerminalEvent(w))
       \/ w \in interrupted /\ UNCHANGED published
    /\ Finish(w[1])
    /\ Goto(w, "ended")
    /\ interrupted' = interrupted \ {w}
    /\ UNCHANGED <<born, state, creating, starts, outcome, agents, call>>

\* CancelledError at the semaphore or in the STARTED event, which may be out.
WorkerInterrupted(w) ==
    /\ w \in interrupted
    /\ worker[w] \in {"acquire", "starting"}
    /\ Fail(w, "cancelled", "cancelling")
    /\ interrupted' = interrupted \ {w}
    /\ \/ worker[w] = "starting" /\ Publish(w[1], "started")
       \/ UNCHANGED published
    /\ UNCHANGED <<registry, born, creating, starts, outcome, agents, resolved, terminal, call>>

\* The loop is shut down: every live worker is cancelled.
LoopShutdown ==
    LET live == {w \in Workers : worker[w] \notin {"none", "ended"}}
    IN /\ live # {}
       /\ interrupted' = interrupted \cup live
       /\ UNCHANGED <<managed, worker, outcome, agents, resolved, terminal, published, call>>

----------------------------------------------------------------------------
(* cancel_task and cancel_for_session.  A call holds the task that is being *)
(* cancelled and, in todo, those it has not come to.                        *)

Return(c) == call' = [call EXCEPT ![c] = Idle]
Awaited(t) == starts[t] > 0 /\ worker[Current(t)] # "ended"

\* What a canceller does up to its next await: the first task of todo that is
\* listed and not done is marked, and its current worker is interrupted.
Live(todo) == {t \in todo : ~IsDone(t) /\ t \in registry}
CancelNext(c, op, todo) ==
    \/ /\ Live(todo) = {}
       /\ Return(c)
       /\ UNCHANGED <<state, interrupted>>
    \/ \E t \in Live(todo) :
         /\ \A u \in Live(todo) : born[t] <= born[u]
         /\ state' = [state EXCEPT ![t] = "cancelled"]
         /\ interrupted' = IF Awaited(t) THEN interrupted \cup {Current(t)} ELSE interrupted
         /\ call' = [call EXCEPT ![c] = [Idle EXCEPT !.pc = IF Awaited(t) THEN "worker" ELSE "event",
                                          !.op = op, !.task = t, !.todo = Live(todo) \ {t}]]

\* cancel_task of one listed task.
CancelTask(c) ==
    /\ call[c].pc = "idle"
    /\ \E t \in registry : CancelNext(c, "cancel", {t})
    /\ UNCHANGED <<registry, born, creating, starts, worker, outcome, agents, resolved, terminal, published>>

\* cancel_for_session walks a copy of the tasks listed now.
CancelForSession(c) ==
    /\ call[c].pc = "idle"
    /\ CancelNext(c, "sweep", registry)
    /\ UNCHANGED <<registry, born, creating, starts, worker, outcome, agents, resolved, terminal, published>>

WorkerAwaited(c) ==
    /\ call[c].pc = "worker"
    /\ ~Awaited(call[c].task)
    /\ call' = [call EXCEPT ![c].pc = "event"]
    /\ UNCHANGED <<managed, running, resolved, terminal, published>>

\* The CANCELLED event is out (the bus serves emitters in turn, so CREATED came
\* first): the task is finished and the walk goes on.
CancelPublished(c) ==
    LET t == call[c].task
    IN /\ call[c].pc = "event"
       /\ creating[t] = "no"
       /\ Publish(t, "cancelled")
       /\ Finish(t)
       /\ CancelNext(c, call[c].op, call[c].todo)
       /\ UNCHANGED <<born, creating, starts, worker, outcome, agents>>

\* The canceller is cancelled.  While it awaits the worker this reaches the
\* worker and is otherwise suppressed; in the event it ends the whole walk,
\* after the task is finished.
CancellerInterrupted(c) ==
    LET t == call[c].task
    IN \/ /\ call[c].pc = "worker"
          /\ Awaited(t)
          /\ interrupted' = interrupted \cup {Current(t)}
          /\ UNCHANGED <<managed, worker, outcome, agents, resolved, terminal, published, call>>
       \/ /\ call[c].pc = "event"
          /\ \/ UNCHANGED published
             \/ creating[t] = "no" /\ Publish(t, "cancelled")
          /\ Finish(t)
          /\ Return(c)
          /\ UNCHANGED <<born, state, creating, starts, running>>

----------------------------------------------------------------------------
(* Waiting: wait_for_task and wait_for_any want some future, wait_for_all   *)
(* wants all of them.                                                      *)

Futures(ts) == {Current(t) : t \in {u \in ts : starts[u] > 0}}
Waiting(op, fs) == [Idle EXCEPT !.pc = "wait", !.op = op, !.futures = fs]

\* A task that never started is returned when it is done and refused otherwise.
WaitForTask(c) ==
    /\ call[c].pc = "idle"
    /\ \E t \in registry :
         /\ starts[t] > 0
         /\ call' = [call EXCEPT ![c] = Waiting("any", {Current(t)})]
    /\ UNCHANGED <<managed, running, resolved, terminal, published>>

WaitForAny(c) ==
    /\ call[c].pc = "idle"
    /\ \E ts \in SUBSET registry :
         /\ Futures(ts) # {}
         /\ call' = [call EXCEPT ![c] = Waiting("any", Futures(ts))]
    /\ UNCHANGED <<managed, running, resolved, terminal, published>>

\* Tasks without a future are not waited for, and returned all the same.
WaitForAll(c) ==
    /\ call[c].pc = "idle"
    /\ \E ts \in SUBSET registry \ {{}} :
         call' = [call EXCEPT ![c] = Waiting("all", Futures(ts))]
    /\ UNCHANGED <<managed, running, resolved, terminal, published>>

WaitReturns(c) ==
    /\ call[c].pc = "wait"
    /\ \/ call[c].op = "any" /\ call[c].futures \cap resolved # {}
       \/ call[c].op = "all" /\ call[c].futures \subseteq resolved
    /\ Return(c)
    /\ UNCHANGED <<managed, running, resolved, terminal, published>>

\* A timeout, or the waiter is cancelled: the shielded futures are untouched.
WaitAbandoned(c) ==
    /\ call[c].pc = "wait"
    /\ Return(c)
    /\ UNCHANGED <<managed, running, resolved, terminal, published>>

\* Finished tasks older than some age are dropped, from both collections; what
\* is left of the terminal ids stays in its order.
CleanupCompleted ==
    \E old \in SUBSET {t \in registry : IsDone(t)} \ {{}} :
      /\ registry' = registry \ old
      /\ \E n \in 0 .. Len(terminal) : \E at \in [1 .. n -> DOMAIN terminal] :
           /\ \A i, j \in 1 .. n : i < j => at[i] < at[j]
           /\ \A k \in DOMAIN terminal : terminal[k] \notin old <=> \E i \in 1 .. n : at[i] = k
           /\ terminal' = [i \in 1 .. n |-> terminal[at[i]]]
      /\ UNCHANGED <<born, state, creating, starts, running, resolved, published, call>>

----------------------------------------------------------------------------
WorkerAdvances(w) ==
    \/ StartedPublished(w) \/ RunReturns(w) \/ AgentClosed(w)
    \/ CloseInterrupted(w) \/ Settled(w) \/ TerminalPublished(w) \/ WorkerInterrupted(w)

CallerCalls(c) ==
    CancelTask(c) \/ CancelForSession(c) \/ WaitForTask(c) \/ WaitForAny(c) \/ WaitForAll(c)
CallerAdvances(c) == WorkerAwaited(c) \/ CancelPublished(c) \/ WaitReturns(c)
CallerLeaves(c) == CancellerInterrupted(c) \/ WaitAbandoned(c)

Next ==
    \/ \E t \in Tasks : CreateTask(t) \/ StartTask(t) \/ CreatedPublished(t) \/ CreatorInterrupted(t)
    \/ \E w \in Workers : Acquire(w) \/ WorkerAdvances(w)
    \/ \E c \in Callers : CallerCalls(c) \/ CallerAdvances(c) \/ CallerLeaves(c)
    \/ CleanupCompleted
    \/ LoopShutdown

Spec == Init /\ [][Next]_vars

\* The loop runs whatever is ready, a run and a close end (turn deadline, model
\* timeouts), and the semaphore serves its waiters in order.
Fairness ==
    /\ \A t \in Tasks : WF_vars(CreatedPublished(t))
    /\ \A w \in Workers : SF_vars(Acquire(w)) /\ WF_vars(WorkerAdvances(w))
    /\ \A c \in Callers : WF_vars(CallerAdvances(c))

LiveSpec == Spec /\ Fairness

----------------------------------------------------------------------------
(* Properties *)

\* Every variable has its type.
TypeOK ==
    /\ registry \subseteq Tasks /\ terminal \in Seq(Tasks)
    /\ born \in [Tasks -> 0 .. Cardinality(Tasks)]
    /\ state \in [Tasks -> {"absent", "pending", "running"} \cup DoneStates]
    /\ creating \in [Tasks -> {"no", "auto", "manual"}]
    /\ starts \in [Tasks -> 0 .. MaxStarts]
    /\ worker \in [Workers -> {"none", "acquire", "starting", "running", "closing", "settling",
                               "completing", "failing", "cancelling", "ended"}]
    /\ outcome \in [Workers -> {"none", "ok", "error", "cancelled"}]
    /\ interrupted \subseteq Workers /\ agents \subseteq Workers /\ resolved \subseteq Workers
    /\ published \in [Tasks -> Seq({"created", "started"} \cup DoneStates)]
    /\ call \in [Callers -> [pc : {"idle", "worker", "event", "wait"},
                             op : {"none", "cancel", "sweep", "any", "all"},
                             task : Tasks \cup {NoTask}, todo : SUBSET Tasks,
                             futures : SUBSET Workers]]
    /\ \A c \in Callers : call[c].pc \in {"worker", "event"} => call[c].task # NoTask

\* However workers are cancelled, and cancelled again, no more sub-agents are
\* open at a time than the semaphore admits: a slot is not given back while
\* the sub-agent that used it is still closing.
AgentsBounded == Cardinality(agents) <= MaxConcurrent

\* Completion, failure and cancellation race for a task: the first one wins and
\* is never overwritten, and "a cancelled pending task can never start later",
\* nor any task that is done: a sub-agent is opened for a running task only.
\* It is claimed of tasks started once.
FirstOutcomeWins ==
    [][/\ \A t \in Tasks : IsDone(t) /\ starts[t] <= 1 => state'[t] = state[t]
       /\ \A w \in agents' \ agents : starts[w[1]] <= 1 => state'[w[1]] = "running"]_vars

\* A task is executed at most once, even when it was started twice while it
\* was pending: the second worker finds it taken when it gets its slot.
ExecutesOnce ==
    /\ \A t \in Tasks : Cardinality({i \in DOMAIN published[t] : published[t][i] = "started"}) <= 1
    /\ \A v, w \in agents : v[1] = w[1] => v = w

\* What listeners hear of a task agrees with what became of it: at most one
\* terminal event, the last event of the task, naming its final state.  (Of
\* tasks started once, as the next.)
EventsAgree ==
    \A t \in Tasks : \A i \in DOMAIN published[t] :
        starts[t] <= 1 /\ published[t][i] \in DoneStates => i = Len(published[t]) /\ published[t][i] = state[t]

\* A canceller that goes on to announce the cancellation of a task has seen the
\* end of its sub-agent.
CancelSettles ==
    \A c \in Callers : call[c].pc = "event" /\ starts[call[c].task] <= 1 =>
        ~ \E w \in agents : w[1] = call[c].task


\* Eviction and cleanup forget only what is over, and enough of it: a task that
\* can still run is listed, so that a later cancellation finds it, and apart
\* from the tasks whose terminal event is being emitted at most MaxTerminal of
\* the listed ones are done, in whatever order tasks finish, are cancelled
\* before they start, and are cleaned up.
Finishing(t) ==
    \/ \E w \in Workers : w[1] = t /\ worker[w] \in {"completing", "failing", "cancelling"}
    \/ \E c \in Callers : call[c].pc \in {"worker", "event"} /\ call[c].task = t
TableIsExact ==
    /\ \A t \in Tasks : state[t] \in {"pending", "running"} => t \in registry
    /\ Cardinality({t \in registry : IsDone(t) /\ ~Finishing(t)}) <= MaxTerminal

\* The invariants together.
TasksAreSound ==
    TypeOK /\ AgentsBounded /\ EventsAgree /\ TableIsExact /\ ExecutesOnce /\ CancelSettles

\* A task that was started ends, and its future wakes whoever waits for it,
\* whichever of completion, failure and cancellation comes first (futures stay
\* resolved and starts are bounded, so that it holds from some time on); and
\* whoever cancels gets an answer, even when the task was started twice.
TasksResolve ==
    /\ <>[](\A t \in Tasks : starts[t] > 0 => Current(t) \in resolved)
    /\ \A c \in Callers : []<>(call[c].pc \notin {"worker", "event"})
=============================================================================
