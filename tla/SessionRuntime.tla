--------------------------- MODULE SessionRuntime ---------------------------
(***************************************************************************)
(* The per-session turn runtime of ankaloop: SessionRuntime and the        *)
(* lifecycle part of TurnHandle in src/src/ankaloop/runtime.py.            *)
(*                                                                         *)
(* All of it runs on one asyncio event loop, so an action is what one task *)
(* does between two points where it really suspends.  No method awaits     *)
(* anything while it holds self._lock, so the lock is never contended and  *)
(* taking it never suspends: it has no variable here.  self._close_lock is *)
(* held across awaits and has one (closer).                                *)
(*                                                                         *)
(* The tasks are the callers of the public methods, the worker that runs   *)
(* _run_queue, and one task per started turn (the processor coroutine).    *)
(* Between the end of a turn's task and the step in which the worker sees  *)
(* it, every other task may run: that window is what the model is about.   *)
(***************************************************************************)
EXTENDS Naturals, Sequences, FiniteSets

CONSTANTS
    Turns,      \* turn ids; each is submitted at most once (uuid4)
    Callers,    \* tasks that call cancel_*, cancel_turn and close
    Priority,   \* MessagePriority of each turn
    Retention,  \* terminal_handle_retention
    NoTurn      \* _active_handle is None

ASSUME PriorityAssumption == Priority \in [Turns -> Nat]
ASSUME RetentionAssumption == Retention \in Nat
ASSUME NoTurnAssumption == NoTurn \notin Turns

VARIABLES
    closed,       \* _closed
    status,       \* SessionRuntimeStatus
    queue,        \* the handles of _queue
    sequence,     \* _sequence
    seqno,        \* the sequence number a handle was pushed with
    known,        \* the keys of _turns
    terminalIds,  \* _terminal_turn_ids
    turnStatus,   \* TurnHandle.status ("absent" before submit)
    active,       \* _active_handle (and with it _active_task)
    task,         \* the asyncio task of each turn's processor
    hasWorker,    \* _worker is neither None nor done
    ready,        \* worker tasks that stand at the top of _run_queue's loop
    closer,       \* the caller that holds _close_lock, if any
    call          \* what each caller is doing

vars == <<closed, status, queue, sequence, seqno, known, terminalIds,
          turnStatus, active, task, hasWorker, ready, closer, call>>

TurnVars == <<queue, sequence, seqno, known, terminalIds, turnStatus>>

Terminal == {"completed", "failed", "cancelled"}

TurnStatuses == {"absent", "queued", "running"} \cup Terminal

(* What a turn's asyncio task is doing; "cancelling" has been asked to     *)
(* stop, and each of the three last states is task.done().                 *)
TaskDone == {"returned", "raised", "interrupted"}

TaskLive == {"pending", "cancelling"}

Statuses == {"idle", "busy", "cancelled", "error", "closed"}

(* Where a caller stands: the call it made last, where in it it waits or   *)
(* how it left it, the turn it waits for, and, as a history, the turns     *)
(* that were accepted when cancel_all began.                               *)
Ops == {"none", "cancel_active", "cancel_all", "cancel_turn", "close"}

Waiting == {"await_task", "await_done", "close_lock", "await_worker"}

Positions == {"idle", "returned", "raised"} \cup Waiting

Accepted == {t \in Turns : turnStatus[t] # "absent"}

Live == {t \in Turns : turnStatus[t] \in {"queued", "running"}}

Init ==
    /\ closed = FALSE
    /\ status = "idle"
    /\ queue = {}
    /\ sequence = 0
    /\ seqno = [t \in Turns |-> 0]
    /\ known = {}
    /\ terminalIds = << >>
    /\ turnStatus = [t \in Turns |-> "absent"]
    /\ active = NoTurn
    /\ task = [t \in Turns |-> "none"]
    /\ hasWorker = FALSE
    /\ ready = 0
    /\ closer = {}
    /\ call = [c \in Callers |->
                 [op |-> "none", at |-> "idle", turn |-> NoTurn, before |-> {}]]

-----------------------------------------------------------------------------
(* Helpers *)

(* Mutant: a heap keyed on -sequence. *)
RunsBeforeLIFO(t, u) ==
    \/ Priority[t] > Priority[u]
    \/ Priority[t] = Priority[u] /\ seqno[t] > seqno[u]

(* The order of the heap entries (-priority, sequence, handle). *)
RunsBefore(t, u) ==
    \/ Priority[t] > Priority[u]
    \/ Priority[t] = Priority[u] /\ seqno[t] < seqno[u]

(* Mutant: a handle that has to come before itself. *)
IsNextOfAll(t) == t \in queue /\ \A u \in queue : RunsBefore(t, u)

(* The handle heappop returns. *)
IsNext(t) == t \in queue /\ \A u \in queue \ {t} : RunsBefore(t, u)

(* The queue in the order repeated heappops empty it. *)
IsDrainOrder(s) ==
    /\ \A t \in queue : \E i \in DOMAIN s : s[i] = t
    /\ \A i, j \in DOMAIN s : i < j => RunsBefore(s[i], s[j])

DrainOrders == {s \in [1..Cardinality(queue) -> queue] : IsDrainOrder(s)}

(* _record_terminal_turn_locked for each handle of ids in turn: append to  *)
(* the deque, then forget the oldest handles beyond the retention.         *)
RecordTerminal(ids) ==
    LET all  == terminalIds \o ids
        drop == IF Len(all) > Retention THEN Len(all) - Retention ELSE 0
    IN  /\ terminalIds' = SubSeq(all, drop + 1, Len(all))
        /\ known' = known \ {all[i] : i \in 1..drop}

(* What the worker makes of a finished task: the handle's terminal status  *)
(* and the runtime's status.                                               *)
Outcome(t) == CASE task[t] = "returned"    -> "completed"
                [] task[t] = "raised"      -> "failed"
                [] task[t] = "interrupted" -> "cancelled"

StatusAfter(t) == CASE task[t] = "returned"    -> "idle"
                    [] task[t] = "raised"      -> "error"
                    [] task[t] = "interrupted" -> "cancelled"

-----------------------------------------------------------------------------
(* submit *)

(* Mutant: a second worker. *)
AlwaysStartWorker == TRUE

(* "self._worker is None or self._worker.done()" *)
MustStartWorker == ~hasWorker

(* Else RuntimeClosedError, with no effect. *)
Accepting == ~closed

Submit(t) ==
    /\ turnStatus[t] = "absent"
    /\ Accepting
    /\ sequence' = sequence + 1
    /\ seqno' = [seqno EXCEPT ![t] = sequence + 1]
    /\ queue' = queue \cup {t}
    /\ known' = known \cup {t}
    /\ turnStatus' = [turnStatus EXCEPT ![t] = "queued"]
    /\ hasWorker' = TRUE
    /\ ready' = IF MustStartWorker THEN ready + 1 ELSE ready
    /\ UNCHANGED <<closed, status, terminalIds, active, task, closer, call>>

-----------------------------------------------------------------------------
(* The worker: _run_queue *)

(* From the top of the loop, with handle statuses hs and runtime status st,*)
(* to the next suspension: the worker either pops a turn, starts its task  *)
(* and awaits it, or finds the queue empty and returns.  The code's test   *)
(* for a popped handle that is already done has no counterpart: QueueInv   *)
(* shows that the queue holds queued turns only.                           *)
PopOrExit(hs, st) ==
    \/ \E t \in queue :
         /\ IsNext(t)
         /\ queue' = queue \ {t}
         /\ active' = t
         /\ turnStatus' = [hs EXCEPT ![t] = "running"]
         /\ task' = [task EXCEPT ![t] = "pending"]
         /\ status' = "busy"
         /\ UNCHANGED hasWorker
    \/ /\ queue = {}
       /\ hasWorker' = FALSE
       /\ status' = IF closed THEN "closed"
                    ELSE IF st \in {"cancelled", "error"} THEN st ELSE "idle"
       /\ active' = NoTurn
       /\ turnStatus' = hs
       /\ UNCHANGED <<queue, task>>

(* A worker task runs for the first time. *)
WorkerStart ==
    /\ ready > 0
    /\ ready' = ready - 1
    /\ PopOrExit(turnStatus, status)
    /\ UNCHANGED <<closed, sequence, seqno, known, terminalIds, closer, call>>

(* The worker resumes from "await task": it finishes the handle, clears    *)
(* the active turn, records the handle and goes round the loop, without    *)
(* suspending in between.                                                  *)
WorkerResume(t) ==
    /\ turnStatus[t] = "running"
    /\ task[t] \in TaskDone
    /\ RecordTerminal(<<t>>)
    /\ PopOrExit([turnStatus EXCEPT ![t] = Outcome(t)], StatusAfter(t))
    /\ UNCHANGED <<closed, sequence, seqno, ready, closer, call>>

(* The processor coroutine of a turn ends: it returns, raises, or lets a   *)
(* CancelledError out.  Asked to stop it may still return or raise, and a  *)
(* CancelledError may come from inside without a request.                  *)
ProcessorEnd(t) ==
    /\ task[t] \in TaskLive
    /\ \E end \in TaskDone : task' = [task EXCEPT ![t] = end]
    /\ UNCHANGED <<closed, status, queue, sequence, seqno, known, terminalIds,
                   turnStatus, active, hasWorker, ready, closer, call>>

-----------------------------------------------------------------------------
(* The callers *)

CanCall(c) == call[c].at \in {"idle", "returned", "raised"}

Calling(c, op, at, t) ==
    call' = [call EXCEPT ![c] =
                [op |-> op, at |-> at, turn |-> t,
                 before |-> IF op = "cancel_all" THEN Accepted ELSE {}]]

MoveTo(c, at) == call' = [call EXCEPT ![c].at = at]

(* task.cancel(): no effect on a task that is done or was asked before. *)
CancelTask(t) == [task EXCEPT ![t] = IF @ = "pending" THEN "cancelling" ELSE @]

ActiveIsLive == active # NoTurn /\ task[active] \in TaskLive

(* _cancel_queued_locked: every queued turn is cancelled, in heap order. *)
CancelQueued ==
    \E s \in DrainOrders :
       /\ queue' = {}
       /\ turnStatus' = [t \in Turns |->
                           IF t \in queue THEN "cancelled" ELSE turnStatus[t]]
       /\ RecordTerminal(s)

(* The synchronous part of _cancel. *)
CancelNow(clear) ==
    /\ task' = IF ActiveIsLive THEN CancelTask(active) ELSE task
    /\ IF clear THEN CancelQueued
                ELSE UNCHANGED <<queue, turnStatus, known, terminalIds>>

(* Mutant: a cancellation that is requested and not awaited. *)
CancelAndForget == "returned"

(* _cancel waits for the turn only when its task was not done. *)
AfterCancelNow == IF ActiveIsLive THEN "await_task" ELSE "returned"

(* cancel_active(), cancel_active(clear_queue=True) and cancel_all(). *)
CancelActive(c) ==
    /\ CanCall(c)
    /\ CancelNow(FALSE)
    /\ Calling(c, "cancel_active", AfterCancelNow, active)
    /\ UNCHANGED <<closed, status, sequence, seqno, active, hasWorker, ready, closer>>

CancelAll(c) ==
    /\ CanCall(c)
    /\ CancelNow(TRUE)
    /\ Calling(c, "cancel_all", AfterCancelNow, active)
    /\ UNCHANGED <<closed, status, sequence, seqno, active, hasWorker, ready, closer>>

(* cancel_turn(turn_id).  For an active turn whose task is already done    *)
(* "await task" does not suspend: it re-raises the task's exception or     *)
(* goes on to wait for the handle.                                         *)
Cancellable(t) == t \in known /\ turnStatus[t] \notin Terminal

CancelTurnUnknown(c, t) ==
    /\ CanCall(c)
    /\ t \in Accepted
    /\ ~Cancellable(t)
    /\ Calling(c, "cancel_turn", "returned", t)
    /\ UNCHANGED <<closed, status, TurnVars, active, task, hasWorker, ready, closer>>

CancelTurnActive(c, t) ==
    /\ CanCall(c)
    /\ Cancellable(t)
    /\ active = t
    /\ task' = CancelTask(t)
    /\ Calling(c, "cancel_turn",
               CASE task[t] \in TaskLive -> "await_task"
                 [] task[t] = "raised"   -> "raised"
                 [] OTHER                -> "await_done",
               t)
    /\ UNCHANGED <<closed, status, TurnVars, active, hasWorker, ready, closer>>

CancelTurnQueued(c, t) ==
    /\ CanCall(c)
    /\ Cancellable(t)
    /\ active # t
    /\ queue' = queue \ {t}
    /\ turnStatus' = [turnStatus EXCEPT ![t] = "cancelled"]
    /\ RecordTerminal(<<t>>)
    /\ Calling(c, "cancel_turn", "returned", t)
    /\ UNCHANGED <<closed, status, sequence, seqno, active, task, hasWorker, ready, closer>>

(* clear_queue() *)
ClearQueue ==
    /\ queue # {}
    /\ CancelQueued
    /\ UNCHANGED <<closed, status, sequence, seqno, active, task, hasWorker,
                   ready, closer, call>>

(* close() *)
CloseBegin(c) ==
    /\ CanCall(c)
    /\ Calling(c, "close", "close_lock", NoTurn)
    /\ UNCHANGED <<closed, status, TurnVars, active, task, hasWorker, ready, closer>>

(* What close does from the point where it has the worker to wait for. *)
CloseAfterCancel(c) ==
    IF hasWorker
    THEN MoveTo(c, "await_worker") /\ UNCHANGED <<status, closer>>
    ELSE MoveTo(c, "returned") /\ status' = "closed" /\ closer' = {}

(* close takes _close_lock: a second close returns at once, a first one    *)
(* stops further submits and cancels everything.                           *)
CloseAgain(c) ==
    /\ call[c].at = "close_lock"
    /\ closer = {}
    /\ status = "closed"
    /\ MoveTo(c, "returned")
    /\ UNCHANGED <<closed, status, TurnVars, active, task, hasWorker, ready, closer>>

CloseFirst(c) ==
    /\ call[c].at = "close_lock"
    /\ closer = {}
    /\ status # "closed"
    /\ closed' = TRUE
    /\ CancelNow(TRUE)
    /\ IF ActiveIsLive
       THEN /\ Calling(c, "close", "await_task", active)
            /\ closer' = {c}
            /\ UNCHANGED status
       ELSE /\ closer' = IF hasWorker THEN {c} ELSE {}
            /\ status' = IF hasWorker THEN status ELSE "closed"
            /\ MoveTo(c, IF hasWorker THEN "await_worker" ELSE "returned")
    /\ UNCHANGED <<sequence, seqno, active, hasWorker, ready>>

(* Mutant: a lock that an exception does not release. *)
KeepCloseLock(c) == UNCHANGED closer

(* A close leaves its locked block by an exception. *)
ReleaseCloseLock(c) == closer' = closer \ {c}

(* A caller resumes from "await task".  CancelledError is suppressed, any  *)
(* other exception of the processor leaves the caller's method.            *)
AwaitTaskRaised(c) ==
    /\ call[c].at = "await_task"
    /\ task[call[c].turn] = "raised"
    /\ MoveTo(c, "raised")
    /\ ReleaseCloseLock(c)
    /\ UNCHANGED <<closed, status, TurnVars, active, task, hasWorker, ready>>

(* The rest of _cancel, cancel_turn or close once the handle is done. *)
AfterHandleDone(c) ==
    IF call[c].op = "close"
    THEN CloseAfterCancel(c)
    ELSE MoveTo(c, "returned") /\ UNCHANGED <<status, closer>>

AwaitTaskEnded(c) ==
    /\ call[c].at = "await_task"
    /\ task[call[c].turn] \in {"returned", "interrupted"}
    /\ IF turnStatus[call[c].turn] \in Terminal
       THEN AfterHandleDone(c)
       ELSE MoveTo(c, "await_done") /\ UNCHANGED <<status, closer>>
    /\ UNCHANGED <<closed, TurnVars, active, task, hasWorker, ready>>

(* A caller resumes from "await asyncio.shield(handle._completion)". *)
AwaitDoneEnded(c) ==
    /\ call[c].at = "await_done"
    /\ turnStatus[call[c].turn] \in Terminal
    /\ AfterHandleDone(c)
    /\ UNCHANGED <<closed, TurnVars, active, task, hasWorker, ready>>

(* close resumes from "await worker". *)
AwaitWorkerEnded(c) ==
    /\ call[c].at = "await_worker"
    /\ ~hasWorker
    /\ CloseAfterCancel(c)
    /\ UNCHANGED <<closed, TurnVars, active, task, hasWorker, ready>>

(* The task of a caller is itself cancelled (a dropped request, a          *)
(* timeout).  In "await task" this only repeats the cancellation and is    *)
(* suppressed.  In a shielded wait, or waiting for _close_lock, it leaves  *)
(* the method.                                                             *)
CallerCancelled(c) ==
    /\ call[c].at \in {"await_done", "close_lock"}
    /\ MoveTo(c, "raised")
    /\ ReleaseCloseLock(c)
    /\ UNCHANGED <<closed, status, TurnVars, active, task, hasWorker, ready>>

(* In "await worker" the cancellation goes to the worker.  One that has    *)
(* not started never will; one that is about to see the end of a turn gets *)
(* a CancelledError instead, whatever the turn returned.                   *)
CloserCancelled(c) ==
    /\ call[c].at = "await_worker"
    /\ \/ /\ ready > 0
          /\ ready' = ready - 1
          /\ hasWorker' = FALSE
          /\ UNCHANGED task
       \/ /\ active # NoTurn
          /\ task' = [task EXCEPT ![active] = "interrupted"]
          /\ UNCHANGED <<ready, hasWorker>>
    /\ UNCHANGED <<closed, status, TurnVars, active, closer, call>>

-----------------------------------------------------------------------------
Worker == WorkerStart \/ \E t \in Turns : WorkerResume(t)

CallerResumes(c) ==
    \/ CloseAgain(c) \/ CloseFirst(c)
    \/ AwaitTaskRaised(c) \/ AwaitTaskEnded(c)
    \/ AwaitDoneEnded(c) \/ AwaitWorkerEnded(c)

CallerCalls(c) ==
    \/ CancelActive(c) \/ CancelAll(c) \/ CloseBegin(c)
    \/ \E t \in Turns :
          \/ CancelTurnUnknown(c, t)
          \/ CancelTurnActive(c, t)
          \/ CancelTurnQueued(c, t)

Next ==
    \/ \E t \in Turns : Submit(t) \/ ProcessorEnd(t)
    \/ Worker
    \/ ClearQueue
    \/ \E c \in Callers :
          CallerCalls(c) \/ CallerResumes(c) \/ CallerCancelled(c) \/ CloserCancelled(c)

Spec == Init /\ [][Next]_vars

(* The event loop runs every task that can run.  Nothing makes a processor *)
(* end by itself, but one that was cancelled ends.                         *)
CancelledProcessorEnds(t) == task[t] = "cancelling" /\ ProcessorEnd(t)

Fairness ==
    /\ WF_vars(Worker)
    /\ \A t \in Turns : WF_vars(CancelledProcessorEnds(t))
    /\ \A c \in Callers : WF_vars(CallerResumes(c))

FairSpec == Spec /\ Fairness

(* With a turn deadline (turn_service.process_message), or a model and     *)
(* tools that answer, every processor ends.                                *)
Deadlines == \A t \in Turns : WF_vars(ProcessorEnd(t))

-----------------------------------------------------------------------------
(* Properties *)

(* Every variable has its type. *)
TypeOK ==
    /\ closed \in BOOLEAN
    /\ status \in Statuses
    /\ queue \subseteq Turns
    /\ sequence \in Nat
    /\ seqno \in [Turns -> Nat]
    /\ known \subseteq Turns
    /\ terminalIds \in Seq(Turns)
    /\ turnStatus \in [Turns -> TurnStatuses]
    /\ active \in Turns \cup {NoTurn}
    /\ task \in [Turns -> {"none"} \cup TaskLive \cup TaskDone]
    /\ hasWorker \in BOOLEAN
    /\ ready \in Nat
    /\ closer \subseteq Callers
    /\ call \in [Callers -> [op : Ops, at : Positions,
                             turn : Turns \cup {NoTurn}, before : SUBSET Turns]]

(* The inductive invariant, in parts: what the queue holds, *)
QueueInv ==
    /\ IsFiniteSet(queue)
    /\ queue = {t \in Turns : turnStatus[t] = "queued"}

(* which turn runs and whose task is alive, *)
ActiveInv ==
    \A t \in Turns :
       /\ turnStatus[t] = "running" <=> active = t
       /\ task[t] \in TaskLive => active = t
       /\ active = t => task[t] # "none"

(* that there is one worker exactly while there is work, *)
WorkerInv ==
    /\ ready \in {0, 1}
    /\ hasWorker <=> ready = 1 \/ active # NoTurn
    /\ ready = 1 => active = NoTurn
    /\ queue # {} => hasWorker

(* what a begun and a finished close leave, *)
CloseInv ==
    /\ closed => queue = {}
    /\ status = "closed" => closed /\ ~hasWorker
    /\ \A c \in Callers :
         /\ call[c].at \in {"close_lock", "await_worker"} => call[c].op = "close"
         /\ call[c].op = "close" /\ call[c].at \in {"await_task", "await_done", "await_worker"}
              => closed
         /\ call[c].op = "close" /\ call[c].at = "returned" => status = "closed"

(* what get_turn finds, *)
RetentionInv ==
    /\ known = Live \cup {terminalIds[i] : i \in DOMAIN terminalIds}
    /\ \A i \in DOMAIN terminalIds : turnStatus[terminalIds[i]] \in Terminal
    /\ Len(terminalIds) <= Retention
    /\ \A i, j \in DOMAIN terminalIds : terminalIds[i] = terminalIds[j] => i = j

(* and what each caller can rely on where it stands. *)
CallerInv(c) ==
    /\ call[c].at \in {"await_task", "await_done"} => call[c].turn \in Turns
    /\ call[c].at = "await_task" => task[call[c].turn] # "none"
    /\ call[c].at = "await_done" => task[call[c].turn] \in TaskDone
    /\ call[c].turn \in Turns => turnStatus[call[c].turn] \notin {"absent", "queued"}
    /\ call[c].op = "cancel_active" /\ call[c].at = "returned" /\ call[c].turn # NoTurn
         => task[call[c].turn] \in TaskDone
    /\ call[c].op = "cancel_turn" /\ call[c].at = "returned"
         => call[c].turn \in Turns /\ turnStatus[call[c].turn] \in Terminal
    /\ call[c].op = "cancel_all" => \A t \in call[c].before :
         /\ turnStatus[t] \notin {"absent", "queued"}
         /\ call[c].at = "await_task" => t = call[c].turn \/ task[t] \notin TaskLive
         /\ call[c].at \in {"await_done", "returned"} => task[t] \notin TaskLive

CallInv == \A c \in Callers : CallerInv(c)

IInv ==
    /\ TypeOK
    /\ QueueInv /\ ActiveInv /\ WorkerInv
    /\ CloseInv /\ RetentionInv /\ CallInv

(* "A runtime executes at most one turn at a time": two turn tasks are     *)
(* never alive together, whatever cancels, closes and submits interleave   *)
(* with the worker's exit.                                                 *)
OneTurnAtATime ==
    \A t, u \in Turns : task[t] \in TaskLive /\ task[u] \in TaskLive => t = u

(* An accepted turn that is not terminal is queued or the active one, and  *)
(* a queued turn always has a worker task that has yet to look at the      *)
(* queue again: no turn is left behind by a worker that exits.             *)
NoTurnStranded ==
    /\ \A t \in Live : t \in queue \/ t = active
    /\ queue # {} => ready > 0 \/ \E t \in Turns : turnStatus[t] = "running"

(* get_turn finds every live turn and exactly the last Retention terminal  *)
(* ones: no turn is recorded twice, and none is forgotten while it runs.   *)
RetentionIsExact ==
    /\ known = Live \cup {terminalIds[i] : i \in DOMAIN terminalIds}
    /\ Len(terminalIds) <= Retention
    /\ \A i, j \in DOMAIN terminalIds : terminalIds[i] = terminalIds[j] => i = j

(* "active cancellation is awaited before the operation returns": once     *)
(* cancel_active, cancel_all or cancel_turn returned, no code of a turn it *)
(* was responsible for can still run, not even a turn that swallowed the   *)
(* cancellation; after cancel_turn its handle is terminal as well.         *)
CancelQuiesces ==
    \A c \in Callers : call[c].at = "returned" =>
        /\ call[c].op = "cancel_active" /\ call[c].turn # NoTurn
              => task[call[c].turn] \in TaskDone
        /\ call[c].op = "cancel_all"
              => \A t \in call[c].before : t \notin queue /\ task[t] \notin TaskLive
        /\ call[c].op = "cancel_turn" => call[c].turn \notin Live

(* "Closing is permanent": a runtime whose status is CLOSED accepted its   *)
(* last turn, every turn is terminal and no worker or turn task is left.   *)
CloseIsComplete ==
    /\ \A c \in Callers :
          call[c].op = "close" /\ call[c].at = "returned" => status = "closed"
    /\ status = "closed" =>
          closed /\ Live = {} /\ ~hasWorker /\ ready = 0
          /\ \A t \in Turns : task[t] \notin TaskLive

(* All of these: what a session relies on when it submits, waits and       *)
(* closes (runtime.SessionRuntime).                                        *)
RuntimeIsSound ==
    TypeOK /\ OneTurnAtATime /\ NoTurnStranded /\ RetentionIsExact /\ CloseIsComplete

(* Nothing reopens a closed runtime, and no terminal turn changes again.   *)
NothingReopens ==
    [][/\ status = "closed" => status' = "closed"
       /\ closed => closed'
       /\ \A t \in Turns : turnStatus[t] \in Terminal
             => turnStatus'[t] = turnStatus[t]]_vars

(* What submitters are promised (TurnLifecycle): one turn at a time, in    *)
(* order of priority and arrival, each ending once, none after closing.    *)
Lifecycle == INSTANCE TurnLifecycle WITH open <- ~closed

ImplementsLifecycle == Lifecycle!Spec

(* Every cancel, cancel_turn and close call comes back, even when turns    *)
(* that nobody cancelled never end and other closes fail.                  *)
CallsReturn ==
    \A c \in Callers : call[c].at \in Waiting ~> call[c].at \notin Waiting

(* "Every accepted turn reaches a terminal state", if its processor ends.  *)
EveryTurnEnds ==
    Deadlines => \A t \in Turns : turnStatus[t] = "queued" ~> turnStatus[t] \in Terminal

=============================================================================
