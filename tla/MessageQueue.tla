---------------------------- MODULE MessageQueue -----------------------------
(***************************************************************************)
(* The message queue that importers may still use (message_queue.py): a    *)
(* prompt for a session that is busy is queued by priority, and whoever    *)
(* made the session busy processes the queue when it is done with its own. *)
(*                                                                         *)
(* The locks are never held across an await, so that a caller of           *)
(* run_with_queue goes without a break from one processor to the next.     *)
(***************************************************************************)
EXTENDS Integers, SequencesExt, FiniteSetsExt, Functions

CONSTANTS
    Callers,         \* each has one prompt
    SessionOf,       \* and the session it is for
    Priorities,      \* MessagePriority
    MaxClears        \* bound: calls of clear_queue

ASSUME QueueAssumption == Priorities \subseteq Nat /\ MaxClears \in Nat

Sessions == Range(SessionOf)

VARIABLES
    queued,          \* the queue of a session: [prompt, priority]
    busySessions,    \* _busy_sessions
    running,         \* what a caller is processing, or where it is
    outcome,         \* what became of a prompt
    came,            \* history: the prompts of a session in their order
    failed,          \* history: sessions whose queue a failure left behind
    clears           \* how often a queue may still be cleared

queueVars == <<queued, busySessions, running, outcome, came, failed, clears>>
-----------------------------------------------------------------------------
QueueInit ==
    /\ queued = [s \in Sessions |-> << >>] /\ busySessions = {}
    /\ running = [c \in Callers |-> "outside"]
    /\ outcome = [c \in Callers |-> {}]
    /\ came = [s \in Sessions |-> << >>] /\ failed = {} /\ clears = MaxClears

(* SessionQueue.enqueue: before the first of a lower priority. *)
Enqueued(queue, prompt, priority) ==
    LET lower == {i \in DOMAIN queue : queue[i].priority < priority}
        at    == IF lower = {} THEN Len(queue) + 1 ELSE Min(lower)
    IN  InsertAt(queue, at, [prompt |-> prompt, priority |-> priority])

Enqueue(s, prompt, priority) ==
    /\ queued' = [queued EXCEPT ![s] = Enqueued(@, prompt, priority)]
    /\ outcome' = [outcome EXCEPT ![prompt] = @ \union {"queued"}]

(* enqueue_if_busy, and acquire, which then succeeds. *)
RunWithQueue(c, priority) ==
    LET s == SessionOf[c]
    IN  /\ running[c] = "outside" /\ outcome[c] = {}
        /\ came' = [came EXCEPT ![s] = Append(@, [prompt |-> c, priority |-> priority])]
        /\ IF s \in busySessions
           THEN Enqueue(s, c, priority) /\ UNCHANGED <<busySessions, running>>
           ELSE /\ busySessions' = busySessions \union {s}
                /\ running' = [running EXCEPT ![c] = c]
                /\ UNCHANGED <<queued, outcome>>
        /\ UNCHANGED <<failed, clears>>

(* The processor is done with a prompt; the caller takes the next one, or  *)
(* returns the result of its own and releases the session.                 *)
Processed(c) ==
    LET s == SessionOf[c]
    IN  /\ running[c] \in Callers
        /\ outcome' = [outcome EXCEPT ![running[c]] = @ \union {"processed"}]
        /\ IF queued[s] # << >>
           THEN /\ running' = [running EXCEPT ![c] = Head(queued[s]).prompt]
                /\ queued' = [queued EXCEPT ![s] = Tail(@)]
                /\ UNCHANGED <<busySessions, failed>>
           ELSE /\ running' = [running EXCEPT ![c] = "returned"]
                /\ busySessions' = busySessions \ {s} /\ failed' = failed \ {s}
                /\ UNCHANGED queued
        /\ UNCHANGED <<came, clears>>

(* The processor raises, or the caller is cancelled: the session is        *)
(* released, and what is queued stays until the next prompt.               *)
ProcessorFails(c) ==
    LET s == SessionOf[c]
    IN  /\ running[c] \in Callers
        /\ outcome' = [outcome EXCEPT ![running[c]] = @ \union {"failed"}]
        /\ running' = [running EXCEPT ![c] = "raised"]
        /\ busySessions' = busySessions \ {s}
        /\ failed' = IF queued[s] = << >> THEN failed ELSE failed \union {s}
        /\ UNCHANGED <<queued, came, clears>>

ClearQueue(s) ==
    /\ clears > 0 /\ queued[s] # << >>
    /\ clears' = clears - 1
    /\ queued' = [queued EXCEPT ![s] = << >>]
    /\ failed' = failed \ {s}
    /\ outcome' = [c \in Callers |-> IF c \in {m.prompt : m \in Range(queued[s])}
                                     THEN outcome[c] \union {"cleared"} ELSE outcome[c]]
    /\ UNCHANGED <<busySessions, running, came>>

QueueNext ==
    \/ \E c \in Callers, priority \in Priorities : RunWithQueue(c, priority)
    \/ \E c \in Callers : Processed(c) \/ ProcessorFails(c)
    \/ \E s \in Sessions : ClearQueue(s)
-----------------------------------------------------------------------------
InQueue(c) == c \in {m.prompt : m \in Range(queued[SessionOf[c]])}

Work(c) == {d \in Callers : running[d] = c}

(* A prompt is in one place: it waits, one caller processes it, or one     *)
(* thing became of it; and a session has one prompt processed at a time.   *)
PromptsAreKept ==
    /\ \A c \in Callers :
          Cardinality(Work(c)) + (IF InQueue(c) THEN 1 ELSE 0) + Cardinality(outcome[c] \ {"queued"})
             = (IF c \in {m.prompt : m \in Range(came[SessionOf[c]])} THEN 1 ELSE 0)
    /\ \A s \in Sessions :
          Cardinality({c \in Callers : SessionOf[c] = s /\ running[c] \in Callers})
             = (IF s \in busySessions THEN 1 ELSE 0)

(* Of two prompts that wait the one of the higher priority is first, and   *)
(* of the same priority the one that came first (SessionQueue.enqueue).    *)
ByPriority ==
    \A s \in Sessions : \A i, j \in DOMAIN queued[s] : i < j =>
        LET m == queued[s][i]  n == queued[s][j]
        IN  m.priority > n.priority \/ (m.priority = n.priority /\
               \A k, l \in DOMAIN came[s] : came[s][k].prompt = m.prompt /\ came[s][l].prompt = n.prompt => k < l)

(* What waits has somebody who will process it, unless a processor failed  *)
(* (run_with_queue).                                                       *)
NoneForgotten == \A s \in Sessions : queued[s] # << >> => s \in busySessions \union failed

(* The legacy queue loses no prompt and keeps their order.                  *)
QueueIsInOrder == PromptsAreKept /\ ByPriority /\ NoneForgotten
=============================================================================
