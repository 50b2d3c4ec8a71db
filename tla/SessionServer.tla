---------------------------- MODULE SessionServer ----------------------------
(***************************************************************************)
(* The sessions of the HTTP and WebSocket server: SessionManager and       *)
(* ManagedSession (server/session_manager.py), the application session     *)
(* service they submit through (application_session.py), the lifecycle     *)
(* lock of the Agent (agent.py), and the request handlers that use them    *)
(* (server/routes/sessions.py, server/interaction.py, and handle_prompt    *)
(* and handle_cancel of server/websocket.py).                              *)
(*                                                                         *)
(* Everything runs on one event loop: an action is what a request handler, *)
(* or the worker of an agent, does between two suspensions.  A request     *)
(* performs one operation; the turn a prompt becomes bears its name.  An   *)
(* agent is one incarnation of a session id: a deleted id may come back    *)
(* with another agent.  Of the agent's runtime, which SessionRuntime       *)
(* describes in full, this module keeps the active turn, the queue (its    *)
(* order left open) and the status.                                        *)
(***************************************************************************)
EXTENDS Naturals, FiniteSets, TLC

CONSTANTS
    Ids,          \* session ids
    Requests,     \* requests to the server; each performs one operation
    MaxAgents,    \* bound: how many agents are ever created
    MaxSessions,  \* ServerConfig.max_sessions
    None          \* no agent, no request, no turn

ASSUME BoundsAssumption == MaxAgents \in Nat /\ MaxSessions \in Nat

ASSUME NoneAssumption == None \notin Requests /\ None \notin Nat /\ None \notin Ids

Agents == 1..MaxAgents

VARIABLES
    registry,    \* SessionManager._sessions: the agent behind each id
    manager,     \* the request that holds SessionManager._lock
    idOf,        \* the session id each created agent serves
    lifecycle,   \* the request that holds the agent's _lifecycle_lock
    closed,      \* the agents with _closed
    active,      \* the running turn of each agent
    queue,       \* the queued turns of each agent
    running,     \* SessionRuntime.status
    shown,       \* ManagedSession.status
    count,       \* SessionMetrics.message_count
    turn,        \* the status of the turn of each request
    turnOf,      \* the agent that accepted it
    stored,      \* the turns in the durable state of each id
    req          \* what each request is doing

agents == <<idOf, lifecycle, closed, active, queue, running, shown, count>>
turns  == <<turn, turnOf, stored>>
vars   == <<registry, manager, agents, turns, req>>

Terminal == {"completed", "cancelled", "failed"}

Created == {a \in Agents : idOf[a] # None}

Registered == {a \in Created : registry[idOf[a]] = a}

Busy(a) == active[a] # None \/ queue[a] # {}

(* send_prompt, send_prompt_stream and handle_prompt of the WebSocket      *)
(* submit; the other operations are the routes of the same name.           *)
PromptOps == {"prompt", "stream", "socket"}

LockOps == {"cancel", "force", "clear"}

Ops == PromptOps \cup LockOps \cup {"create", "list", "delete"}

Waiting == {"begin", "look", "decide", "respond", "emit", "submit", "lock",
            "settle", "queued", "turn"}

Answers == {"ok", "queued", "404", "409", "429", "500", "none", "aborted"}

Init ==
    /\ registry = [i \in Ids |-> None]
    /\ manager = None
    /\ idOf = [a \in Agents |-> None]
    /\ lifecycle = [a \in Agents |-> None]
    /\ closed = {}
    /\ active = [a \in Agents |-> None]
    /\ queue = [a \in Agents |-> {}]
    /\ running = [a \in Agents |-> "idle"]
    /\ shown = [a \in Agents |-> "idle"]
    /\ count = [a \in Agents |-> 0]
    /\ turn = [r \in Requests |-> "absent"]
    /\ turnOf = [r \in Requests |-> None]
    /\ stored = [i \in Ids |-> {}]
    /\ req = [r \in Requests |->
                [op |-> "none", id |-> None, agent |-> None, at |-> "idle",
                 reject |-> FALSE, saw |-> "none", waits |-> None]]

-----------------------------------------------------------------------------
(* Helpers *)

At(r, op, at) == req[r].op = op /\ req[r].at = at

Move(r, at) == req' = [req EXCEPT ![r].at = at]

Answer(r, a) == req' = [req EXCEPT ![r].at = a]

(* SessionManager.get_session for the id of r: on to "at" with the agent   *)
(* that serves the id now, else SessionNotFoundError.                      *)
Lookup(r, at) ==
    req' = [req EXCEPT ![r].agent = registry[req[r].id],
                       ![r].at = IF registry[req[r].id] = None THEN "404" ELSE at]

(* has_pending_work(excluding=handle) at the end of the active turn, and   *)
(* at the end of a queued one, when others are queued.                     *)
PendingBeside(a, others) == others # {}

(* _on_turn_event for a terminal event. *)
ShownAfter(pending, end) ==
    IF pending THEN "busy"
    ELSE CASE end = "completed" -> "idle"
           [] end = "cancelled" -> "cancelled"
           [] end = "failed"    -> "error"

RunningAfter(a, end) ==
    IF a \in closed THEN "closed"
    ELSE CASE end = "completed" -> "idle"
           [] end = "cancelled" -> "cancelled"
           [] end = "failed"    -> "error"

-----------------------------------------------------------------------------
(* The agent's worker *)

(* The worker starts a queued turn; its RUNNING event shows the session as *)
(* busy.                                                                   *)
TurnStart(a) ==
    \E t \in queue[a] :
       /\ active[a] = None
       /\ active' = [active EXCEPT ![a] = t]
       /\ queue' = [queue EXCEPT ![a] = @ \ {t}]
       /\ turn' = [turn EXCEPT ![t] = "running"]
       /\ running' = [running EXCEPT ![a] = "busy"]
       /\ shown' = [shown EXCEPT ![a] = "busy"]
       /\ UNCHANGED <<registry, manager, idOf, lifecycle, closed, count, turnOf,
                      stored, req>>

(* _project_completion *)
Counts(end) == IF end = "completed" THEN 1 ELSE 0

(* The active turn ends, of itself or because it was cancelled.  One that  *)
(* completes has committed its messages.  Its terminal event shows the     *)
(* session's status, its done callback counts it, and the worker goes on   *)
(* with the next turn without suspending, or stops.                        *)
TurnEnd(a) ==
    \E end \in Terminal, t \in Requests :
       /\ active[a] = t
       /\ count' = [count EXCEPT ![a] = @ + Counts(end)]
       /\ stored' = IF end = "completed"
                    THEN [stored EXCEPT ![idOf[a]] = @ \cup {t}] ELSE stored
       /\ \/ /\ queue[a] = {}
             /\ active' = [active EXCEPT ![a] = None]
             /\ turn' = [turn EXCEPT ![t] = end]
             /\ shown' = [shown EXCEPT ![a] =
                            ShownAfter(PendingBeside(a, queue[a]), end)]
             /\ running' = [running EXCEPT ![a] = RunningAfter(a, end)]
             /\ UNCHANGED queue
          \/ \E n \in queue[a] :
               /\ active' = [active EXCEPT ![a] = n]
               /\ queue' = [queue EXCEPT ![a] = @ \ {n}]
               /\ turn' = [turn EXCEPT ![t] = end, ![n] = "running"]
               /\ shown' = [shown EXCEPT ![a] = "busy"]
               /\ running' = [running EXCEPT ![a] = "busy"]
       /\ UNCHANGED <<registry, manager, idOf, lifecycle, closed, turnOf, req>>

-----------------------------------------------------------------------------
(* Requests arrive *)

(* The slash commands route_interaction knows, by the route they lead to;  *)
(* the others only answer with a text and end like "list".                 *)
Routed(op) == IF op \in PromptOps THEN {op, "create", "cancel", "clear", "list"}
                                  ELSE {op}

(* Bound: MaxAgents of the requests may create a session. *)
Creates == Cardinality({r \in Requests : req[r].op = "create"})

(* A request for session i.  A prompt may turn out to be a slash command   *)
(* that is handled as another operation; the session is looked up first in *)
(* either case.                                                            *)
Arrive(r) ==
    \E op \in Ops, i \in Ids, rej \in BOOLEAN :
       /\ req[r].op = "none"
       /\ rej => op \in {"prompt", "stream"}
       /\ \E o \in Routed(op) :
            /\ o = "create" => Creates < MaxAgents
            /\ req' = [req EXCEPT
                      ![r].op = o, ![r].id = i, ![r].agent = registry[i],
                      ![r].reject = rej,
                      ![r].at = IF op \in PromptOps /\ registry[i] = None
                                THEN "404"
                                ELSE IF o \in {"prompt", "stream"}
                                     THEN "decide" ELSE "begin"]
       /\ UNCHANGED <<registry, manager, agents, turns>>

(* create_session.  Nothing is awaited while the manager's lock is held.   *)
(* A session id that is not given is generated and new.                    *)
CreateSession(r) ==
    /\ At(r, "create", "begin")
    /\ manager = None
    /\ LET i == req[r].id IN
       \/ /\ registry[i] # None
          /\ Answer(r, "409")
          /\ UNCHANGED <<registry, idOf>>
       \/ /\ registry[i] = None
          /\ Cardinality(Registered) >= MaxSessions
          /\ Answer(r, "429")
          /\ UNCHANGED <<registry, idOf>>
       \/ /\ registry[i] = None
          /\ Cardinality(Registered) < MaxSessions
          /\ \E a \in Agents \ Created :
               /\ \A b \in Agents \ Created : a <= b
               /\ registry' = [registry EXCEPT ![i] = a]
               /\ idOf' = [idOf EXCEPT ![a] = i]
          /\ Answer(r, "ok")
    /\ UNCHANGED <<manager, lifecycle, closed, active, queue, running, shown,
                   count, turns>>

(* list_sessions and get_session: to_session takes the status over from    *)
(* the runtime.                                                            *)
ListSessions(r) ==
    /\ At(r, "list", "begin")
    /\ shown' = [a \in Agents |-> IF a \in Registered THEN running[a] ELSE shown[a]]
    /\ Answer(r, "ok")
    /\ UNCHANGED <<registry, manager, idOf, lifecycle, closed, active, queue,
                   running, count, turns>>

-----------------------------------------------------------------------------
(* Prompts *)

(* The handler has told the other clients of the prompt, which takes a     *)
(* while, and now asks whether the session is busy.                        *)
Decide(r) ==
    /\ req[r].at = "decide"
    /\ LET a     == req[r].agent
           busy  == shown[a] = "busy" \/ Busy(a)
           saw   == IF busy THEN "busy" ELSE "free"
       IN  req' = [req EXCEPT
                     ![r].saw = saw,
                     ![r].at = IF busy /\ req[r].reject THEN "409"
                               ELSE IF req[r].op = "stream" THEN "respond"
                               ELSE IF busy THEN "submit" ELSE "emit"]
    /\ UNCHANGED <<registry, manager, agents, turns>>

(* Before the response's generator runs, and while the other clients learn *)
(* that the prompt starts, other tasks run.  A client that goes away in    *)
(* the middle of that message takes the request with it: its writer        *)
(* cancels the future the sender waits for.                                *)
Announced(r) ==
    /\ req[r].at \in {"respond", "emit"}
    /\ Move(r, "submit")
    /\ UNCHANGED <<registry, manager, agents, turns>>

Aborted(r) ==
    /\ req[r].at \in {"decide", "emit"}
    /\ Answer(r, "aborted")
    /\ UNCHANGED <<registry, manager, agents, turns>>

(* submit_prompt: the session is looked up again, and its lifecycle lock   *)
(* awaited.                                                                *)
SubmitPrompt(r) ==
    /\ req[r].op \in PromptOps
    /\ req[r].at = IF req[r].op = "socket" THEN "begin" ELSE "submit"
    /\ Lookup(r, "lock")
    /\ UNCHANGED <<registry, manager, agents, turns>>

(* Mutant: no look at _closed. *)
OpenAlways(a) == TRUE

Open(a) == a \notin closed

(* _submit_turn with the lock, and what submit does with the handle.  A    *)
(* closed agent raises RuntimeClosedError: a 500, an error frame, and from *)
(* handle_prompt of the WebSocket, which takes any RuntimeError for a lost *)
(* connection, nothing.                                                    *)
SubmitTurn(r) ==
    /\ req[r].op \in PromptOps
    /\ req[r].at = "lock"
    /\ LET a == req[r].agent IN
       /\ lifecycle[a] = None
       /\ \/ /\ Open(a)
             /\ queue' = [queue EXCEPT ![a] = @ \cup {r}]
             /\ turn' = [turn EXCEPT ![r] = "queued"]
             /\ turnOf' = [turnOf EXCEPT ![r] = a]
             /\ Move(r, IF req[r].op = "prompt" /\ req[r].saw = "busy"
                        THEN "queued" ELSE "turn")
          \/ /\ ~Open(a)
             /\ Answer(r, IF req[r].op = "socket" THEN "none" ELSE "500")
             /\ UNCHANGED <<queue, turn, turnOf>>
    /\ UNCHANGED <<registry, manager, idOf, lifecycle, closed, active, running,
                   shown, count, stored>>

(* handle.wait() or the relay of the turn's frames. *)
TurnAnswered(r) ==
    /\ req[r].at = "turn"
    /\ turn[r] \in Terminal
    /\ Answer(r, IF turn[r] = "completed" \/ req[r].op # "prompt" THEN "ok" ELSE "500")
    /\ UNCHANGED <<registry, manager, agents, turns>>

-----------------------------------------------------------------------------
(* cancel, clear and delete *)

(* The lookup of cancel_session and of clear_session_history. *)
LockRequest(r) ==
    /\ req[r].op \in LockOps
    /\ req[r].at = "begin"
    /\ Lookup(r, "lock")
    /\ UNCHANGED <<registry, manager, agents, turns>>

(* The queued turns of a are cancelled one after the other; the last event *)
(* is the one that shows.                                                  *)
CancelQueued(a) ==
    /\ queue' = [queue EXCEPT ![a] = {}]
    /\ turn' = [t \in Requests |-> IF t \in queue[a] THEN "cancelled" ELSE turn[t]]
    /\ shown' = IF queue[a] = {} THEN shown
                ELSE [shown EXCEPT ![a] =
                        IF active[a] # None THEN "busy" ELSE "cancelled"]

(* With the lifecycle lock: ask the active turn to stop, empty the queue   *)
(* unless only the active turn is meant, and wait for that turn, then for  *)
(* the memory reviews and delegated tasks of the session.                  *)
TakeLock(r, a) ==
    /\ lifecycle[a] = None
    /\ lifecycle' = [lifecycle EXCEPT ![a] = r]
    /\ req' = [req EXCEPT ![r].at = "settle", ![r].waits = active[a]]

CancelLocked(r) ==
    /\ At(r, "cancel", "lock") \/ At(r, "force", "lock")
    /\ TakeLock(r, req[r].agent)
    /\ IF req[r].op = "force" THEN CancelQueued(req[r].agent)
                              ELSE UNCHANGED <<queue, turn, shown>>
    /\ UNCHANGED <<registry, manager, idOf, closed, active, running, count,
                   turnOf, stored>>

ClearLocked(r) ==
    /\ At(r, "clear", "lock")
    /\ LET a == req[r].agent IN
       \/ /\ Open(a)
          /\ TakeLock(r, a)
          /\ CancelQueued(a)
       \/ /\ ~Open(a) /\ lifecycle[a] = None
          /\ Answer(r, "500")
          /\ UNCHANGED <<queue, turn, shown, lifecycle>>
    /\ UNCHANGED <<registry, manager, idOf, closed, active, running, count,
                   turnOf, stored>>

DeleteBegin(r) ==
    /\ At(r, "delete", "begin")
    /\ manager = None
    /\ LET i == req[r].id IN
       /\ Lookup(r, "lock")
       /\ manager' = IF registry[i] = None THEN None ELSE r
       /\ registry' = [registry EXCEPT ![i] = None]
    /\ UNCHANGED <<agents, turns>>

(* Agent.close *)
DeleteLocked(r) ==
    /\ At(r, "delete", "lock")
    /\ TakeLock(r, req[r].agent)
    /\ closed' = closed \cup {req[r].agent}
    /\ CancelQueued(req[r].agent)
    /\ UNCHANGED <<registry, manager, idOf, active, running, count, turnOf, stored>>

(* The turn the request waits for has ended. *)
Settled(r) == req[r].waits # None => turn[req[r].waits] \in Terminal

(* A turn that ended with an exception of its own hands it on to the       *)
(* request that cancelled it, which stops where it is.                     *)
Raises(r) == req[r].waits # None /\ turn[req[r].waits] = "failed"

(* Mutant: a lock that an exception leaves taken. *)
ReleaseUnlessRaised(r) ==
    lifecycle' = [lifecycle EXCEPT ![req[r].agent] = IF Raises(r) THEN @ ELSE None]

Release(r) == lifecycle' = [lifecycle EXCEPT ![req[r].agent] = None]

(* cancel_session shows the session as cancelled once the turn it          *)
(* cancelled is over, whatever runs by then.                               *)
CancelSettled(r) ==
    /\ req[r].op \in {"cancel", "force"} /\ req[r].at = "settle"
    /\ Settled(r)
    /\ Release(r)
    /\ IF Raises(r) THEN Answer(r, "500") /\ UNCHANGED shown
       ELSE /\ shown' = [shown EXCEPT ![req[r].agent] = "cancelled"]
            /\ Answer(r, "ok")
    /\ UNCHANGED <<registry, manager, idOf, closed, active, queue, running,
                   count, turns>>

(* reset_session writes the empty state. *)
ClearSettled(r) ==
    /\ At(r, "clear", "settle")
    /\ Settled(r)
    /\ Release(r)
    /\ IF Raises(r) THEN Answer(r, "500") /\ UNCHANGED stored
       ELSE /\ stored' = [stored EXCEPT ![req[r].id] = {}]
            /\ Answer(r, "ok")
    /\ UNCHANGED <<registry, manager, idOf, closed, active, queue, running,
                   shown, count, turn, turnOf>>

(* delete_session with the agent closed: the durable state goes too,       *)
(* unless the close raised.                                                *)
DeleteSettled(r) ==
    /\ At(r, "delete", "settle")
    /\ Settled(r)
    /\ Release(r)
    /\ manager' = None
    /\ IF Raises(r) THEN Answer(r, "500") /\ UNCHANGED stored
       ELSE /\ stored' = [stored EXCEPT ![req[r].id] = {}]
            /\ Answer(r, "ok")
    /\ UNCHANGED <<registry, idOf, closed, active, queue, running, shown, count,
                   turn, turnOf>>

-----------------------------------------------------------------------------
Step(r) ==
    \/ CreateSession(r)
    \/ ListSessions(r)
    \/ Decide(r)
    \/ Announced(r)
    \/ SubmitPrompt(r)
    \/ SubmitTurn(r)
    \/ TurnAnswered(r)
    \/ LockRequest(r)
    \/ CancelLocked(r)
    \/ ClearLocked(r)
    \/ DeleteBegin(r)
    \/ DeleteLocked(r)
    \/ CancelSettled(r)
    \/ ClearSettled(r)
    \/ DeleteSettled(r)

Progress ==
    \/ \E r \in Requests : Step(r)
    \/ \E a \in Agents : TurnStart(a) \/ TurnEnd(a)

Next == Progress \/ \E r \in Requests : Arrive(r) \/ Aborted(r)

Spec == Init /\ [][Next]_vars

-----------------------------------------------------------------------------
(* Properties *)

TypeOK ==
    /\ registry \in [Ids -> Agents \cup {None}]
    /\ manager \in Requests \cup {None}
    /\ idOf \in [Agents -> Ids \cup {None}]
    /\ lifecycle \in [Agents -> Requests \cup {None}]
    /\ closed \subseteq Agents
    /\ active \in [Agents -> Requests \cup {None}]
    /\ queue \in [Agents -> SUBSET Requests]
    /\ running \in [Agents -> {"idle", "busy", "cancelled", "error", "closed"}]
    /\ shown \in [Agents -> {"idle", "busy", "cancelled", "error"}]
    /\ count \in [Agents -> Nat]
    /\ turn \in [Requests -> {"absent", "queued", "running"} \cup Terminal]
    /\ turnOf \in [Requests -> Agents \cup {None}]
    /\ stored \in [Ids -> SUBSET Requests]

(* A session that shows as busy is busy: the status that makes the prompt  *)
(* routes refuse or queue never outlives the work (_on_turn_event,         *)
(* update_status, to_session), and message_count is the number of turns    *)
(* the session completed (_project_completion).                            *)
ProjectionIsExact ==
    \A a \in Created :
       /\ shown[a] = "busy" => Busy(a)
       /\ count[a] = Cardinality({r \in Requests :
                                    turnOf[r] = a /\ turn[r] = "completed"})

(* The delete of an agent that is being closed. *)
Deleting(a) == \E r \in Requests : /\ req[r].op = "delete" /\ req[r].agent = a
                                   /\ req[r].at \in {"lock", "settle"}

CloseRaised(a) == \E r \in Requests : At(r, "delete", "500") /\ req[r].agent = a

(* No turn runs, or waits to run, on an agent nobody can reach any more,   *)
(* and the durable state of an id holds no turn of an earlier session      *)
(* under that id, unless the close of that session raised: what a deleted  *)
(* session said never comes back in a new one (delete_session, _closed).   *)
DeletedIsGone ==
    /\ \A a \in Created : Busy(a) => a \in Registered \/ Deleting(a)
    /\ \A i \in Ids : \A t \in stored[i] :
          \/ turnOf[t] \in Registered
          \/ Deleting(turnOf[t])
          \/ CloseRaised(turnOf[t])

(* While a request is unanswered, somebody can go on: the manager's lock,   *)
(* the lifecycle locks and the turns a cancel or a delete waits for never  *)
(* all wait for each other.  Requests and turns are finitely many and each *)
(* step takes one further, so that every request is answered in the end.   *)
NobodyStuck ==
    (\E r \in Requests : req[r].op # "none" /\ req[r].at \notin Answers)
       => ENABLED Progress

(* The invariants of the sessions together. *)
SessionsAreSound == TypeOK /\ ProjectionIsExact /\ DeletedIsGone

(* For TLC: which request is which, and which id, makes no difference to   *)
(* the invariants.                                                         *)
Sym == Permutations(Requests) \cup Permutations(Ids)

=============================================================================
