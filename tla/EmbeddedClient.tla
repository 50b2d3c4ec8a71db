---------------------------- MODULE EmbeddedClient ----------------------------
(***************************************************************************)
(* The client that runs agents in its own process (client/embedded.py).    *)
(* Its table of sessions is a dict that close() walks while it waits for   *)
(* one agent after the other, and that others may change meanwhile.  A     *)
(* place of the dict stays empty when its session is deleted, until an     *)
(* insertion finds no room: then the dict is packed, and whoever walks it  *)
(* is at the same place among other sessions.                              *)
(***************************************************************************)
EXTENDS Naturals, Sequences, FiniteSets, SequencesExt

CONSTANTS
    Users,        \* tasks that use the client
    SessionIds,   \* ids they ask for
    MaxAgents,    \* bound: agents ever made
    MaxOps,       \* bound: operations altogether
    MinRoom,      \* places of the smallest dict (CPython: 5)
    Void          \* no id, no agent, an empty place

ASSUME EmbeddedAssumption ==
    /\ {MaxAgents, MaxOps, MinRoom} \subseteq Nat /\ MaxAgents <= 2 * MinRoom
    /\ Void \notin SessionIds

VARIABLES
    table,        \* _sessions: [id, agent] or Void, in order of insertion
    room,         \* the places that the dict has
    closingIds,   \* _closing_sessions
    agents,       \* what became of the agents
    user,         \* what every task is doing
    connected,    \* _connected
    ops,          \* how many operations there were
    dropped,      \* history: agents taken from the table though not closed
    interrupted,  \* history: agents whose deletion was cancelled
    passed        \* history: agents that were packed behind a walk's place

embeddedVars == <<table, room, closingIds, agents, user, connected, ops, dropped, interrupted, passed>>

Resting == [pc |-> "rest", id |-> Void, agent |-> 0, place |-> 0, size |-> 0, left |-> 0, got |-> "nothing"]

EmbeddedInit ==
    /\ table = << >> /\ room = MinRoom /\ closingIds = {} /\ agents = << >>
    /\ user = [u \in Users |-> Resting]
    /\ connected = FALSE /\ ops = 0 /\ dropped = {} /\ interrupted = {} /\ passed = {}

Taken == SelectSeq(table, LAMBDA e : e # Void)

Known == {e.id : e \in ToSet(Taken)}

AgentOf(id) == (CHOOSE e \in ToSet(Taken) : e.id = id).agent

TableWithout(id) == [i \in DOMAIN table |-> IF table[i] # Void /\ table[i].id = id THEN Void ELSE table[i]]

(* A dict that is full is made again: without its empty places, and larger *)
(* when more than half of it is in use.                                    *)
IsFull == Len(table) = room

Grown == IF 2 * Len(Taken) <= MinRoom THEN MinRoom ELSE 2 * MinRoom

IsAt(u, pc) == user[u].pc = pc

Starts(u) == IsAt(u, "rest") /\ ops < MaxOps /\ ops' = ops + 1

Got(u, what) == user' = [user EXCEPT ![u] = [Resting EXCEPT !.got = what]]

(* What stands at a place that somebody who walks has passed, and did not  *)
(* before.                                                                 *)
Overtaken(next) ==
    {next[i].agent : i \in {j \in DOMAIN next :
        \E u \in Users : /\ IsAt(u, "close") /\ j <= user[u].place
                         /\ next[j] # Void
                         /\ next[j] \notin {table[k] : k \in DOMAIN table \cap 1..user[u].place}}}

Insert(id) ==
    /\ table' = Append(IF IsFull THEN Taken ELSE table, [id |-> id, agent |-> Len(agents) + 1])
    /\ room' = IF IsFull THEN Grown ELSE room
    /\ passed' = passed \cup Overtaken(table')

-----------------------------------------------------------------------------
(* Sessions *)

Connect ==
    /\ ~connected /\ connected' = TRUE
    /\ UNCHANGED <<table, room, closingIds, agents, user, ops, dropped, interrupted, passed>>

(* An id that is being closed is not free yet.                             *)
IsFree(id) == id \notin Known \cup closingIds

CreateSession(u, id) ==
    /\ Starts(u)
    /\ \/ /\ ~IsFree(id) /\ Got(u, "exists")
          /\ UNCHANGED <<table, room, agents, passed>>
       \/ /\ IsFree(id) /\ Len(agents) < MaxAgents
          /\ agents' = Append(agents, [id |-> id, life |-> "open", busy |-> FALSE])
          /\ Insert(id)
          /\ Got(u, "made")
    /\ UNCHANGED <<closingIds, connected, dropped, interrupted>>

(* Mutant: the session leaves the table before its agent has closed. *)
PoppedFirst(id) == TableWithout(id)

WhileClosing(id) == table

DeleteSession(u, id) ==
    /\ Starts(u)
    /\ \/ id \notin Known /\ Got(u, "not found") /\ UNCHANGED <<table, closingIds, agents>>
       \/ id \in Known \cap closingIds /\ Got(u, "closing") /\ UNCHANGED <<table, closingIds, agents>>
       \/ /\ id \in Known \ closingIds
          /\ closingIds' = closingIds \cup {id}
          /\ user' = [user EXCEPT ![u] = [Resting EXCEPT !.pc = "delete", !.id = id, !.agent = AgentOf(id)]]
          /\ agents' = [agents EXCEPT ![AgentOf(id)].life = IF @ = "open" THEN "closing" ELSE @]
          /\ table' = WhileClosing(id)
    /\ UNCHANGED <<room, connected, dropped, interrupted, passed>>

Forget(u) ==
    /\ table' = TableWithout(user[u].id)
    /\ closingIds' = closingIds \ {user[u].id}

Deleted(u) ==
    /\ IsAt(u, "delete") /\ agents[user[u].agent].life = "closed"
    /\ Forget(u) /\ Got(u, "deleted")
    /\ UNCHANGED <<room, agents, connected, ops, dropped, interrupted, passed>>

(* The task is cancelled while it waits: the session is forgotten, and the *)
(* agent accepts nothing more, but what it was doing may go on.            *)
DeleteCancelled(u) ==
    /\ IsAt(u, "delete")
    /\ Forget(u) /\ Got(u, "cancelled")
    /\ interrupted' = interrupted \cup {user[u].agent}
    /\ UNCHANGED <<room, agents, connected, ops, dropped, passed>>

-----------------------------------------------------------------------------
(* Closing the client *)

(* The next place that is taken, or none.                                  *)
NextPlace(from) ==
    LET later == {i \in DOMAIN table : i > from /\ table[i] # Void}
    IN  IF later = {} THEN 0 ELSE CHOOSE i \in later : \A j \in later : i <= j

(* A dict that changed its size since close() began raises, and so does    *)
(* one that yields more than it had then.                                  *)
Walk(u, from, size, left) ==
    \/ /\ \/ Len(Taken) # size
          \/ NextPlace(from) # 0 /\ left = 0
       /\ Got(u, "changed")
       /\ UNCHANGED <<table, room, agents, connected, dropped>>
    \/ /\ Len(Taken) = size /\ NextPlace(from) # 0 /\ left > 0
       /\ LET a == table[NextPlace(from)].agent
          IN  /\ agents' = [agents EXCEPT ![a].life = IF @ = "open" THEN "closing" ELSE @]
              /\ user' = [user EXCEPT ![u] = [Resting EXCEPT !.pc = "close", !.agent = a, !.place = NextPlace(from),
                                                            !.size = size, !.left = left - 1]]
       /\ UNCHANGED <<table, room, connected, dropped>>
    \/ /\ Len(Taken) = size /\ NextPlace(from) = 0
       /\ dropped' = dropped \cup {e.agent : e \in {x \in ToSet(Taken) : agents[x.agent].life # "closed"}}
       /\ table' = << >> /\ room' = MinRoom /\ connected' = FALSE
       /\ Got(u, "closed")
       /\ UNCHANGED agents

(* Whoever has connected the client closes it: one close() at a time.      *)
CloseClient(u) ==
    /\ Starts(u) /\ connected /\ \A v \in Users : ~IsAt(v, "close")
    /\ Walk(u, 0, Len(Taken), Len(Taken))
    /\ UNCHANGED <<closingIds, interrupted, passed>>

CloseNext(u) ==
    /\ IsAt(u, "close") /\ agents[user[u].agent].life = "closed"
    /\ Walk(u, user[u].place, user[u].size, user[u].left)
    /\ UNCHANGED <<closingIds, ops, interrupted, passed>>

-----------------------------------------------------------------------------
(* Prompts *)

(* The session is looked up at once; a stream runs it later.               *)
Prompt(u, id) ==
    /\ Starts(u)
    /\ \/ id \notin Known /\ Got(u, "not found")
       \/ id \in Known /\ user' = [user EXCEPT ![u] = [Resting EXCEPT !.pc = "run", !.agent = AgentOf(id)]]
    /\ UNCHANGED <<table, room, closingIds, agents, connected, dropped, interrupted, passed>>

(* An agent that is closing takes no turn: an error, or an error chunk.    *)
RunPrompt(u) ==
    /\ IsAt(u, "run")
    /\ \/ /\ agents[user[u].agent].life = "open" /\ ~agents[user[u].agent].busy
          /\ agents' = [agents EXCEPT ![user[u].agent].busy = TRUE]
          /\ user' = [user EXCEPT ![u].pc = "answer"]
       \/ /\ agents[user[u].agent].life # "open"
          /\ Got(u, "failed") /\ UNCHANGED agents
    /\ UNCHANGED <<table, room, closingIds, connected, ops, dropped, interrupted, passed>>

TurnEnds(u) ==
    /\ IsAt(u, "answer")
    /\ agents' = [agents EXCEPT ![user[u].agent].busy = FALSE]
    /\ \/ agents[user[u].agent].life = "open" /\ Got(u, "answered")
       \/ agents[user[u].agent].life # "open" /\ Got(u, "failed")
    /\ UNCHANGED <<table, room, closingIds, connected, ops, dropped, interrupted, passed>>

CancelPrompt(u, id) ==
    /\ Starts(u)
    /\ Got(u, IF id \in Known THEN "cancelled" ELSE "not found")
    /\ UNCHANGED <<table, room, closingIds, agents, connected, dropped, interrupted, passed>>

(* Agent.close returns: no turn is left (SessionRuntime.CloseIsComplete).  *)
AgentCloses(a) ==
    /\ agents[a].life = "closing" /\ ~agents[a].busy
    /\ \E u \in Users : user[u].agent = a /\ user[u].pc \in {"delete", "close"}
    /\ agents' = [agents EXCEPT ![a].life = "closed"]
    /\ UNCHANGED <<table, room, closingIds, user, connected, ops, dropped, interrupted, passed>>

EmbeddedNext ==
    \/ Connect
    \/ \E u \in Users, id \in SessionIds :
          CreateSession(u, id) \/ DeleteSession(u, id) \/ Prompt(u, id) \/ CancelPrompt(u, id)
    \/ \E u \in Users :
          \/ Deleted(u) \/ DeleteCancelled(u) \/ CloseClient(u) \/ CloseNext(u)
          \/ RunPrompt(u) \/ TurnEnds(u)
    \/ \E a \in DOMAIN agents : AgentCloses(a)

-----------------------------------------------------------------------------
(* Properties *)

(* Agents that are left at work: their deletion was cancelled, or close()  *)
(* did not see them.                                                       *)
Left == interrupted \cup (dropped \cap passed)

(* Two agents of one id, which share its files, are not both at work: the  *)
(* id is free again only when the agent before has closed, unless it was   *)
(* left.                                                                   *)
OneAgentAnId ==
    \A a, b \in DOMAIN agents :
        (a < b /\ agents[a].id = agents[b].id) => agents[a].life = "closed" \/ a \in Left

(* close() returns only when every agent has closed, although others       *)
(* create and delete sessions meanwhile, or it raises.  It misses an agent *)
(* only where as many sessions were deleted as created, so that the dict   *)
(* has its size again, and a creation found the dict full: packed, it has  *)
(* the agent at a place that close() has passed.                           *)
CloseLeavesNone == dropped \subseteq Left

(* No agent is out of reach: it is in the table, or closed, or left.       *)
NoneOutOfReach ==
    \A a \in DOMAIN agents :
        \/ a \in {e.agent : e \in ToSet(Taken)} \cup Left
        \/ agents[a].life = "closed"

(* Sessions of the embedded client end with their agents.                  *)
EmbeddedIsSound == OneAgentAnId /\ CloseLeavesNone /\ NoneOutOfReach

=============================================================================
