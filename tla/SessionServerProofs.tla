------------------------- MODULE SessionServerProofs -------------------------
(***************************************************************************)
(* Proofs about SessionServer, for every set of requests and of ids and    *)
(* every number of sessions: what SessionsAreSound says, the status and    *)
(* the count that clients are shown, and that a deleted session is gone.   *)
(*                                                                         *)
(* The invariant adds what the handlers rely on between two suspensions:   *)
(* an agent found under an id serves that id for good (Known); a turn      *)
(* belongs to the agent that accepted it (Accepted); an agent that left    *)
(* the registry is closed, or has a request that is going to close it      *)
(* (Removed); and a closed agent accepts nothing and is waited for         *)
(* (Emptied).                                                              *)
(***************************************************************************)
EXTENDS SessionServer, FiniteSetTheorems, TLAPS

-----------------------------------------------------------------------------
(* The inductive invariant *)

(* What TypeOK leaves out: the requests.                                   *)
RequestType ==
    [op : Ops \cup {"none"}, id : Ids \cup {None}, agent : Agents \cup {None},
     at : Waiting \cup Answers \cup {"idle"}, reject : BOOLEAN,
     saw : {"none", "busy", "free"}, waits : Requests \cup {None}]

Types == TypeOK /\ req \in [Requests -> RequestType]

(* An agent is registered under its id, and belongs to the requests that   *)
(* wait for its lock or hold it.                                           *)
Known ==
    /\ \A i \in Ids : registry[i] # None => idOf[registry[i]] = i
    /\ \A r \in Requests : req[r].op # "none" => req[r].id \in Ids
    /\ \A r \in Requests : req[r].at \in {"lock", "settle"} =>
          /\ req[r].agent \in Agents /\ idOf[req[r].agent] = req[r].id
          /\ req[r].id \in Ids

(* Turns of an agent are turns it accepted, of requests for prompts.       *)
Accepted ==
    /\ \A a \in Agents : active[a] # None => turnOf[active[a]] = a /\ turn[active[a]] = "running"
    /\ \A a \in Agents : \A t \in queue[a] : turnOf[t] = a /\ turn[t] = "queued"
    /\ \A t \in Requests :
          /\ turnOf[t] # None => idOf[turnOf[t]] # None
          /\ turn[t] = "absent" <=> turnOf[t] = None
          /\ turn[t] # "absent" => /\ req[t].op \in PromptOps
                                   /\ req[t].at \in {"turn", "queued", "ok", "500"}

(* The statuses tell what the agent does.                                  *)
Statuses ==
    \A a \in Agents : /\ shown[a] = "busy" => Busy(a)
                      /\ running[a] = "busy" => active[a] # None
                      /\ running[a] = "closed" => a \in closed

CompletedOf(a) == {r \in Requests : turnOf[r] = a /\ turn[r] = "completed"}

CountsInv ==
    \A a \in Agents : IsFiniteSet(CompletedOf(a)) /\ count[a] = Cardinality(CompletedOf(a))

(* An agent leaves the registry for good, with a request that closes it.   *)
Removed ==
    /\ \A a \in Created : \/ a \in Registered \/ a \in closed
                          \/ \E r \in Requests : At(r, "delete", "lock") /\ req[r].agent = a
    /\ \A r \in Requests : req[r].op = "delete" /\ req[r].at \in {"lock", "settle"} =>
          req[r].agent \notin Registered
    /\ \A a \in closed : a \in Created /\ a \notin Registered

(* A closed agent accepts nothing more, and the request that closes it     *)
(* awaits the turn it still runs.                                          *)
Emptied ==
    /\ \A a \in closed : queue[a] = {}
    /\ \A r \in Requests : At(r, "delete", "settle") =>
          req[r].agent \in closed /\ active[req[r].agent] \in {None, req[r].waits}

(* Stored turns are completed turns of an agent of that id.                *)
Stored ==
    \A i \in Ids : \A t \in stored[i] :
        turn[t] = "completed" /\ idOf[turnOf[t]] = i

IInv ==
    /\ Types /\ Known /\ Accepted /\ Statuses /\ CountsInv /\ Removed /\ Emptied /\ Stored
    /\ DeletedIsGone

-----------------------------------------------------------------------------
(* What one request does to itself *)

(* r changes, into a request, and no other request does.                   *)
Moved(r) ==
    /\ req' \in [Requests -> RequestType]
    /\ \A s \in Requests : s # r => req'[s] = req[s]
    /\ req'[r].op # "none" => req'[r].id \in Ids
    /\ req'[r].at \in {"lock", "settle"} =>
          /\ req'[r].agent \in Agents /\ idOf'[req'[r].agent] = req'[r].id
          /\ req'[r].id \in Ids
    /\ turn'[r] # "absent" => /\ req'[r].op \in PromptOps
                              /\ req'[r].at \in {"turn", "queued", "ok", "500"}

(* It neither closes an agent nor has done so.                             *)
NoDelete(r) ==
    /\ ~(req[r].op = "delete" /\ req[r].at \in {"lock", "settle", "500"})
    /\ ~(req'[r].op = "delete" /\ req'[r].at \in {"lock", "settle"})

(* No name is two things.                                                  *)
LEMMA NoneApart == None \notin Agents /\ None \notin Requests /\ None \notin Ids
  BY NoneAssumption, BoundsAssumption DEF Agents

(* The types are kept by steps that keep the fields of the other requests typed. *)
LEMMA Typed ==
    ASSUME Types
    PROVE  /\ registry \in [Ids -> Agents \cup {None}] /\ idOf \in [Agents -> Ids \cup {None}]
           /\ closed \subseteq Agents /\ active \in [Agents -> Requests \cup {None}]
           /\ queue \in [Agents -> SUBSET Requests] /\ turnOf \in [Requests -> Agents \cup {None}]
           /\ turn \in [Requests -> {"absent", "queued", "running"} \cup Terminal]
           /\ stored \in [Ids -> SUBSET Requests] /\ req \in [Requests -> RequestType]
           /\ count \in [Agents -> Nat]
  BY DEF Types, TypeOK

(* A step in which a request that deletes nothing changes, and queues only *)
(* get shorter.                                                            *)
LEMMA MoveKeeps ==
    ASSUME IInv, NEW r \in Requests, Moved(r), NoDelete(r),
           UNCHANGED <<registry, idOf, closed, active, count, turnOf, stored>>,
           \A a \in Agents : queue'[a] \subseteq queue[a],
           \A t \in Requests : turn'[t] = "completed" <=> turn[t] = "completed"
    PROVE  Known' /\ CountsInv' /\ Removed' /\ Emptied' /\ Stored' /\ DeletedIsGone'
<1> USE DEF IInv
<1>1. Known' BY DEF Known, Moved
<1>2. CountsInv'
  <2>1. \A a \in Agents : CompletedOf(a)' = CompletedOf(a) BY DEF CompletedOf
  <2> QED BY <2>1 DEF CountsInv
<1>3. Stored' BY Typed DEF Stored
<1>4. \A s \in Requests : /\ At(s, "delete", "lock")' <=> At(s, "delete", "lock")
                          /\ At(s, "delete", "settle")' <=> At(s, "delete", "settle")
                          /\ At(s, "delete", "lock") \/ At(s, "delete", "settle") =>
                                req'[s] = req[s]
                          /\ At(s, "delete", "500") => req'[s] = req[s]
  BY DEF Moved, NoDelete, At
<1>5. Removed' BY <1>4 DEF Removed, At, Created, Registered
<1>6. Emptied'
  <2>1. \A a \in closed : queue'[a] = {} BY Typed DEF Emptied
  <2> QED BY <2>1, <1>4 DEF Emptied, At
<1>7. \A a \in Agents : /\ Deleting(a) => Deleting(a)'
                        /\ CloseRaised(a) => CloseRaised(a)'
  BY <1>4 DEF Deleting, CloseRaised, At
<1>8. DeletedIsGone'
  <2>1. \A a \in Created : Busy(a) => a \in Registered \/ Deleting(a)'
    BY <1>7 DEF DeletedIsGone, Created
  <2>2. \A i \in Ids : \A t \in stored[i] : turnOf[t] \in Agents
    BY Typed, NoneApart DEF Stored, Accepted
  <2>3. \A i \in Ids : \A t \in stored[i] :
          turnOf[t] \in Registered \/ Deleting(turnOf[t])' \/ CloseRaised(turnOf[t])'
    BY <2>2, <1>7 DEF DeletedIsGone
  <2>4. Created' = Created /\ Registered' = Registered /\ \A a \in Agents : Busy(a)' => Busy(a)
    BY DEF Created, Registered, Busy
  <2> QED BY <2>1, <2>3, <2>4 DEF DeletedIsGone, Created
<1> QED BY <1>1, <1>2, <1>3, <1>5, <1>6, <1>8

(* What is said of turns, when a request changes and they do not.          *)
LEMMA MoveAccepted ==
    ASSUME IInv, NEW r \in Requests, Moved(r), UNCHANGED <<idOf, active, queue, turn, turnOf>>
    PROVE  Accepted'
  BY DEF IInv, Accepted, Moved

(* A step of one request alone.                                            *)
LEMMA QuietKeeps ==
    ASSUME IInv, NEW r \in Requests, Moved(r), NoDelete(r),
           UNCHANGED <<registry, manager, agents, turns>>
    PROVE  IInv'
<1>1. Types' BY DEF IInv, Types, TypeOK, Moved, agents, turns
<1>2. Statuses' BY DEF IInv, Statuses, Busy, agents, turns
<1>3. Known' /\ CountsInv' /\ Removed' /\ Emptied' /\ Stored' /\ DeletedIsGone'
  BY MoveKeeps DEF agents, turns
<1>4. Accepted' BY MoveAccepted DEF agents, turns
<1> QED BY <1>1, <1>2, <1>3, <1>4 DEF IInv

(* A request that was not answered with a turn has none.                   *)
LEMMA NoTurnYet ==
    ASSUME IInv, NEW r \in Requests,
           ~(req[r].op \in PromptOps /\ req[r].at \in {"turn", "queued", "ok", "500"})
    PROVE  turn[r] = "absent"
  BY DEF IInv, Accepted

(* What a request looks up is registered, and serves the id.               *)
LEMMA LookupMoves ==
    ASSUME IInv, NEW r \in Requests, req[r].op # "none", req[r].at \in {"begin", "submit"},
           req[r].op # "delete", Lookup(r, "lock"), UNCHANGED <<idOf, turn>>
    PROVE  Moved(r) /\ NoDelete(r)
<1>1. req \in [Requests -> RequestType] /\ req[r].id \in Ids
  BY DEF IInv, Types, Known
<1>2. registry[req[r].id] \in Agents \cup {None} BY <1>1, Typed DEF IInv
<1>3. req' \in [Requests -> RequestType]
  BY <1>1, <1>2 DEF Lookup, RequestType, Waiting, Answers
<1>4. /\ req'[r].op = req[r].op /\ req'[r].id = req[r].id
      /\ req'[r].agent = registry[req[r].id]
      /\ req'[r].at = IF registry[req[r].id] = None THEN "404" ELSE "lock"
      /\ \A s \in Requests : s # r => req'[s] = req[s]
  BY <1>1 DEF Lookup, RequestType
<1>5. turn[r] = "absent" BY NoTurnYet
<1>6. req'[r].at = "lock" => req'[r].agent \in Agents /\ idOf[req'[r].agent] = req'[r].id
  BY <1>1, <1>2, <1>4 DEF IInv, Known
<1> QED BY <1>1, <1>3, <1>4, <1>5, <1>6 DEF Moved, NoDelete

-----------------------------------------------------------------------------
(* The invariant is kept: requests arrive, look, and are answered          *)

(* A request comes in: an identifier in use now, at its first step. *)
LEMMA ArriveKeeps ==
    ASSUME IInv, NEW r \in Requests, Arrive(r)
    PROVE  IInv'
<1>1. PICK o \in Ops, i \in Ids, rej \in BOOLEAN, at \in {"404", "decide", "begin"} :
         /\ req[r].op = "none"
         /\ req' = [req EXCEPT ![r].op = o, ![r].id = i, ![r].agent = registry[i],
                               ![r].reject = rej, ![r].at = at]
  <2>1. PICK op \in Ops, i \in Ids, rej \in BOOLEAN :
           /\ req[r].op = "none"
           /\ rej => op \in {"prompt", "stream"}
           /\ \E o \in Routed(op) :
                 /\ o = "create" => Creates < MaxAgents
                 /\ req' = [req EXCEPT
                           ![r].op = o, ![r].id = i, ![r].agent = registry[i],
                           ![r].reject = rej,
                           ![r].at = IF op \in PromptOps /\ registry[i] = None
                                     THEN "404"
                                     ELSE IF o \in {"prompt", "stream"}
                                          THEN "decide" ELSE "begin"]
           /\ UNCHANGED <<registry, manager, agents, turns>>
    BY Zenon DEF Arrive
  <2>2. Routed(op) \subseteq Ops BY DEF Routed, Ops, PromptOps, LockOps
  <2>3. PICK o \in Ops :
           req' = [req EXCEPT
                     ![r].op = o, ![r].id = i, ![r].agent = registry[i],
                     ![r].reject = rej,
                     ![r].at = IF op \in PromptOps /\ registry[i] = None
                               THEN "404"
                               ELSE IF o \in {"prompt", "stream"}
                                    THEN "decide" ELSE "begin"]
    BY <2>1, <2>2
  <2>4. PICK at \in {"404", "decide", "begin"} :
           at = IF op \in PromptOps /\ registry[i] = None THEN "404"
                ELSE IF o \in {"prompt", "stream"} THEN "decide" ELSE "begin"
    OBVIOUS
  <2> QED BY <2>1, <2>3, <2>4
<1>3. /\ req \in [Requests -> RequestType] /\ req[r] \in RequestType
      /\ registry[i] \in Agents \cup {None}
  BY Typed DEF IInv
<1>4. /\ req'[r].op = o /\ req'[r].id = i /\ req'[r].at \in {"404", "decide", "begin"}
      /\ \A s \in Requests : s # r => req'[s] = req[s]
  BY <1>1, <1>3 DEF RequestType
<1>5. req' \in [Requests -> RequestType]
  <2>1. at \in Waiting \cup Answers BY DEF Waiting, Answers
  <2>2. [req[r] EXCEPT !.op = o, !.id = i, !.agent = registry[i], !.reject = rej, !.at = at]
          \in RequestType
    BY <1>3, <2>1 DEF RequestType
  <2> QED BY <1>1, <1>3, <2>2
<1>6. turn[r] = "absent" /\ turn' = turn
  BY <1>1, NoTurnYet DEF PromptOps, Arrive, turns
<1>7. Moved(r) /\ NoDelete(r) BY <1>1, <1>4, <1>5, <1>6 DEF Moved, NoDelete
<1> QED BY <1>7, QuietKeeps DEF Arrive

(* send_prompt and the WebSocket handler have looked whether a turn runs. *)
LEMMA DecideKeeps ==
    ASSUME IInv, NEW r \in Requests, Decide(r)
    PROVE  IInv'
<1>1. PICK saw \in {"busy", "free"}, at \in {"409", "respond", "submit", "emit"} :
         req' = [req EXCEPT ![r].saw = saw, ![r].at = at]
  BY DEF Decide
<1>2. req \in [Requests -> RequestType] BY Typed DEF IInv
<1>3. req' \in [Requests -> RequestType]
  <2>1. at \in Waiting \cup Answers BY DEF Waiting, Answers
  <2>2. [req[r] EXCEPT !.saw = saw, !.at = at] \in RequestType
    BY <1>2, <2>1 DEF RequestType
  <2> QED BY <1>1, <1>2, <2>2
<1>4. /\ req'[r].op = req[r].op /\ req'[r].id = req[r].id
      /\ req'[r].at \in {"409", "respond", "submit", "emit"}
      /\ \A s \in Requests : s # r => req'[s] = req[s]
  BY <1>1, <1>2 DEF RequestType
<1>5. turn[r] = "absent" /\ turn' = turn BY NoTurnYet DEF Decide, turns
<1>6. Moved(r) /\ NoDelete(r)
  BY <1>3, <1>4, <1>5 DEF Moved, NoDelete, Decide, IInv, Known
<1> QED BY <1>6, QuietKeeps DEF Decide

(* The other steps of a request in which nothing but where it is changes.  *)
LEMMA WaitingMoves ==
    ASSUME IInv, NEW r \in Requests, NEW at \in {"submit", "aborted", "ok", "500"},
           ~(req[r].op = "delete" /\ req[r].at \in {"lock", "settle", "500"}),
           turn[r] # "absent" => at \in {"ok", "500"}, Move(r, at), UNCHANGED <<idOf, turn>>
    PROVE  Moved(r) /\ NoDelete(r)
<1>2. req \in [Requests -> RequestType] BY Typed DEF IInv
<1>3. req' \in [Requests -> RequestType] BY <1>2 DEF Move, RequestType, Waiting, Answers
<1>4. /\ req'[r].op = req[r].op /\ req'[r].id = req[r].id /\ req'[r].at = at
      /\ \A s \in Requests : s # r => req'[s] = req[s]
  BY <1>2 DEF Move, RequestType
<1> QED BY <1>3, <1>4 DEF Moved, NoDelete, IInv, Known, Accepted

(* The streaming route has announced the prompt. *)
LEMMA AnnouncedKeeps ==
    ASSUME IInv, NEW r \in Requests, Announced(r) \/ Aborted(r) \/ TurnAnswered(r)
    PROVE  IInv'
<1>1. CASE Announced(r)
  <2>1. Moved(r) /\ NoDelete(r) BY <1>1, NoTurnYet, WaitingMoves DEF Announced, agents, turns
  <2> QED BY <1>1, <2>1, QuietKeeps DEF Announced
<1>2. CASE Aborted(r)
  <2>1. Moved(r) /\ NoDelete(r)
    BY <1>2, NoTurnYet, WaitingMoves DEF Aborted, Answer, Move, agents, turns
  <2> QED BY <1>2, <2>1, QuietKeeps DEF Aborted
<1>3. CASE TurnAnswered(r)
  <2>1. Moved(r) /\ NoDelete(r)
    BY <1>3, WaitingMoves DEF TurnAnswered, Answer, Move, agents, turns
  <2> QED BY <1>3, <2>1, QuietKeeps DEF TurnAnswered
<1> QED BY <1>1, <1>2, <1>3

(* get_session finds the agent, or answers that there is no such session. *)
LEMMA LookupKeeps ==
    ASSUME IInv, NEW r \in Requests, SubmitPrompt(r) \/ LockRequest(r)
    PROVE  IInv'
<1>1. /\ req[r].op \notin {"none", "delete"} /\ req[r].at \in {"begin", "submit"}
      /\ Lookup(r, "lock") /\ UNCHANGED <<registry, manager, agents, turns>>
  BY DEF SubmitPrompt, LockRequest, PromptOps, LockOps
<1>2. Moved(r) /\ NoDelete(r) BY <1>1, LookupMoves DEF agents, turns
<1> QED BY <1>1, <1>2, QuietKeeps

(* to_session takes the status of the runtime over.                        *)
LEMMA ListKeeps ==
    ASSUME IInv, NEW r \in Requests, ListSessions(r)
    PROVE  IInv'
<1>1. Moved(r) /\ NoDelete(r)
  BY NoTurnYet, WaitingMoves DEF ListSessions, At, Answer, Move, PromptOps, turns
<1>2. Known' /\ CountsInv' /\ Removed' /\ Emptied' /\ Stored' /\ DeletedIsGone'
  BY <1>1, MoveKeeps DEF ListSessions, turns
<1>3. Accepted' BY <1>1, MoveAccepted DEF ListSessions, turns
<1>4. \A a \in Registered : running[a] # "closed"
  BY DEF IInv, Statuses, Removed, Registered, Created
<1>5. TypeOK'
  <2>1. shown' \in [Agents -> {"idle", "busy", "cancelled", "error"}]
    BY <1>4 DEF IInv, Types, TypeOK, ListSessions
  <2> QED BY <2>1 DEF IInv, Types, TypeOK, ListSessions, turns
<1>6. Types' BY <1>1, <1>5 DEF Types, Moved
<1>7. Statuses' BY DEF IInv, Statuses, Busy, ListSessions
<1> QED BY <1>2, <1>3, <1>6, <1>7 DEF IInv

-----------------------------------------------------------------------------
(* The invariant is kept: sessions are created, turns accepted             *)

(* The agent of a new session has done nothing, and its id has no other.   *)
LEMMA CreateKeeps ==
    ASSUME IInv, NEW r \in Requests, CreateSession(r)
    PROVE  IInv'
<1> DEFINE i == req[r].id
<1>1. /\ turn[r] = "absent" /\ turn' = turn
      /\ req \in [Requests -> RequestType] /\ i \in Ids /\ req[r].op = "create"
             /\ req[r].at = "begin"
  BY NoTurnYet, Typed DEF CreateSession, At, PromptOps, IInv, Known, turns
<1>2. PICK at \in {"409", "429", "ok"} : req' = [req EXCEPT ![r].at = at]
  BY DEF CreateSession, Answer
<1>3. req' \in [Requests -> RequestType]
  <2>1. at \in Waiting \cup Answers BY DEF Waiting, Answers
  <2> QED BY <1>1, <1>2, <2>1 DEF RequestType
<1>4. /\ req'[r].op = "create" /\ req'[r].id = i /\ req'[r].at = at
      /\ \A s \in Requests : s # r => req'[s] = req[s]
  BY <1>1, <1>2 DEF RequestType
<1>5. Moved(r) /\ NoDelete(r) BY <1>1, <1>3, <1>4 DEF Moved, NoDelete
<1>6. CASE UNCHANGED <<registry, idOf>>
  <2>1. UNCHANGED <<registry, manager, agents, turns>> BY <1>6 DEF CreateSession, agents, turns
  <2> QED BY <1>5, <2>1, QuietKeeps
<1>7. ASSUME NEW a \in Agents \ Created, registry[i] = None,
             registry' = [registry EXCEPT ![i] = a], idOf' = [idOf EXCEPT ![a] = i]
      PROVE  IInv'
  <2>1. UNCHANGED <<manager, lifecycle, closed, active, queue, running, shown, count, turns>>
    BY DEF CreateSession
  <2>2. idOf[a] = None /\ a \in Agents BY DEF Created
  <2>3. /\ \A b \in Agents : b # a => idOf'[b] = idOf[b]
        /\ idOf'[a] = i /\ i # None
        /\ \A j \in Ids : j # i => registry'[j] = registry[j]
        /\ registry'[i] = a /\ a # None
    BY <1>1, <1>7, Typed, NoneApart DEF IInv
  <2>4. \A j \in Ids : registry[j] # a
    BY <2>2, NoneApart DEF IInv, Known
  <2>5. Types'
    <3>1. registry' \in [Ids -> Agents \cup {None}] /\ idOf' \in [Agents -> Ids \cup {None}]
      BY <1>1, <1>7, Typed DEF IInv
    <3> QED BY <1>3, <2>1, <3>1 DEF IInv, Types, TypeOK, turns
  <2>6. Known'
    <3>1. \A j \in Ids : registry'[j] # None => idOf'[registry'[j]] = j
      <4> SUFFICES ASSUME NEW j \in Ids, registry'[j] # None PROVE idOf'[registry'[j]] = j
        OBVIOUS
      <4>1. CASE j = i BY <4>1, <2>3
      <4>2. CASE j # i
        <5>1. registry'[j] = registry[j] /\ registry[j] \in Agents /\ registry[j] # a
          BY <4>2, <2>3, <2>4, Typed DEF IInv
        <5> QED BY <5>1, <2>3 DEF IInv, Known
      <4> QED BY <4>1, <4>2
    <3>2. \A s \in Requests : req[s].at \in {"lock", "settle"} => req[s].agent # a
      BY <2>2, NoneApart DEF IInv, Known
    <3>3. \A s \in Requests : req'[s].at \in {"lock", "settle"} =>
             /\ req'[s].agent \in Agents /\ idOf'[req'[s].agent] = req'[s].id
             /\ req'[s].id \in Ids
      BY <3>2, <1>4, <2>3 DEF IInv, Known
    <3>4. \A s \in Requests : req'[s].op # "none" => req'[s].id \in Ids
      BY <1>1, <1>4 DEF IInv, Known
    <3> QED BY <3>1, <3>3, <3>4 DEF Known
  <2>7. \A t \in Requests : turnOf[t] # a
    BY <2>2, NoneApart DEF IInv, Accepted
  <2>8. Accepted'
    <3>1. \A t \in Requests : turnOf[t] # None => idOf'[turnOf[t]] # None
      BY <2>3, <2>7, Typed DEF IInv, Accepted
    <3> QED BY <1>1, <1>4, <2>1, <3>1 DEF IInv, Accepted, turns, PromptOps
  <2>9. Statuses' /\ CountsInv'
    BY <2>1 DEF IInv, Statuses, Busy, CountsInv, CompletedOf, turns
  <2>10. /\ \A b \in Agents : b # a => /\ b \in Created' <=> b \in Created
                                       /\ b \in Registered' <=> b \in Registered
         /\ Created \subseteq Agents /\ Created' \subseteq Agents
         /\ Registered \subseteq Created /\ Registered' \subseteq Created'
    <3>1. ASSUME NEW b \in Agents, b # a
          PROVE  /\ b \in Created' <=> b \in Created
                 /\ b \in Registered' <=> b \in Registered
      <4>1. idOf'[b] = idOf[b] BY <2>3, <3>1
      <4>2. b \in Created' <=> b \in Created BY <4>1 DEF Created
      <4>3. CASE idOf[b] = i BY <1>7, <2>3, <3>1, <4>1, <4>2, <4>3, NoneApart DEF Registered
      <4>4. CASE idOf[b] # i
        <5>1. idOf[b] \in Ids => registry'[idOf[b]] = registry[idOf[b]] BY <2>3, <4>4
        <5>2. b \in Created => idOf[b] \in Ids BY Typed DEF Created, IInv
        <5> QED BY <4>1, <4>2, <5>1, <5>2 DEF Registered
      <4> QED BY <4>2, <4>3, <4>4
    <3> QED BY <3>1 DEF Created, Registered
  <2>11. a \in Registered' BY <2>2, <2>3 DEF Registered, Created
  <2>12. a \notin closed BY DEF IInv, Removed
  <2>13. \A s \in Requests : s # r => req'[s] = req[s] BY <1>4
  <2>14. \A s \in Requests : req[s].at \in {"lock", "settle"} => req[s].agent # a
    BY <2>2, NoneApart DEF IInv, Known
  <2>15. Removed'
    <3>1. \A b \in Created' : \/ b \in Registered' \/ b \in closed
                             \/ \E s \in Requests : At(s, "delete", "lock")' /\ req'[s].agent = b
      <4> SUFFICES ASSUME NEW b \in Agents, b \in Created', b \notin Registered', b \notin closed
                   PROVE  \E s \in Requests : At(s, "delete", "lock")' /\ req'[s].agent = b
        BY <2>10
      <4>1. b \in Created /\ b \notin Registered BY <2>10, <2>11
      <4>2. PICK s \in Requests : At(s, "delete", "lock") /\ req[s].agent = b
        BY <4>1 DEF IInv, Removed
      <4> QED BY <4>2, <1>1, <2>13 DEF At
    <3>2. \A s \in Requests : req'[s].op = "delete" /\ req'[s].at \in {"lock", "settle"} =>
             req'[s].agent \notin Registered'
      <4> SUFFICES ASSUME NEW s \in Requests, req'[s].op = "delete",
                          req'[s].at \in {"lock", "settle"}
                   PROVE  req'[s].agent \notin Registered'
        OBVIOUS
      <4>1. req'[s] = req[s] BY <1>4
      <4>2. req[s].agent \in Agents /\ req[s].agent # a /\ req[s].agent \notin Registered
        BY <4>1, <2>14 DEF IInv, Known, Removed
      <4> QED BY <4>1, <4>2, <2>10
    <3>3. \A b \in closed : b \in Created' /\ b \notin Registered'
      <4>1. \A b \in closed : b \in Agents /\ b # a BY <2>12, Typed DEF IInv
      <4> QED BY <4>1, <2>10 DEF IInv, Removed
    <3> QED BY <2>1, <3>1, <3>2, <3>3 DEF Removed
  <2>16. Emptied' BY <1>4, <2>1, <2>13 DEF IInv, Emptied, At
  <2>17. Stored'
    <3>1. \A j \in Ids : \A t \in stored[j] : turnOf[t] \in Agents /\ turnOf[t] # a
      BY <2>7, Typed, NoneApart DEF IInv, Stored, Accepted
    <3> QED BY <2>1, <2>3, <3>1 DEF IInv, Stored, turns
  <2>18. DeletedIsGone'
    <3>1. \A b \in Agents : /\ Deleting(b) => Deleting(b)'
                            /\ CloseRaised(b) => CloseRaised(b)'
      BY <1>1, <2>13 DEF Deleting, CloseRaised, At
    <3>2. \A b \in Created' : Busy(b)' => b \in Registered' \/ Deleting(b)'
      <4> SUFFICES ASSUME NEW b \in Agents, b \in Created', Busy(b)', b # a
                   PROVE  b \in Registered' \/ Deleting(b)'
        BY <2>10, <2>11
      <4>1. b \in Agents /\ b \in Created /\ Busy(b) BY <2>1, <2>10 DEF Busy
      <4> QED BY <4>1, <2>10, <3>1 DEF IInv, DeletedIsGone
    <3>3. \A j \in Ids : \A t \in stored[j] : turnOf[t] \in Agents /\ turnOf[t] # a
      BY <2>7, Typed, NoneApart DEF IInv, Stored, Accepted
    <3>4. \A j \in Ids : \A t \in stored[j] :
             turnOf[t] \in Registered' \/ Deleting(turnOf[t])' \/ CloseRaised(turnOf[t])'
      <4>1. turnOf' = turnOf BY <2>1 DEF turns
      <4>2. \A j \in Ids : \A t \in stored[j] :
               turnOf[t] \in Registered \/ Deleting(turnOf[t]) \/ CloseRaised(turnOf[t])
        BY DEF IInv, DeletedIsGone
      <4>3. \A b \in Agents : b # a /\ (b \in Registered \/ Deleting(b) \/ CloseRaised(b)) =>
               b \in Registered' \/ Deleting(b)' \/ CloseRaised(b)'
        BY <2>10, <3>1
      <4> QED BY <3>3, <4>1, <4>2, <4>3
    <3> QED BY <2>1, <3>2, <3>4 DEF DeletedIsGone, turns
  <2> QED BY <2>5, <2>6, <2>8, <2>9, <2>15, <2>16, <2>17, <2>18 DEF IInv
<1> QED BY <1>6, <1>7 DEF CreateSession

(* A turn is accepted by an agent that is not closed.                      *)
LEMMA SubmitKeeps ==
    ASSUME IInv, NEW r \in Requests, SubmitTurn(r)
    PROVE  IInv'
<1> DEFINE a == req[r].agent
<1>1. turn[r] = "absent" /\ turnOf[r] = None
  BY NoTurnYet DEF SubmitTurn, IInv, Accepted
<1>2. /\ req \in [Requests -> RequestType] /\ req[r] \in RequestType
      /\ a \in Agents /\ idOf[a] = req[r].id /\ req[r].id \in Ids /\ req[r].op \in PromptOps
  BY Typed DEF IInv, Known, SubmitTurn, PromptOps
<1>3. CASE a \in closed
  <2>1. PICK at \in {"none", "500"} : req' = [req EXCEPT ![r].at = at]
    BY <1>3 DEF SubmitTurn, Open, Answer
  <2>2. req' \in [Requests -> RequestType]
    <3>1. at \in Waiting \cup Answers BY DEF Waiting, Answers
    <3> QED BY <1>2, <2>1, <3>1 DEF RequestType
  <2>3. UNCHANGED <<registry, manager, agents, turns>>
    BY <1>3 DEF SubmitTurn, Open, agents, turns
  <2>4. Moved(r) /\ NoDelete(r)
    BY <1>1, <1>2, <2>1, <2>2, <2>3 DEF Moved, NoDelete, RequestType, PromptOps, agents, turns
  <2> QED BY <2>3, <2>4, QuietKeeps
<1>4. CASE a \notin closed
  <2>1. /\ queue' = [queue EXCEPT ![a] = @ \cup {r}]
        /\ turn' = [turn EXCEPT ![r] = "queued"]
        /\ turnOf' = [turnOf EXCEPT ![r] = a]
        /\ UNCHANGED <<registry, manager, idOf, lifecycle, closed, active, running,
                       shown, count, stored>>
    BY <1>4 DEF SubmitTurn, Open
  <2>2. PICK at \in {"queued", "turn"} : req' = [req EXCEPT ![r].at = at]
    BY <1>4 DEF SubmitTurn, Open, Move
  <2>3. req' \in [Requests -> RequestType]
    <3>1. at \in Waiting \cup Answers BY DEF Waiting, Answers
    <3> QED BY <1>2, <2>2, <3>1 DEF RequestType
  <2>4. /\ req'[r].op = req[r].op /\ req'[r].id = req[r].id /\ req'[r].agent = a
        /\ req'[r].at = at /\ \A s \in Requests : s # r => req'[s] = req[s]
    BY <1>2, <2>2 DEF RequestType
  <2>5. Types'
    <3>1. queue' \in [Agents -> SUBSET Requests] BY <1>2, <2>1, Typed DEF IInv
    <3>2. turn' \in [Requests -> {"absent", "queued", "running"} \cup Terminal]
      BY <2>1, Typed DEF IInv
    <3>3. turnOf' \in [Requests -> Agents \cup {None}] BY <1>2, <2>1, Typed DEF IInv
    <3> QED BY <2>1, <2>3, <3>1, <3>2, <3>3 DEF IInv, Types, TypeOK
  <2>6. Known' BY <2>1, <2>4 DEF IInv, Known
  <2>7. Accepted'
    <3>1. \A b \in Agents : active[b] # r /\ r \notin queue[b]
      BY <1>1, NoneApart DEF IInv, Accepted
    <3>2. \A t \in Requests : t # r => turn'[t] = turn[t] /\ turnOf'[t] = turnOf[t]
      BY <2>1, Typed DEF IInv
    <3>3. turn'[r] = "queued" /\ turnOf'[r] = a BY <2>1, Typed DEF IInv
    <3>4. \A b \in Agents : active[b] # None => active[b] \in Requests /\ active[b] # r
      BY <3>1, Typed DEF IInv
    <3>5. \A b \in Agents : queue'[b] = IF b = a THEN queue[a] \cup {r} ELSE queue[b]
      BY <1>2, <2>1, Typed DEF IInv
    <3>6. \A b \in Agents : queue[b] \subseteq Requests BY Typed DEF IInv
    <3>7. (\A b \in Agents : active[b] # None =>
              turnOf[active[b]] = b /\ turn[active[b]] = "running")'
      BY <2>1, <3>2, <3>4 DEF IInv, Accepted
    <3>8. (\A b \in Agents : \A t \in queue[b] : turnOf[t] = b /\ turn[t] = "queued")'
      BY <3>1, <3>2, <3>3, <3>5, <3>6 DEF IInv, Accepted
    <3>9. (\A t \in Requests :
              /\ turnOf[t] # None => idOf[turnOf[t]] # None
              /\ turn[t] = "absent" <=> turnOf[t] = None
              /\ turn[t] # "absent" => /\ req[t].op \in PromptOps
                                       /\ req[t].at \in {"turn", "queued", "ok", "500"})'
      BY <1>2, <2>1, <2>4, <3>2, <3>3, NoneApart DEF IInv, Accepted
    <3> QED BY <3>7, <3>8, <3>9 DEF Accepted
  <2>8. Statuses' BY <1>2, <2>1, Typed DEF IInv, Statuses, Busy
  <2>9. CountsInv'
    <3>1. \A b \in Agents : CompletedOf(b)' = CompletedOf(b)
      BY <1>1, <2>1, Typed DEF IInv, CompletedOf
    <3> QED BY <2>1, <3>1 DEF IInv, CountsInv
  <2>10. \A s \in Requests :
            /\ At(s, "delete", "lock")' <=> At(s, "delete", "lock")
            /\ At(s, "delete", "settle")' <=> At(s, "delete", "settle")
            /\ At(s, "delete", "lock") \/ At(s, "delete", "settle") \/ At(s, "delete", "500")
               => req'[s] = req[s]
    BY <1>2, <2>4 DEF At, PromptOps
  <2>11. Removed'
    BY <2>1, <2>10 DEF IInv, Removed, At, Created, Registered
  <2>12. Emptied'
    <3>1. \A b \in closed : queue'[b] = queue[b] BY <1>4, <2>1, Typed DEF IInv
    <3> QED BY <2>1, <2>10, <3>1 DEF IInv, Emptied, At
  <2>13. Stored'
    BY <1>1, <2>1, Typed DEF IInv, Stored
  <2>14. DeletedIsGone'
    <3>1. \A b \in Agents : /\ Deleting(b) => Deleting(b)'
                            /\ CloseRaised(b) => CloseRaised(b)'
      BY <2>10 DEF Deleting, CloseRaised, At
    <3>2. Created' = Created /\ Registered' = Registered
      BY <2>1 DEF Created, Registered
    <3>3. \A b \in Created : Busy(b)' => b \in Registered \/ Deleting(b)'
      <4> SUFFICES ASSUME NEW b \in Created, Busy(b)' PROVE b \in Registered \/ Deleting(b)'
        OBVIOUS
      <4>1. CASE b = a
        <5>1. b \in Registered \/ Deleting(b)
          BY <1>4, <4>1 DEF IInv, Removed, Deleting, At
        <5> QED BY <5>1, <3>1 DEF Created
      <4>2. CASE b # a
        <5>1. Busy(b) BY <2>1, <4>2, Typed DEF IInv, Busy, Created
        <5> QED BY <5>1, <3>1 DEF IInv, DeletedIsGone, Created
      <4> QED BY <4>1, <4>2
    <3>4. \A i \in Ids : \A t \in stored[i] : t # r /\ turnOf[t] \in Agents /\ t \in Requests
      BY <1>1, Typed, NoneApart DEF IInv, Stored, Accepted
    <3>5. \A t \in Requests : t # r => turnOf'[t] = turnOf[t] BY <2>1, Typed DEF IInv
    <3>6. \A i \in Ids : \A t \in stored[i] :
             turnOf'[t] \in Registered \/ Deleting(turnOf[t])' \/ CloseRaised(turnOf[t])'
      BY <3>1, <3>4, <3>5 DEF IInv, DeletedIsGone
    <3> QED BY <2>1, <3>2, <3>3, <3>4, <3>5, <3>6 DEF DeletedIsGone
  <2> QED BY <2>5, <2>6, <2>7, <2>8, <2>9, <2>11, <2>12, <2>13, <2>14 DEF IInv
<1> QED BY <1>3, <1>4

-----------------------------------------------------------------------------
(* The invariant is kept: the lifecycle lock is taken                      *)

(* The request that takes the lock waits for the turn that runs.           *)
LEMMA LockMoves ==
    ASSUME IInv, NEW r \in Requests, req[r].op \in {"cancel", "force", "clear", "delete"},
           req[r].at = "lock", TakeLock(r, req[r].agent), idOf' = idOf, turn'[r] = "absent"
    PROVE  /\ Moved(r) /\ lifecycle' \in [Agents -> Requests \cup {None}]
           /\ req[r].agent \in Agents /\ idOf[req[r].agent] = req[r].id
           /\ req'[r].op = req[r].op /\ req'[r].agent = req[r].agent
           /\ req'[r].at = "settle" /\ req'[r].waits = active[req[r].agent]
<1>1. /\ req \in [Requests -> RequestType] /\ req[r] \in RequestType
      /\ req[r].agent \in Agents /\ idOf[req[r].agent] = req[r].id /\ req[r].id \in Ids
  BY Typed DEF IInv, Known
<1>2. active[req[r].agent] \in Requests \cup {None} BY <1>1, Typed DEF IInv
<1>3. req' = [req EXCEPT ![r].at = "settle", ![r].waits = active[req[r].agent]]
  BY DEF TakeLock
<1>4. req' \in [Requests -> RequestType]
  <2>1. "settle" \in Waiting \cup Answers BY DEF Waiting
  <2>2. [req[r] EXCEPT !.at = "settle", !.waits = active[req[r].agent]] \in RequestType
    BY <1>1, <1>2, <2>1 DEF RequestType
  <2> QED BY <1>1, <1>3, <2>2
<1>5. /\ req'[r].op = req[r].op /\ req'[r].agent = req[r].agent /\ req'[r].id = req[r].id
      /\ req'[r].at = "settle" /\ req'[r].waits = active[req[r].agent]
      /\ \A s \in Requests : s # r => req'[s] = req[s]
  BY <1>1, <1>3 DEF RequestType
<1>6. lifecycle' \in [Agents -> Requests \cup {None}]
  BY <1>1 DEF TakeLock, IInv, Types, TypeOK
<1> QED BY <1>1, <1>4, <1>5, <1>6 DEF Moved

(* What cancelling queued turns does to turns.                             *)
LEMMA QueueCancelled ==
    ASSUME IInv, NEW r \in Requests, NEW a \in Agents, CancelQueued(a), Moved(r),
           UNCHANGED <<idOf, active, running, count, turnOf, stored>>,
           closed \subseteq closed'
    PROVE  /\ Accepted' /\ Statuses'
           /\ queue' \in [Agents -> SUBSET Requests]
           /\ turn' \in [Requests -> {"absent", "queued", "running"} \cup Terminal]
           /\ shown' \in [Agents -> {"idle", "busy", "cancelled", "error"}]
           /\ queue'[a] = {} /\ \A b \in Agents : b # a => queue'[b] = queue[b]
           /\ \A t \in Requests : turn'[t] = "completed" <=> turn[t] = "completed"
<1>1. /\ queue \in [Agents -> SUBSET Requests] /\ queue[a] \subseteq Requests
      /\ turn \in [Requests -> {"absent", "queued", "running"} \cup Terminal]
      /\ shown \in [Agents -> {"idle", "busy", "cancelled", "error"}]
  BY Typed DEF IInv, Types, TypeOK
<1>2. /\ queue' \in [Agents -> SUBSET Requests]
      /\ queue'[a] = {} /\ \A b \in Agents : b # a => queue'[b] = queue[b]
  BY <1>1 DEF CancelQueued
<1>3. /\ \A t \in Requests : turn'[t] = IF t \in queue[a] THEN "cancelled" ELSE turn[t]
      /\ turn' \in [Requests -> {"absent", "queued", "running"} \cup Terminal]
  BY <1>1 DEF CancelQueued, Terminal
<1>4. \A t \in queue[a] : turn[t] = "queued" /\ turnOf[t] = a
  BY DEF IInv, Accepted
<1>5. \A t \in Requests : turn'[t] = "completed" <=> turn[t] = "completed"
  BY <1>3, <1>4
<1>6. shown' \in [Agents -> {"idle", "busy", "cancelled", "error"}]
  BY <1>1 DEF CancelQueued
<1>7. Accepted'
  <2>1. (\A b \in Agents : active[b] # None =>
            turnOf[active[b]] = b /\ turn[active[b]] = "running")'
    <3>1. \A b \in Agents : active[b] # None => active[b] \in Requests
      BY Typed DEF IInv
    <3> QED BY <3>1, <1>3, <1>4 DEF IInv, Accepted
  <2>2. (\A b \in Agents : \A t \in queue[b] : turnOf[t] = b /\ turn[t] = "queued")'
    BY <1>1, <1>2, <1>3, <1>4 DEF IInv, Accepted
  <2>3. \A t \in Requests : turn'[t] = "absent" <=> turn[t] = "absent" BY <1>3, <1>4
  <2>4. \A t \in Requests : turn'[t] # "absent" =>
           req'[t].op \in PromptOps /\ req'[t].at \in {"turn", "queued", "ok", "500"}
    BY <2>3 DEF IInv, Accepted, Moved
  <2> QED BY <2>1, <2>2, <2>3, <2>4 DEF IInv, Accepted
<1>8. Statuses'
  <2>1. \A b \in Agents : b # a => shown'[b] = shown[b] BY <1>1 DEF CancelQueued
  <2>2. shown'[a] = "busy" => active[a] # None
    BY <1>1 DEF CancelQueued, IInv, Statuses, Busy
  <2> QED BY <1>2, <2>1, <2>2 DEF IInv, Statuses, Busy
<1> QED BY <1>2, <1>3, <1>5, <1>6, <1>7, <1>8

(* No request that is not a prompt's is cancelled with a queue.            *)
LEMMA NotQueued ==
    ASSUME IInv, NEW r \in Requests, NEW a \in Agents, turn[r] = "absent", CancelQueued(a)
    PROVE  turn'[r] = "absent"
<1>1. r \notin queue[a] BY DEF IInv, Accepted
<1> QED BY <1>1 DEF CancelQueued

(* Agent.cancel has the lock: its queue is emptied, its turn awaited. *)
LEMMA CancelKeeps ==
    ASSUME IInv, NEW r \in Requests, CancelLocked(r)
    PROVE  IInv'
<1>1. /\ req[r].op \in {"cancel", "force"} /\ req[r].at = "lock" /\ TakeLock(r, req[r].agent)
      /\ UNCHANGED <<registry, manager, idOf, closed, active, running, count, turnOf, stored>>
  BY DEF CancelLocked, At
<1>2. turn[r] = "absent" /\ req[r].agent \in Agents
  BY <1>1, NoTurnYet DEF PromptOps, IInv, Known
<1>3. CASE req[r].op = "force"
  <2>1. CancelQueued(req[r].agent) BY <1>3 DEF CancelLocked
  <2>2. turn'[r] = "absent" BY <1>2, <2>1, NotQueued
  <2>3. Moved(r) /\ NoDelete(r) /\ lifecycle' \in [Agents -> Requests \cup {None}]
    BY <1>1, <1>3, <2>2, LockMoves DEF NoDelete
  <2>4. /\ Accepted' /\ Statuses'
        /\ queue' \in [Agents -> SUBSET Requests]
        /\ turn' \in [Requests -> {"absent", "queued", "running"} \cup Terminal]
        /\ shown' \in [Agents -> {"idle", "busy", "cancelled", "error"}]
        /\ \A b \in Agents : queue'[b] \subseteq queue[b]
        /\ \A t \in Requests : turn'[t] = "completed" <=> turn[t] = "completed"
    BY <1>1, <1>2, <2>1, <2>3, QueueCancelled
  <2>5. Known' /\ CountsInv' /\ Removed' /\ Emptied' /\ Stored' /\ DeletedIsGone'
    BY <1>1, <2>3, <2>4, MoveKeeps
  <2>6. Types' BY <1>1, <2>3, <2>4 DEF IInv, Types, TypeOK, Moved
  <2> QED BY <2>4, <2>5, <2>6 DEF IInv
<1>4. CASE req[r].op = "cancel"
  <2>1. UNCHANGED <<queue, turn, shown>> BY <1>4 DEF CancelLocked
  <2>2. Moved(r) /\ NoDelete(r) /\ lifecycle' \in [Agents -> Requests \cup {None}]
    BY <1>1, <1>2, <1>4, <2>1, LockMoves DEF NoDelete
  <2>3. Known' /\ CountsInv' /\ Removed' /\ Emptied' /\ Stored' /\ DeletedIsGone'
    BY <1>1, <2>1, <2>2, MoveKeeps
  <2>4. Accepted' BY <1>1, <2>1, <2>2, MoveAccepted
  <2>5. Statuses' BY <1>1, <2>1 DEF IInv, Statuses, Busy
  <2>6. Types' BY <1>1, <2>1, <2>2 DEF IInv, Types, TypeOK, Moved
  <2> QED BY <2>3, <2>4, <2>5, <2>6 DEF IInv
<1> QED BY <1>1, <1>3, <1>4

(* A reset of a closed agent fails.                                        *)
LEMMA ClearKeeps ==
    ASSUME IInv, NEW r \in Requests, ClearLocked(r)
    PROVE  IInv'
<1>1. /\ req[r].op = "clear" /\ req[r].at = "lock"
      /\ UNCHANGED <<registry, manager, idOf, closed, active, running, count, turnOf, stored>>
  BY DEF ClearLocked, At
<1>2. turn[r] = "absent" /\ req[r].agent \in Agents
  BY <1>1, NoTurnYet DEF PromptOps, IInv, Known
<1>3. CASE TakeLock(r, req[r].agent) /\ CancelQueued(req[r].agent)
  <2>1. CancelQueued(req[r].agent) BY <1>3
  <2>2. turn'[r] = "absent" BY <1>2, <2>1, NotQueued
  <2>3. Moved(r) /\ NoDelete(r) /\ lifecycle' \in [Agents -> Requests \cup {None}]
    BY <1>1, <1>3, <2>2, LockMoves DEF NoDelete
  <2>4. /\ Accepted' /\ Statuses'
        /\ queue' \in [Agents -> SUBSET Requests]
        /\ turn' \in [Requests -> {"absent", "queued", "running"} \cup Terminal]
        /\ shown' \in [Agents -> {"idle", "busy", "cancelled", "error"}]
        /\ \A b \in Agents : queue'[b] \subseteq queue[b]
        /\ \A t \in Requests : turn'[t] = "completed" <=> turn[t] = "completed"
    BY <1>1, <1>2, <2>1, <2>3, QueueCancelled
  <2>5. Known' /\ CountsInv' /\ Removed' /\ Emptied' /\ Stored' /\ DeletedIsGone'
    BY <1>1, <2>3, <2>4, MoveKeeps
  <2>6. Types' BY <1>1, <2>3, <2>4 DEF IInv, Types, TypeOK, Moved
  <2> QED BY <2>4, <2>5, <2>6 DEF IInv
<1>4. CASE Answer(r, "500") /\ UNCHANGED <<queue, turn, shown, lifecycle>>
  <2>1. UNCHANGED <<registry, manager, agents, turns>> BY <1>1, <1>4 DEF agents, turns
  <2>2. req \in [Requests -> RequestType] /\ req[r].id \in Ids
    BY <1>1, Typed DEF IInv, Known
  <2>3. req' \in [Requests -> RequestType]
    <3>1. "500" \in Waiting \cup Answers BY DEF Answers
    <3> QED BY <1>4, <2>2, <3>1 DEF Answer, RequestType
  <2>4. /\ req'[r].op = "clear" /\ req'[r].id \in Ids /\ req'[r].at = "500"
        /\ \A s \in Requests : s # r => req'[s] = req[s]
    BY <1>1, <1>4, <2>2 DEF Answer, RequestType
  <2>5. Moved(r) /\ NoDelete(r) BY <1>1, <1>2, <1>4, <2>3, <2>4 DEF Moved, NoDelete
  <2> QED BY <2>1, <2>5, QuietKeeps
<1> QED BY <1>3, <1>4 DEF ClearLocked

(* delete_session takes the session from the registry.                     *)
LEMMA DeleteBeginKeeps ==
    ASSUME IInv, NEW r \in Requests, DeleteBegin(r)
    PROVE  IInv'
<1> DEFINE i == req[r].id
<1>0. PICK a : a = registry[req[r].id] OBVIOUS
<1>1. /\ req[r].op = "delete" /\ req[r].at = "begin" /\ Lookup(r, "lock")
      /\ manager' \in Requests \cup {None}
      /\ registry' = [registry EXCEPT ![i] = None] /\ UNCHANGED <<agents, turns>>
  BY DEF DeleteBegin, At
<1>2. /\ req \in [Requests -> RequestType] /\ req[r] \in RequestType /\ i \in Ids
      /\ a \in Agents \cup {None} /\ registry \in [Ids -> Agents \cup {None}]
      /\ (a # None => idOf[a] = i) /\ turn[r] = "absent"
  BY <1>0, <1>1, Typed, NoTurnYet DEF IInv, Known, PromptOps
<1>3. req' \in [Requests -> RequestType]
  <2>1. {"404", "lock"} \subseteq Waiting \cup Answers BY DEF Answers, Waiting
  <2> QED BY <1>1, <1>2, <2>1 DEF Lookup, RequestType
<1>4. /\ req'[r].op = "delete" /\ req'[r].id = i /\ req'[r].agent = a
      /\ req'[r].at = IF a = None THEN "404" ELSE "lock"
      /\ \A s \in Requests : s # r => req'[s] = req[s]
  BY <1>0, <1>1, <1>2 DEF Lookup, RequestType
<1>5. /\ UNCHANGED <<idOf, lifecycle, closed, active, queue, running, shown, count>>
      /\ UNCHANGED <<turn, turnOf, stored>>
  BY <1>1 DEF agents, turns
<1>6. Moved(r) BY <1>2, <1>3, <1>4, <1>5 DEF Moved
<1>7. Types'
  <2>1. registry' \in [Ids -> Agents \cup {None}] BY <1>1, <1>2
  <2> QED BY <1>1, <1>3, <1>5, <2>1 DEF IInv, Types, TypeOK
<1>8. /\ \A j \in Ids : registry'[j] # None => j # i /\ registry'[j] = registry[j]
      /\ registry'[i] = None
  BY <1>1, <1>2
<1>9. Known' BY <1>2, <1>4, <1>5, <1>6, <1>8 DEF IInv, Known, Moved
<1>10. Accepted' BY <1>5, <1>6, MoveAccepted
<1>11. Statuses' /\ CountsInv' /\ Stored'
  BY <1>5 DEF IInv, Statuses, Busy, CountsInv, CompletedOf, Stored
<1>12. /\ Created' = Created /\ Registered' \subseteq Registered
       /\ \A b \in Registered : b # a => b \in Registered'
       /\ a \notin Registered' /\ Created \subseteq Agents
  <2>1. Created' = Created /\ Created \subseteq Agents BY <1>5 DEF Created
  <2>2. Registered' \subseteq Registered
    <3>1. \A b \in Created : idOf[b] \in Ids BY Typed DEF Created, IInv
    <3>2. \A b \in Created : registry'[idOf[b]] = b => registry[idOf[b]] = b
      BY <1>8, <3>1, <2>1, NoneApart
    <3> QED BY <1>5, <2>1, <3>2 DEF Registered
  <2>3. \A b \in Registered : b # a => b \in Registered'
    <3>1. \A b \in Registered : b # a => idOf[b] # i BY <1>0 DEF Registered
    <3>2. \A b \in Created : idOf[b] \in Ids BY Typed DEF Created, IInv
    <3> QED BY <1>1, <1>2, <1>5, <2>1, <3>1, <3>2 DEF Registered
  <2>4. a \notin Registered' BY <1>2, <1>5, <1>8, <2>1, NoneApart DEF Registered
  <2> QED BY <2>1, <2>2, <2>3, <2>4
<1>13. Removed'
  <2>1. \A b \in Created : \/ b \in Registered' \/ b \in closed
                           \/ \E s \in Requests : At(s, "delete", "lock")' /\ req'[s].agent = b
    <3> SUFFICES ASSUME NEW b \in Created, b \notin Registered', b \notin closed
                 PROVE  \E s \in Requests : At(s, "delete", "lock")' /\ req'[s].agent = b
      OBVIOUS
    <3>1. CASE b = a BY <3>1, <1>4, <1>12, NoneApart DEF At
    <3>2. CASE b # a
      <4>1. b \notin Registered BY <1>12, <3>2
      <4>2. PICK s \in Requests : At(s, "delete", "lock") /\ req[s].agent = b
        BY <4>1 DEF IInv, Removed
      <4> QED BY <1>1, <1>4, <4>2 DEF At
    <3> QED BY <3>1, <3>2
  <2>2. \A s \in Requests : req'[s].op = "delete" /\ req'[s].at \in {"lock", "settle"} =>
           req'[s].agent \notin Registered'
    BY <1>4, <1>12 DEF IInv, Removed
  <2>3. \A b \in closed : b \in Created /\ b \notin Registered'
    BY <1>12 DEF IInv, Removed
  <2> QED BY <1>5, <1>12, <2>1, <2>2, <2>3 DEF Removed
<1>14. Emptied' BY <1>4, <1>5 DEF IInv, Emptied, At
<1>15. DeletedIsGone'
  <2>1. \A b \in Agents : /\ Deleting(b) => Deleting(b)'
                          /\ CloseRaised(b) => CloseRaised(b)'
    BY <1>1, <1>4 DEF Deleting, CloseRaised, At
  <2>2. a # None => Deleting(a)' BY <1>4 DEF Deleting
  <2>3. \A b \in Agents : b \in Registered => b \in Registered' \/ Deleting(b)'
    BY <1>2, <1>12, <2>2, NoneApart
  <2>4. \A b \in Created : Busy(b) => b \in Registered' \/ Deleting(b)'
    BY <1>12, <2>1, <2>3 DEF IInv, DeletedIsGone
  <2>5. \A j \in Ids : \A t \in stored[j] : turnOf[t] \in Agents
    BY Typed, NoneApart DEF IInv, Stored, Accepted
  <2>6. \A j \in Ids : \A t \in stored[j] :
           turnOf[t] \in Registered' \/ Deleting(turnOf[t])' \/ CloseRaised(turnOf[t])'
    <3>1. \A b \in Agents : b \in Registered \/ Deleting(b) \/ CloseRaised(b) =>
             b \in Registered' \/ Deleting(b)' \/ CloseRaised(b)'
      BY <2>1, <2>3
    <3> QED BY <1>5, <2>5, <3>1 DEF IInv, DeletedIsGone
  <2> QED BY <1>5, <1>12, <2>4, <2>6 DEF DeletedIsGone, Busy
<1> QED BY <1>7, <1>9, <1>10, <1>11, <1>13, <1>14, <1>15 DEF IInv

(* Agent.close: closed, its queue cancelled, its turn awaited.             *)
LEMMA DeleteLockedKeeps ==
    ASSUME IInv, NEW r \in Requests, DeleteLocked(r)
    PROVE  IInv'
<1>0. PICK a : a = req[r].agent OBVIOUS
<1>1. /\ req[r].op = "delete" /\ req[r].at = "lock" /\ TakeLock(r, req[r].agent)
      /\ closed' = closed \cup {a} /\ CancelQueued(a)
      /\ UNCHANGED <<registry, manager, idOf, active, running, count, turnOf, stored>>
  BY <1>0 DEF DeleteLocked, At
<1>2. /\ turn[r] = "absent" /\ a \in Agents /\ a \notin Registered
      /\ idOf[a] = req[r].id /\ req[r].id \in Ids
  BY <1>0, <1>1, NoTurnYet DEF PromptOps, IInv, Known, Removed
<1>3. turn'[r] = "absent" BY <1>1, <1>2, NotQueued
<1>4. /\ Moved(r) /\ lifecycle' \in [Agents -> Requests \cup {None}]
      /\ req'[r].op = "delete" /\ req'[r].agent = a
      /\ req'[r].at = "settle" /\ req'[r].waits = active[a]
  BY <1>0, <1>1, <1>3, LockMoves
<1>5. /\ Accepted' /\ Statuses'
      /\ queue' \in [Agents -> SUBSET Requests]
      /\ turn' \in [Requests -> {"absent", "queued", "running"} \cup Terminal]
      /\ shown' \in [Agents -> {"idle", "busy", "cancelled", "error"}]
      /\ queue'[a] = {} /\ \A b \in Agents : b # a => queue'[b] = queue[b]
      /\ \A t \in Requests : turn'[t] = "completed" <=> turn[t] = "completed"
  BY <1>1, <1>2, <1>4, QueueCancelled
<1>6. Types' BY <1>1, <1>2, <1>4, <1>5 DEF IInv, Types, TypeOK, Moved
<1>7. Known' BY <1>1, <1>4 DEF IInv, Known, Moved
<1>8. CountsInv'
  <2>1. \A b \in Agents : CompletedOf(b)' = CompletedOf(b) BY <1>1, <1>5 DEF CompletedOf
  <2> QED BY <1>1, <2>1 DEF IInv, CountsInv
<1>9. Stored' BY <1>1, <1>5, Typed DEF IInv, Stored
<1>10. /\ Created' = Created /\ Registered' = Registered /\ Created \subseteq Agents
       /\ a \in Created
  BY <1>1, <1>2, NoneApart DEF Created, Registered
<1>11. \A s \in Requests : s # r => req'[s] = req[s] BY <1>4 DEF Moved
<1>12. Removed'
  <2>1. \A b \in Created : \/ b \in Registered \/ b \in closed'
                           \/ \E s \in Requests : At(s, "delete", "lock")' /\ req'[s].agent = b
    <3> SUFFICES ASSUME NEW b \in Created, b \notin Registered, b \notin closed'
                 PROVE  \E s \in Requests : At(s, "delete", "lock")' /\ req'[s].agent = b
      OBVIOUS
    <3>1. b # a /\ b \notin closed BY <1>1
    <3>2. PICK s \in Requests : At(s, "delete", "lock") /\ req[s].agent = b
      BY <3>1 DEF IInv, Removed
    <3>3. s # r BY <1>0, <3>1, <3>2
    <3> QED BY <1>11, <3>2, <3>3 DEF At
  <2>2. \A s \in Requests : req'[s].op = "delete" /\ req'[s].at \in {"lock", "settle"} =>
           req'[s].agent \notin Registered
    BY <1>2, <1>4, <1>11 DEF IInv, Removed
  <2>3. \A b \in closed' : b \in Created /\ b \notin Registered
    BY <1>1, <1>2, <1>10 DEF IInv, Removed
  <2> QED BY <1>10, <2>1, <2>2, <2>3 DEF Removed
<1>13. Emptied'
  <2>1. \A b \in closed' : queue'[b] = {}
    BY <1>1, <1>5, Typed DEF IInv, Emptied
  <2>2. \A s \in Requests : At(s, "delete", "settle")' =>
           req'[s].agent \in closed' /\ active[req'[s].agent] \in {None, req'[s].waits}
    BY <1>1, <1>4, <1>11 DEF IInv, Emptied, At
  <2> QED BY <1>1, <2>1, <2>2 DEF Emptied
<1>14. DeletedIsGone'
  <2>1. \A b \in Agents : /\ Deleting(b) => Deleting(b)'
                          /\ CloseRaised(b) => CloseRaised(b)'
    BY <1>0, <1>1, <1>4, <1>11 DEF Deleting, CloseRaised, At
  <2>2. \A b \in Agents : Busy(b)' => Busy(b) BY <1>1, <1>5 DEF Busy
  <2>3. \A j \in Ids : \A t \in stored[j] : turnOf[t] \in Agents
    BY Typed, NoneApart DEF IInv, Stored, Accepted
  <2>4. \A b \in Created : Busy(b)' => b \in Registered \/ Deleting(b)'
    BY <1>10, <2>1, <2>2 DEF IInv, DeletedIsGone
  <2>5. \A j \in Ids : \A t \in stored[j] :
           turnOf[t] \in Registered \/ Deleting(turnOf[t])' \/ CloseRaised(turnOf[t])'
    BY <1>1, <2>1, <2>3 DEF IInv, DeletedIsGone
  <2> QED BY <1>1, <1>10, <2>4, <2>5 DEF DeletedIsGone
<1> QED BY <1>5, <1>6, <1>7, <1>8, <1>9, <1>12, <1>13, <1>14 DEF IInv

-----------------------------------------------------------------------------
(* The invariant is kept: the lifecycle lock is released                   *)

(* The cancelled turn is over, and the lock is released. *)
LEMMA CancelSettledKeeps ==
    ASSUME IInv, NEW r \in Requests, CancelSettled(r)
    PROVE  IInv'
<1>1. /\ req[r].op \in {"cancel", "force"} /\ req[r].at = "settle" /\ Release(r)
      /\ Answer(r, "500") \/ Answer(r, "ok")
      /\ UNCHANGED shown \/ shown' = [shown EXCEPT ![req[r].agent] = "cancelled"]
      /\ UNCHANGED <<registry, manager, idOf, closed, active, queue, running, count, turn,
                     turnOf, stored>>
  BY DEF CancelSettled, turns
<1>2. turn[r] = "absent" /\ req[r].agent \in Agents
  BY <1>1, NoTurnYet DEF PromptOps, IInv, Known
<1>3. Moved(r) /\ NoDelete(r)
  <2>1. PICK at \in {"ok", "500"} : Move(r, at) BY <1>1 DEF Answer, Move
  <2> QED BY <1>1, <1>2, <2>1, WaitingMoves
<1>4. Known' /\ CountsInv' /\ Removed' /\ Emptied' /\ Stored' /\ DeletedIsGone'
  BY <1>1, <1>3, MoveKeeps
<1>5. Accepted' BY <1>1, <1>3, MoveAccepted
<1>6. Statuses'
  <2>1. \A b \in Agents : shown'[b] = "busy" => shown[b] = "busy"
    BY <1>1, <1>2 DEF IInv, Types, TypeOK
  <2> QED BY <1>1, <2>1 DEF IInv, Statuses, Busy
<1>7. Types'
  <2>1. shown' \in [Agents -> {"idle", "busy", "cancelled", "error"}]
    BY <1>1 DEF IInv, Types, TypeOK
  <2>2. lifecycle' \in [Agents -> Requests \cup {None}]
    BY <1>1 DEF Release, IInv, Types, TypeOK
  <2> QED BY <1>1, <1>3, <2>1, <2>2 DEF IInv, Types, TypeOK, Moved
<1> QED BY <1>4, <1>5, <1>6, <1>7 DEF IInv

(* What a reset or a deletion writes: nothing is left under the id.        *)
LEMMA Emptying ==
    ASSUME IInv, NEW i \in Ids,
           stored' = stored \/ stored' = [stored EXCEPT ![i] = {}]
    PROVE  /\ stored' \in [Ids -> SUBSET Requests]
           /\ \A j \in Ids : stored'[j] \subseteq stored[j]
  BY Typed DEF IInv

(* reset_session, when the turn is over.                                   *)
LEMMA ClearSettledKeeps ==
    ASSUME IInv, NEW r \in Requests, ClearSettled(r)
    PROVE  IInv'
<1>1. /\ req[r].op = "clear" /\ req[r].at = "settle" /\ Release(r)
      /\ Answer(r, "500") \/ Answer(r, "ok")
      /\ stored' = stored \/ stored' = [stored EXCEPT ![req[r].id] = {}]
      /\ UNCHANGED <<registry, manager, idOf, closed, active, queue, running, shown, count, turn,
                     turnOf>>
  BY DEF ClearSettled, At
<1>2. turn[r] = "absent" /\ req[r].agent \in Agents /\ req[r].id \in Ids
  BY <1>1, NoTurnYet DEF PromptOps, IInv, Known
<1>3. Moved(r) /\ NoDelete(r)
  <2>1. PICK at \in {"ok", "500"} : Move(r, at) BY <1>1 DEF Answer, Move
  <2> QED BY <1>1, <1>2, <2>1, WaitingMoves
<1>4. stored' \in [Ids -> SUBSET Requests] /\ \A j \in Ids : stored'[j] \subseteq stored[j]
  BY <1>1, <1>2, Emptying
<1>5. Known' BY <1>1, <1>3 DEF IInv, Known, Moved
<1>6. Accepted' BY <1>1, <1>3, MoveAccepted
<1>7. Statuses' /\ CountsInv'
  BY <1>1 DEF IInv, Statuses, Busy, CountsInv, CompletedOf
<1>8. Types'
  <2>1. lifecycle' \in [Agents -> Requests \cup {None}]
    BY <1>1 DEF Release, IInv, Types, TypeOK
  <2> QED BY <1>1, <1>3, <1>4, <2>1 DEF IInv, Types, TypeOK, Moved
<1>9. \A s \in Requests : /\ At(s, "delete", "lock")' <=> At(s, "delete", "lock")
                          /\ At(s, "delete", "settle")' <=> At(s, "delete", "settle")
                          /\ At(s, "delete", "lock") \/ At(s, "delete", "settle") =>
                                req'[s] = req[s]
                          /\ At(s, "delete", "500") => req'[s] = req[s]
  BY <1>3 DEF Moved, NoDelete, At
<1>10. Removed' BY <1>1, <1>9 DEF IInv, Removed, At, Created, Registered
<1>11. Emptied' BY <1>1, <1>9 DEF IInv, Emptied, At
<1>12. Stored' BY <1>1, <1>4 DEF IInv, Stored
<1>13. DeletedIsGone'
  <2>1. \A b \in Agents : /\ Deleting(b) => Deleting(b)'
                          /\ CloseRaised(b) => CloseRaised(b)'
    BY <1>9 DEF Deleting, CloseRaised, At
  <2>2. Created' = Created /\ Registered' = Registered /\ Created \subseteq Agents
    BY <1>1 DEF Created, Registered
  <2>3. \A j \in Ids : \A t \in stored[j] : turnOf[t] \in Agents
    BY Typed, NoneApart DEF IInv, Stored, Accepted
  <2>4. \A b \in Created : Busy(b)' => b \in Registered \/ Deleting(b)'
    BY <1>1, <2>1, <2>2 DEF IInv, DeletedIsGone, Busy
  <2>5. \A j \in Ids : \A t \in stored'[j] :
           turnOf[t] \in Registered \/ Deleting(turnOf[t])' \/ CloseRaised(turnOf[t])'
    <3>1. \A j \in Ids : \A t \in stored[j] :
             turnOf[t] \in Registered \/ Deleting(turnOf[t])' \/ CloseRaised(turnOf[t])'
      BY <1>1, <2>1, <2>3 DEF IInv, DeletedIsGone
    <3> QED BY <1>4, <3>1
  <2> QED BY <1>1, <2>2, <2>4, <2>5 DEF DeletedIsGone
<1> QED BY <1>5, <1>6, <1>7, <1>8, <1>10, <1>11, <1>12, <1>13 DEF IInv

(* delete_session, when the agent is closed: no turn of it runs any more,  *)
(* and the turns of it that were stored go, unless the close raised.       *)
LEMMA DeleteSettledKeeps ==
    ASSUME IInv, NEW r \in Requests, DeleteSettled(r)
    PROVE  IInv'
<1>0. PICK a : a = req[r].agent OBVIOUS
<1>1. /\ req[r].op = "delete" /\ req[r].at = "settle" /\ Release(r) /\ Settled(r)
      /\ \/ Answer(r, "500") /\ stored' = stored
         \/ Answer(r, "ok") /\ stored' = [stored EXCEPT ![req[r].id] = {}]
      /\ manager' = None
      /\ UNCHANGED <<registry, idOf, closed, active, queue, running, shown, count, turn, turnOf>>
  BY DEF DeleteSettled, At
<1>2. /\ turn[r] = "absent" /\ a \in Agents /\ req[r].id \in Ids /\ idOf[a] = req[r].id
      /\ req \in [Requests -> RequestType]
  BY <1>0, <1>1, NoTurnYet, Typed DEF PromptOps, IInv, Known
<1>3. /\ Moved(r) /\ req'[r].op = "delete" /\ req'[r].agent = a
      /\ \/ req'[r].at = "500" /\ stored' = stored
         \/ req'[r].at = "ok" /\ stored' = [stored EXCEPT ![req[r].id] = {}]
  <2>1. PICK at \in {"ok", "500"} :
           /\ req' = [req EXCEPT ![r].at = at]
           /\ \/ at = "500" /\ stored' = stored
              \/ at = "ok" /\ stored' = [stored EXCEPT ![req[r].id] = {}]
    BY <1>1 DEF Answer
  <2>2. req' \in [Requests -> RequestType]
    <3>1. at \in Waiting \cup Answers BY DEF Waiting, Answers
    <3> QED BY <1>2, <2>1, <3>1 DEF RequestType
  <2>3. /\ req'[r].op = "delete" /\ req'[r].agent = a /\ req'[r].at = at
        /\ req'[r].id = req[r].id /\ \A s \in Requests : s # r => req'[s] = req[s]
    BY <1>0, <1>1, <1>2, <2>1 DEF RequestType
  <2> QED BY <1>1, <1>2, <2>1, <2>2, <2>3 DEF Moved
<1>4. stored' \in [Ids -> SUBSET Requests] /\ \A j \in Ids : stored'[j] \subseteq stored[j]
  BY <1>2, <1>3, Emptying
<1>5. Known' BY <1>1, <1>3 DEF IInv, Known, Moved
<1>6. Accepted' BY <1>1, <1>3, MoveAccepted
<1>7. Statuses' /\ CountsInv'
  BY <1>1 DEF IInv, Statuses, Busy, CountsInv, CompletedOf
<1>8. Types'
  <2>1. lifecycle' \in [Agents -> Requests \cup {None}]
    BY <1>1 DEF Release, IInv, Types, TypeOK
  <2> QED BY <1>1, <1>3, <1>4, <2>1 DEF IInv, Types, TypeOK, Moved
<1>9. \A s \in Requests : s # r => req'[s] = req[s] BY <1>3 DEF Moved
<1>10. Removed'
  <2>1. Created' = Created /\ Registered' = Registered BY <1>1 DEF Created, Registered
  <2>2. \A b \in Created : \/ b \in Registered \/ b \in closed
                           \/ \E s \in Requests : At(s, "delete", "lock")' /\ req'[s].agent = b
    <3>1. ~At(r, "delete", "lock") BY <1>1 DEF At
    <3> QED BY <1>9, <3>1 DEF IInv, Removed, At
  <2>3. \A s \in Requests : req'[s].op = "delete" /\ req'[s].at \in {"lock", "settle"} =>
           req'[s].agent \notin Registered
    BY <1>3, <1>9 DEF IInv, Removed
  <2> QED BY <1>1, <2>1, <2>2, <2>3 DEF IInv, Removed
<1>11. Emptied' BY <1>1, <1>3, <1>9 DEF IInv, Emptied, At
<1>12. Stored' BY <1>1, <1>4 DEF IInv, Stored
<1>13. ~Busy(a)
  <2>1. queue[a] = {} /\ active[a] \in {None, req[r].waits}
    BY <1>0, <1>1 DEF IInv, Emptied, At
  <2>2. active[a] # None => turn[active[a]] = "running" BY <1>2 DEF IInv, Accepted
  <2>3. active[a] = None BY <1>1, <2>1, <2>2 DEF Settled, Terminal
  <2> QED BY <2>1, <2>3 DEF Busy
<1>14. DeletedIsGone'
  <2>1. \A b \in Agents : /\ b # a => (Deleting(b) => Deleting(b)')
                          /\ CloseRaised(b) => CloseRaised(b)'
    BY <1>0, <1>1, <1>9 DEF Deleting, CloseRaised, At
  <2>2. Created' = Created /\ Registered' = Registered /\ Created \subseteq Agents
    BY <1>1 DEF Created, Registered
  <2>3. \A j \in Ids : \A t \in stored[j] : turnOf[t] \in Agents
    BY Typed, NoneApart DEF IInv, Stored, Accepted
  <2>4. \A b \in Created : Busy(b)' => b \in Registered \/ Deleting(b)'
    BY <1>1, <1>13, <2>1, <2>2 DEF IInv, DeletedIsGone, Busy
  <2>5. \A j \in Ids : \A t \in stored'[j] :
           turnOf[t] \in Registered \/ Deleting(turnOf[t])' \/ CloseRaised(turnOf[t])'
    <3> SUFFICES ASSUME NEW j \in Ids, NEW t \in stored'[j]
                 PROVE  \/ turnOf[t] \in Registered \/ Deleting(turnOf[t])'
                        \/ CloseRaised(turnOf[t])'
      OBVIOUS
    <3>1. t \in stored[j] /\ turnOf[t] \in Agents /\ idOf[turnOf[t]] = j
      BY <1>4, <2>3 DEF IInv, Stored
    <3>2. turnOf[t] \in Registered \/ Deleting(turnOf[t]) \/ CloseRaised(turnOf[t])
      BY <3>1 DEF IInv, DeletedIsGone
    <3>3. CASE turnOf[t] # a BY <1>1, <2>1, <3>1, <3>2, <3>3
    <3>4. CASE turnOf[t] = a
      <4>1. j = req[r].id BY <1>2, <3>1, <3>4
      <4>2. req'[r].at = "500" BY <1>3, <4>1, Typed DEF IInv
      <4>3. CloseRaised(a)' BY <1>3, <4>2 DEF CloseRaised, At
      <4> QED BY <1>1, <3>4, <4>3
    <3> QED BY <3>3, <3>4
  <2> QED BY <1>1, <2>2, <2>4, <2>5 DEF DeletedIsGone
<1> QED BY <1>5, <1>6, <1>7, <1>8, <1>10, <1>11, <1>12, <1>14 DEF IInv

-----------------------------------------------------------------------------
(* The invariant is kept: turns run                                        *)

(* A queued turn starts, and its agent is shown as running. *)
LEMMA StartKeeps ==
    ASSUME IInv, NEW a \in Agents, TurnStart(a)
    PROVE  IInv'
<1>1. PICK t \in queue[a] :
         /\ active[a] = None
         /\ active' = [active EXCEPT ![a] = t]
         /\ queue' = [queue EXCEPT ![a] = @ \ {t}]
         /\ turn' = [turn EXCEPT ![t] = "running"]
         /\ running' = [running EXCEPT ![a] = "busy"]
         /\ shown' = [shown EXCEPT ![a] = "busy"]
         /\ UNCHANGED <<registry, manager, idOf, lifecycle, closed, count, turnOf, stored, req>>
  BY DEF TurnStart
<1>2. /\ t \in Requests /\ turn[t] = "queued" /\ turnOf[t] = a /\ a \notin closed /\ t # None
  BY <1>1, Typed, NoneApart DEF IInv, Accepted, Emptied
<1>3. /\ active' \in [Agents -> Requests \cup {None}] /\ active'[a] = t
      /\ \A b \in Agents : b # a => active'[b] = active[b]
      /\ queue' \in [Agents -> SUBSET Requests] /\ queue'[a] = queue[a] \ {t}
      /\ \A b \in Agents : b # a => queue'[b] = queue[b]
  BY <1>1, <1>2, Typed DEF IInv
<1>4. /\ turn' \in [Requests -> {"absent", "queued", "running"} \cup Terminal]
      /\ turn'[t] = "running" /\ \A u \in Requests : u # t => turn'[u] = turn[u]
  BY <1>1, <1>2, Typed DEF IInv
<1>5. Types'
  <2>1. /\ running' \in [Agents -> {"idle", "busy", "cancelled", "error", "closed"}]
        /\ shown' \in [Agents -> {"idle", "busy", "cancelled", "error"}]
    BY <1>1 DEF IInv, Types, TypeOK
  <2> QED BY <1>1, <1>3, <1>4, <2>1 DEF IInv, Types, TypeOK
<1>6. Known' BY <1>1 DEF IInv, Known
<1>7. Accepted'
  <2>1. (\A b \in Agents : active[b] # None =>
            turnOf[active[b]] = b /\ turn[active[b]] = "running")'
    <3>1. \A b \in Agents : b # a /\ active[b] # None => active[b] \in Requests /\ active[b] # t
      BY <1>2, Typed DEF IInv, Accepted
    <3> QED BY <1>1, <1>2, <1>3, <1>4, <3>1 DEF IInv, Accepted
  <2>2. (\A b \in Agents : \A u \in queue[b] : turnOf[u] = b /\ turn[u] = "queued")'
    <3>1. \A b \in Agents : queue[b] \subseteq Requests BY Typed DEF IInv
    <3>2. \A b \in Agents : \A u \in queue'[b] : u \in queue[b] /\ u # t /\ u \in Requests
      BY <1>2, <1>3, <3>1 DEF IInv, Accepted
    <3> QED BY <1>1, <1>4, <3>2 DEF IInv, Accepted
  <2>3. \A u \in Requests : turn'[u] = "absent" <=> turn[u] = "absent" BY <1>2, <1>4
  <2> QED BY <1>1, <2>1, <2>2, <2>3 DEF IInv, Accepted
<1>8. Statuses'
  <2>1. \A b \in Agents : b # a => shown'[b] = shown[b] /\ running'[b] = running[b]
    BY <1>1 DEF IInv, Types, TypeOK
  <2>2. running'[a] = "busy" BY <1>1 DEF IInv, Types, TypeOK
  <2> QED BY <1>1, <1>2, <1>3, <2>1, <2>2 DEF IInv, Statuses, Busy
<1>9. CountsInv'
  <2>1. \A b \in Agents : CompletedOf(b)' = CompletedOf(b)
    BY <1>1, <1>2, <1>4 DEF CompletedOf
  <2> QED BY <1>1, <2>1 DEF IInv, CountsInv
<1>10. Removed' BY <1>1 DEF IInv, Removed, At, Created, Registered
<1>11. Emptied'
  <2>1. \A s \in Requests : At(s, "delete", "settle") => req[s].agent # a
    BY <1>2 DEF IInv, Emptied
  <2>2. \A s \in Requests : At(s, "delete", "settle") => req[s].agent \in Agents
    BY Typed DEF IInv, Emptied
  <2>3. \A b \in closed : b # a /\ b \in Agents BY <1>2, Typed DEF IInv
  <2> QED BY <1>1, <1>3, <2>1, <2>2, <2>3 DEF IInv, Emptied, At
<1>12. Stored' BY <1>1, <1>2, <1>4, Typed DEF IInv, Stored
<1>13. DeletedIsGone'
  <2>1. \A b \in Agents : Busy(b)' => Busy(b) BY <1>1, <1>3 DEF Busy
  <2>2. \A b \in Agents : /\ Deleting(b)' <=> Deleting(b)
                          /\ CloseRaised(b)' <=> CloseRaised(b)
    BY <1>1 DEF Deleting, CloseRaised, At
  <2>3. Created' = Created /\ Registered' = Registered /\ Created \subseteq Agents
    BY <1>1 DEF Created, Registered
  <2>4. \A j \in Ids : \A u \in stored[j] : turnOf[u] \in Agents
    BY Typed, NoneApart DEF IInv, Stored, Accepted
  <2>5. \A b \in Created : Busy(b)' => b \in Registered \/ Deleting(b)'
    BY <2>1, <2>2, <2>3 DEF IInv, DeletedIsGone
  <2>6. \A j \in Ids : \A u \in stored[j] :
           turnOf[u] \in Registered \/ Deleting(turnOf[u])' \/ CloseRaised(turnOf[u])'
    BY <1>1, <2>2, <2>4 DEF IInv, DeletedIsGone
  <2> QED BY <1>1, <2>3, <2>5, <2>6 DEF DeletedIsGone
<1> QED BY <1>5, <1>6, <1>7, <1>8, <1>9, <1>10, <1>11, <1>12, <1>13 DEF IInv

(* How the end of a turn shows: by the next turn, or by how it ended.      *)
LEMMA EndShows ==
    ASSUME NEW a, NEW end \in Terminal
    PROVE  /\ ShownAfter(PendingBeside(a, {}), end) \in {"idle", "cancelled", "error"}
           /\ RunningAfter(a, end) \in {"idle", "cancelled", "error", "closed"}
           /\ RunningAfter(a, end) = "closed" => a \in closed
<1>1. end = "completed" \/ end = "cancelled" \/ end = "failed" BY DEF Terminal
<1> QED BY <1>1 DEF ShownAfter, PendingBeside, RunningAfter

(* A turn ends: it is stored and counted if it completed. *)
LEMMA EndKeeps ==
    ASSUME IInv, NEW a \in Agents, TurnEnd(a)
    PROVE  IInv'
<1>1. PICK end \in Terminal, t \in Requests :
         /\ active[a] = t
         /\ count' = [count EXCEPT ![a] = @ + Counts(end)]
         /\ stored' = IF end = "completed"
                      THEN [stored EXCEPT ![idOf[a]] = @ \cup {t}] ELSE stored
         /\ \/ /\ queue[a] = {}
               /\ active' = [active EXCEPT ![a] = None]
               /\ turn' = [turn EXCEPT ![t] = end]
               /\ shown' = [shown EXCEPT ![a] = ShownAfter(PendingBeside(a, queue[a]), end)]
               /\ running' = [running EXCEPT ![a] = RunningAfter(a, end)]
               /\ UNCHANGED queue
            \/ \E n \in queue[a] :
                 /\ active' = [active EXCEPT ![a] = n]
                 /\ queue' = [queue EXCEPT ![a] = @ \ {n}]
                 /\ turn' = [turn EXCEPT ![t] = end, ![n] = "running"]
                 /\ shown' = [shown EXCEPT ![a] = "busy"]
                 /\ running' = [running EXCEPT ![a] = "busy"]
  BY DEF TurnEnd
<1>2. UNCHANGED <<registry, manager, idOf, lifecycle, closed, turnOf, req>> BY DEF TurnEnd
<1>3. /\ turn[t] = "running" /\ turnOf[t] = a /\ t # None /\ idOf[a] \in Ids
      /\ \A u \in queue[a] : u \in Requests /\ turn[u] = "queued" /\ u # None
  <2>1. t # None BY NoneApart
  <2>2. turn[t] = "running" /\ turnOf[t] = a BY <1>1, <2>1 DEF IInv, Accepted
  <2>3. idOf[a] \in Ids BY <2>2, Typed, NoneApart DEF IInv, Accepted
  <2>4. \A u \in queue[a] : u \in Requests /\ turn[u] = "queued" /\ u # None
    BY Typed, NoneApart DEF IInv, Accepted
  <2> QED BY <2>1, <2>2, <2>3, <2>4
(* What the two ways to go on have in common.                              *)
<1>4. /\ active' \in [Agents -> Requests \cup {None}]
      /\ queue' \in [Agents -> SUBSET Requests]
      /\ turn' \in [Requests -> {"absent", "queued", "running"} \cup Terminal]
      /\ \A b \in Agents : b # a => active'[b] = active[b] /\ queue'[b] = queue[b]
      /\ queue'[a] \subseteq queue[a] /\ turn'[t] = end
      /\ \A u \in Requests : u # t /\ u # active'[a] => turn'[u] = turn[u]
      /\ \/ active'[a] = None /\ queue[a] = {}
         \/ /\ active'[a] \in queue[a] /\ active'[a] \notin queue'[a]
            /\ turn'[active'[a]] = "running"
  <2>1. CASE /\ queue[a] = {}
             /\ active' = [active EXCEPT ![a] = None]
             /\ turn' = [turn EXCEPT ![t] = end] /\ UNCHANGED queue
    <3>1. /\ active' \in [Agents -> Requests \cup {None}] /\ active'[a] = None
          /\ \A b \in Agents : b # a => active'[b] = active[b]
      BY <2>1, Typed DEF IInv
    <3>2. /\ turn' \in [Requests -> {"absent", "queued", "running"} \cup Terminal]
          /\ turn'[t] = end /\ \A u \in Requests : u # t => turn'[u] = turn[u]
      BY <2>1, Typed DEF IInv
    <3> QED BY <2>1, <3>1, <3>2, Typed DEF IInv
  <2>2. CASE \E n \in queue[a] : /\ active' = [active EXCEPT ![a] = n]
                               /\ queue' = [queue EXCEPT ![a] = @ \ {n}]
                               /\ turn' = [turn EXCEPT ![t] = end, ![n] = "running"]
    <3>1. PICK n \in queue[a] : /\ active' = [active EXCEPT ![a] = n]
                               /\ queue' = [queue EXCEPT ![a] = @ \ {n}]
                               /\ turn' = [turn EXCEPT ![t] = end, ![n] = "running"]
      BY <2>2
    <3>2. n \in Requests /\ n # t BY <1>3, <3>1
    <3>3. /\ active' \in [Agents -> Requests \cup {None}] /\ active'[a] = n
          /\ \A b \in Agents : b # a => active'[b] = active[b]
      BY <3>1, <3>2, Typed DEF IInv
    <3>4. /\ queue' \in [Agents -> SUBSET Requests] /\ queue'[a] = queue[a] \ {n}
          /\ \A b \in Agents : b # a => queue'[b] = queue[b]
      BY <3>1, Typed DEF IInv
    <3>5. /\ turn' \in [Requests -> {"absent", "queued", "running"} \cup Terminal]
          /\ turn'[t] = end /\ turn'[n] = "running"
          /\ \A u \in Requests : u # t /\ u # n => turn'[u] = turn[u]
      BY <3>1, <3>2, Typed DEF IInv
    <3> QED BY <3>1, <3>3, <3>4, <3>5
  <2> QED BY <1>1, <2>1, <2>2
<1>5. /\ running' \in [Agents -> {"idle", "busy", "cancelled", "error", "closed"}]
      /\ shown' \in [Agents -> {"idle", "busy", "cancelled", "error"}]
      /\ \A b \in Agents : b # a => running'[b] = running[b] /\ shown'[b] = shown[b]
      /\ running'[a] = "busy" \/ shown'[a] = "busy" => active'[a] # None
      /\ running'[a] = "closed" => a \in closed
  <2>1. CASE /\ queue[a] = {}
             /\ shown' = [shown EXCEPT ![a] = ShownAfter(PendingBeside(a, queue[a]), end)]
             /\ running' = [running EXCEPT ![a] = RunningAfter(a, end)]
    <3>1. PICK s \in {"idle", "cancelled", "error"} :
                   s = ShownAfter(PendingBeside(a, queue[a]), end)
      BY <2>1, EndShows
    <3>2. PICK k \in {"idle", "cancelled", "error", "closed"} :
             k = RunningAfter(a, end) /\ (k = "closed" => a \in closed)
      BY EndShows
    <3> QED BY <2>1, <3>1, <3>2 DEF IInv, Types, TypeOK
  <2>2. CASE /\ shown' = [shown EXCEPT ![a] = "busy"] /\ running' = [running EXCEPT ![a] = "busy"]
             /\ active'[a] # None
    BY <2>2 DEF IInv, Types, TypeOK
  <2>3. queue[a] # {} => active'[a] # None BY <1>3, <1>4
  <2> QED BY <1>1, <2>1, <2>2, <2>3
<1>6. /\ stored' \in [Ids -> SUBSET Requests]
      /\ \A j \in Ids : \A u \in stored'[j] :
            u \in stored[j] \/ (u = t /\ j = idOf[a] /\ end = "completed")
  BY <1>1, <1>3, Typed DEF IInv
<1>7. count' \in [Agents -> Nat] /\ count'[a] = count[a] + Counts(end)
      /\ \A b \in Agents : b # a => count'[b] = count[b]
  <2>1. Counts(end) \in Nat BY DEF Counts
  <2> QED BY <1>1, <2>1, Typed DEF IInv
<1>8. Types' BY <1>2, <1>4, <1>5, <1>6, <1>7 DEF IInv, Types, TypeOK
<1>9. Known' BY <1>2 DEF IInv, Known
<1>10. end # "absent" /\ end # "queued" /\ end # "running" BY DEF Terminal
<1>11. /\ \A u \in Requests : u # t => \/ turn'[u] = turn[u]
                                      \/ /\ u = active'[a]
                                         /\ turn[u] = "queued" /\ turn'[u] = "running"
       /\ \A u \in Requests : turn'[u] = "absent" <=> turn[u] = "absent"
  <2>1. \A u \in Requests : u = active'[a] => turn[u] = "queued" /\ turn'[u] = "running"
    BY <1>3, <1>4, NoneApart
  <2>2. \A u \in Requests : u # t => \/ turn'[u] = turn[u]
                                    \/ /\ u = active'[a]
                                       /\ turn[u] = "queued" /\ turn'[u] = "running"
    BY <1>4, <2>1
  <2>3. \A u \in Requests : turn'[u] = "absent" <=> turn[u] = "absent"
    BY <1>3, <1>4, <1>10, <2>2
  <2> QED BY <2>2, <2>3
<1>12. Accepted'
  <2>1. (\A b \in Agents : active[b] # None =>
            turnOf[active[b]] = b /\ turn[active[b]] = "running")'
    <3>1. ASSUME NEW b \in Agents, b # a, active[b] # None
          PROVE  turnOf[active[b]] = b /\ turn'[active[b]] = "running"
      <4>1. active[b] \in Requests /\ turnOf[active[b]] = b /\ turn[active[b]] = "running"
        BY <3>1, Typed DEF IInv, Accepted
      <4>2. active[b] # t BY <1>3, <3>1, <4>1
      <4>3. turn'[active[b]] = turn[active[b]] BY <1>11, <4>1, <4>2
      <4> QED BY <4>1, <4>3
    <3>2. active'[a] # None => turnOf[active'[a]] = a /\ turn'[active'[a]] = "running"
      BY <1>4 DEF IInv, Accepted
    <3> QED BY <1>2, <1>4, <3>1, <3>2
  <2>2. (\A b \in Agents : \A u \in queue[b] : turnOf[u] = b /\ turn[u] = "queued")'
    <3>1. ASSUME NEW b \in Agents, NEW u \in queue'[b]
          PROVE  turnOf[u] = b /\ turn'[u] = "queued"
      <4>1. u \in queue[b] /\ u \in Requests BY <1>4, <3>1, Typed DEF IInv
      <4>2. turnOf[u] = b /\ turn[u] = "queued" BY <4>1 DEF IInv, Accepted
      <4>3. u # t BY <1>3, <4>2
      <4>4. u # active'[a]
        <5>1. CASE b = a BY <1>4, <3>1, <4>1, <5>1, NoneApart
        <5>2. CASE b # a
          <6>1. \A v \in queue[a] : turnOf[v] = a BY DEF IInv, Accepted
          <6> QED BY <1>4, <4>1, <4>2, <5>2, <6>1, NoneApart
        <5> QED BY <5>1, <5>2
      <4> QED BY <1>11, <4>1, <4>2, <4>3, <4>4
    <3> QED BY <1>2, <3>1
  <2> QED BY <1>2, <1>11, <2>1, <2>2 DEF IInv, Accepted
<1>13. Statuses'
  <2>1. shown'[a] = "busy" => Busy(a)' BY <1>5 DEF Busy
  <2> QED BY <1>2, <1>4, <1>5, <2>1 DEF IInv, Statuses, Busy
<1>14. \A u \in Requests : u # t => (turn'[u] = "completed" <=> turn[u] = "completed")
  BY <1>11
<1>15. CountsInv'
  <2>1. \A b \in Agents : b # a => CompletedOf(b)' = CompletedOf(b)
    BY <1>2, <1>3, <1>14 DEF CompletedOf
  <2>2. t \notin CompletedOf(a) BY <1>3 DEF CompletedOf
  <2>3. CASE end = "completed"
    <3>1. CompletedOf(a)' = CompletedOf(a) \cup {t}
      BY <1>2, <1>3, <1>4, <1>14, <2>3 DEF CompletedOf
    <3>2. IsFiniteSet(CompletedOf(a)) /\ count[a] = Cardinality(CompletedOf(a)) /\ count[a] \in Nat
      BY Typed DEF IInv, CountsInv
    <3>3. /\ IsFiniteSet(CompletedOf(a) \cup {t})
          /\ Cardinality(CompletedOf(a) \cup {t}) = Cardinality(CompletedOf(a)) + 1
      BY <2>2, <3>2, FS_AddElement
    <3>4. count'[a] = count[a] + 1 BY <1>7, <2>3 DEF Counts
    <3> QED BY <1>7, <2>1, <3>1, <3>2, <3>3, <3>4 DEF IInv, CountsInv
  <2>4. CASE end # "completed"
    <3>1. CompletedOf(a)' = CompletedOf(a)
      BY <1>2, <1>3, <1>4, <1>14, <2>4 DEF CompletedOf
    <3>2. count'[a] = count[a] BY <1>7, <2>4, Typed DEF Counts, IInv
    <3> QED BY <1>7, <2>1, <3>1, <3>2 DEF IInv, CountsInv
  <2> QED BY <2>3, <2>4
<1>16. Removed' BY <1>2 DEF IInv, Removed, At, Created, Registered
<1>17. Emptied'
  <2>1. \A b \in closed : b \in Agents /\ queue[b] = {} BY Typed DEF IInv, Emptied
  <2>2. \A b \in closed : queue'[b] = {} BY <1>4, <2>1
  <2>3. \A b \in closed : active'[b] \in {None, active[b]} BY <1>4, <2>1
  <2> QED BY <1>2, <2>2, <2>3 DEF IInv, Emptied, At
<1>18. Stored'
  <2>1. ASSUME NEW j \in Ids, NEW u \in stored'[j]
        PROVE  turn'[u] = "completed" /\ idOf[turnOf[u]] = j
    <3>1. CASE u \in stored[j]
      <4>1. u \in Requests /\ turn[u] = "completed" /\ idOf[turnOf[u]] = j
        BY <3>1, Typed DEF IInv, Stored
      <4>2. u # t BY <1>3, <4>1
      <4> QED BY <1>14, <4>1, <4>2
    <3>2. CASE u = t /\ j = idOf[a] /\ end = "completed" BY <1>3, <1>4, <3>2
    <3> QED BY <1>6, <2>1, <3>1, <3>2
  <2> QED BY <1>2, <2>1 DEF Stored
<1>19. DeletedIsGone'
  <2>1. \A b \in Agents : Busy(b)' => Busy(b)
    <3>1. Busy(a) BY <1>1, <1>3 DEF Busy
    <3>2. \A b \in Agents : b # a => (Busy(b)' <=> Busy(b)) BY <1>4 DEF Busy
    <3> QED BY <3>1, <3>2
  <2>2. \A b \in Agents : /\ Deleting(b)' <=> Deleting(b)
                          /\ CloseRaised(b)' <=> CloseRaised(b)
    BY <1>2 DEF Deleting, CloseRaised, At
  <2>3. Created' = Created /\ Registered' = Registered /\ Created \subseteq Agents
    BY <1>2 DEF Created, Registered
  <2>4. \A b \in Created : Busy(b)' => b \in Registered \/ Deleting(b)'
    BY <2>1, <2>2, <2>3 DEF IInv, DeletedIsGone
  <2>5. ASSUME NEW j \in Ids, NEW u \in stored'[j]
        PROVE  turnOf[u] \in Registered \/ Deleting(turnOf[u])' \/ CloseRaised(turnOf[u])'
    <3>1. CASE u \in stored[j]
      <4>1. turnOf[u] \in Agents
        BY <3>1, Typed, NoneApart DEF IInv, Stored, Accepted
      <4>2. turnOf[u] \in Registered \/ Deleting(turnOf[u]) \/ CloseRaised(turnOf[u])
        BY <3>1 DEF IInv, DeletedIsGone
      <4> QED BY <1>2, <2>2, <4>1, <4>2
    <3>2. CASE u = t
      <4>1. a \in Created /\ Busy(a) BY <1>1, <1>3, NoneApart DEF Busy, Created
      <4>2. a \in Registered \/ Deleting(a) BY <4>1 DEF IInv, DeletedIsGone
      <4> QED BY <1>2, <1>3, <2>2, <3>2, <4>2
    <3> QED BY <1>6, <2>5, <3>1, <3>2
  <2> QED BY <1>2, <2>3, <2>4, <2>5 DEF DeletedIsGone
<1> QED
  BY <1>8, <1>9, <1>12, <1>13, <1>15, <1>16, <1>17, <1>18, <1>19 DEF IInv

-----------------------------------------------------------------------------
(* Every step keeps the invariant                                          *)

(* Nothing changes. *)
LEMMA StutterKeeps ==
    ASSUME IInv, UNCHANGED vars
    PROVE  IInv'
<1>1. Types' BY DEF IInv, Types, TypeOK, vars, agents, turns
<1>2. Known' /\ Accepted' /\ Statuses' /\ CountsInv' /\ Stored'
  BY DEF IInv, Known, Accepted, Statuses, Busy, CountsInv, CompletedOf, Stored, vars, agents,
     turns
<1>3. Removed' /\ Emptied'
  BY DEF IInv, Removed, Emptied, At, Created, Registered, vars, agents, turns
<1>4. DeletedIsGone'
  BY DEF IInv, DeletedIsGone, Deleting, CloseRaised, At, Created, Registered, Busy, vars,
     agents,
     turns
<1> QED BY <1>1, <1>2, <1>3, <1>4 DEF IInv

(* Every step keeps the invariant. *)
LEMMA NextKeeps ==
    ASSUME IInv, [Next]_vars
    PROVE  IInv'
<1>1. ASSUME NEW r \in Requests, Step(r) PROVE IInv'
  <2>1. CASE CreateSession(r) BY <2>1, CreateKeeps
  <2>2. CASE ListSessions(r) BY <2>2, ListKeeps
  <2>3. CASE Decide(r) BY <2>3, DecideKeeps
  <2>4. CASE Announced(r) \/ TurnAnswered(r) BY <2>4, AnnouncedKeeps
  <2>5. CASE SubmitPrompt(r) \/ LockRequest(r) BY <2>5, LookupKeeps
  <2>6. CASE SubmitTurn(r) BY <2>6, SubmitKeeps
  <2>7. CASE CancelLocked(r) BY <2>7, CancelKeeps
  <2>8. CASE ClearLocked(r) BY <2>8, ClearKeeps
  <2>9. CASE DeleteBegin(r) BY <2>9, DeleteBeginKeeps
  <2>10. CASE DeleteLocked(r) BY <2>10, DeleteLockedKeeps
  <2>11. CASE CancelSettled(r) BY <2>11, CancelSettledKeeps
  <2>12. CASE ClearSettled(r) BY <2>12, ClearSettledKeeps
  <2>13. CASE DeleteSettled(r) BY <2>13, DeleteSettledKeeps
  <2> QED
    BY <1>1, <2>1, <2>2, <2>3, <2>4, <2>5, <2>6, <2>7, <2>8, <2>9, <2>10, <2>11, <2>12, <2>13
       DEF Step
<1>2. ASSUME NEW a \in Agents, TurnStart(a) \/ TurnEnd(a) PROVE IInv'
  BY <1>2, StartKeeps, EndKeeps
<1>3. ASSUME NEW r \in Requests, Arrive(r) \/ Aborted(r) PROVE IInv'
  BY <1>3, ArriveKeeps, AnnouncedKeeps
<1>4. CASE UNCHANGED vars BY <1>4, StutterKeeps
<1> QED BY <1>1, <1>2, <1>3, <1>4 DEF Next, Progress

(* At first there is no session and no request.                            *)
LEMMA InitHolds == Init => IInv
<1> SUFFICES ASSUME Init PROVE IInv OBVIOUS
<1>1. \A r \in Requests : /\ req[r].op = "none" /\ req[r].at = "idle"
                          /\ turn[r] = "absent" /\ turnOf[r] = None
  BY DEF Init
<1>2. \A a \in Agents : /\ idOf[a] = None /\ active[a] = None /\ queue[a] = {} /\ count[a] = 0
                        /\ running[a] = "idle" /\ shown[a] = "idle"
  BY DEF Init
<1>3. Types
  <2>1. req \in [Requests -> RequestType] BY DEF Init, RequestType
  <2>2. TypeOK BY DEF Init, TypeOK
  <2> QED BY <2>1, <2>2 DEF Types
<1>4. Known BY <1>1 DEF Init, Known
<1>5. Accepted BY <1>1, <1>2 DEF Accepted
<1>6. Statuses BY <1>2 DEF Statuses
<1>7. CountsInv
  <2>1. \A a \in Agents : CompletedOf(a) = {} BY <1>1 DEF CompletedOf
  <2> QED BY <1>2, <2>1, FS_EmptySet DEF CountsInv
<1>8. Created = {} /\ closed = {} BY <1>2 DEF Created, Init
<1>9. Removed BY <1>1, <1>8 DEF Removed
<1>10. Emptied BY <1>1, <1>8 DEF Emptied, At
<1>11. \A i \in Ids : stored[i] = {} BY DEF Init
<1>12. Stored BY <1>11 DEF Stored
<1>13. DeletedIsGone BY <1>8, <1>11 DEF DeletedIsGone
<1> QED BY <1>3, <1>4, <1>5, <1>6, <1>7, <1>9, <1>10, <1>12, <1>13 DEF IInv

-----------------------------------------------------------------------------
(* Theorems *)

(* The invariant holds of every behaviour.                                 *)
THEOREM Invariance == Spec => []IInv
<1>1. Init => IInv BY InitHolds
<1>2. IInv /\ [Next]_vars => IInv' BY NextKeeps
<1> QED BY <1>1, <1>2, PTL DEF Spec

(* The state has its type (SessionManager, ManagedSession).                *)
THEOREM TypeCorrect == Spec => []TypeOK
<1>1. IInv => TypeOK BY DEF IInv, Types
<1> QED BY <1>1, Invariance, PTL

(* What clients are shown of a session is so: busy only while it is, and   *)
(* the number of turns it completed (_on_turn_event, _project_completion). *)
THEOREM ProjectsExactly == Spec => []ProjectionIsExact
<1>1. IInv => ProjectionIsExact
  <2>1. \A a \in Created : a \in Agents BY DEF Created
  <2> QED BY <2>1 DEF IInv, Statuses, CountsInv, CompletedOf, ProjectionIsExact
<1> QED BY <1>1, Invariance, PTL

(* A deleted session runs nothing and leaves nothing (delete_session).     *)
THEOREM DeletesForGood == Spec => []DeletedIsGone
<1>1. IInv => DeletedIsGone BY DEF IInv
<1> QED BY <1>1, Invariance, PTL

(* Together: what the run of the sessions checks.                          *)
THEOREM SessionsSound == Spec => []SessionsAreSound
<1>1. TypeOK /\ ProjectionIsExact /\ DeletedIsGone => SessionsAreSound BY DEF SessionsAreSound
<1> QED BY <1>1, TypeCorrect, ProjectsExactly, DeletesForGood, PTL

=============================================================================
