----------------------------- MODULE TelegramChat -----------------------------
(***************************************************************************)
(* One chat of the Telegram bot (telegram/bot.py, handlers.SessionManager) *)
(* A boundary lock per chat orders what changes the current session; the   *)
(* listing of sessions and the end of the bot go without it.  Every prompt *)
(* has a delivery task, which waits for the turn and shows its outcome as  *)
(* long as its session is the current one and has not been left since.     *)
(***************************************************************************)
EXTENDS Naturals, FiniteSets, FiniteSetsExt

CONSTANTS
    Prompts,      \* prompts sent to the chat: numbers, as they arrive
    Updates,      \* updates handled at the same time: other numbers
    Others,       \* the memory loop and who stops the bot: other numbers
    MaxSessions,  \* bound: sessions of the chat
    MaxCommands,  \* bound: commands, prompts not counted
    MaxTrouble,   \* bound: calls to Telegram that fail, and expiries
    QueueSize,    \* max_queue_size
    Chunks        \* messages a long answer takes

ASSUME ChatAssumption ==
    /\ Prompts \cup Updates \cup Others \subseteq Nat \ {0}
    /\ Prompts \cap (Updates \cup Others) = {}
    /\ {MaxSessions, QueueSize, Chunks} \subseteq Nat \ {0}
    /\ {MaxCommands, MaxTrouble} \subseteq Nat

Free == 0  \* nobody
Handlers == Updates \cup Others

VARIABLES
    sess,      \* _sessions, and the agents of those that are not there any more
    current,   \* _current_sessions, 0 for none
    boundary,  \* holder of the chat's lock
    handler,   \* what each handler is doing
    turn,      \* the turn of each prompt
    delivery,  \* the delivery task of each prompt
    shown,     \* what the chat shows for each prompt
    typing,    \* the indicator: the lock all chats share, requests, the loop
    streaming, \* streaming_enabled
    left,      \* history: prompts whose session was left or expired since
    lost,      \* history: prompts Telegram refused an answer to
    ops, trouble

chatVars == <<sess, current, boundary, handler, turn, delivery, shown, typing,
              streaming, left, lost, ops, trouble>>

(* Bound: with streaming, trouble takes the place of a command.            *)
Room == streaming => ops + trouble < MaxCommands

SessionIds == 1..MaxSessions
Unmade == [made |-> FALSE, listed |-> FALSE, closed |-> FALSE, gen |-> 0, stale |-> FALSE]
Resting == [pc |-> "idle", op |-> "none", s |-> 0, p |-> Free, ends |-> {}]

ChatInit ==
    /\ sess = [s \in SessionIds |-> Unmade] /\ current = 0
    /\ boundary = Free /\ handler = [h \in Handlers |-> Resting]
    /\ turn = [p \in Prompts |-> [s |-> 0, st |-> "none", kill |-> FALSE]]
    /\ delivery = [p \in Prompts |-> [pc |-> "none", gen |-> 0, cut |-> FALSE]]
    /\ shown = [p \in Prompts |-> "none"]
    /\ typing = [lock |-> Free, count |-> 0, on |-> FALSE]
    /\ streaming \in BOOLEAN
    /\ left = {} /\ lost = {} /\ ops = 0 /\ trouble = 0

-----------------------------------------------------------------------------
(* Sessions and their turns *)

Open(p) == turn[p].st \in {"queued", "running"}
TurnsOf(S) == {p \in Prompts : turn[p].s \in S}
Quiet(S) == \A p \in TurnsOf(S) : ~Open(p)
Busy(s) == \E p \in TurnsOf({s}) : Open(p)
Queued(s) == {p \in TurnsOf({s}) : turn[p].st = "queued"}

(* Agent.cancel: what is queued ends, what runs is told to.                *)
Killed(P) == [p \in Prompts |->
    IF p \in P /\ turn[p].st = "queued" THEN [turn[p] EXCEPT !.st = "cancelled"]
    ELSE IF p \in P /\ turn[p].st = "running" THEN [turn[p] EXCEPT !.kill = TRUE]
    ELSE turn[p]]

(* A delivery task is cancelled. *)
Cut(P) == [p \in Prompts |->
    IF p \in P /\ delivery[p].pc \notin {"none", "over"}
    THEN [delivery[p] EXCEPT !.cut = TRUE] ELSE delivery[p]]

(* get_current_session: the current one, when it is still there.           *)
Here == IF current # 0 /\ sess[current].listed THEN current ELSE 0

(* Sessions whose timeout has passed since their last prompt.             *)
Expired == {s \in SessionIds : sess[s].listed /\ sess[s].stale}

Unused == {s \in SessionIds : ~sess[s].made}
Made == [Unmade EXCEPT !.made = TRUE, !.listed = TRUE]

-----------------------------------------------------------------------------
(* Handlers *)

Commands == {"new", "switch", "cancel", "stop_button", "reset", "look", "shutdown"}

(* An update arrives.  The lookup of a session to switch to and of a turn  *)
(* to stop is done under the lock.                                         *)
Arrives(h) ==
    /\ handler[h].pc = "idle"
    /\ \/ h \in Updates /\ \E p \in Prompts :
            /\ turn[p].st = "none" /\ shown[p] = "none"
            /\ \A g \in Handlers : handler[g].p # p
            /\ \A q \in Prompts : q < p => shown[q] # "none" \/ turn[q].st # "none"
            /\ handler' = [handler EXCEPT ![h] = [Resting EXCEPT !.pc = "lock", !.op = "prompt", !.p = p]]
            /\ UNCHANGED ops
       \/ /\ ops < MaxCommands /\ Room /\ ops' = ops + 1
          /\ \E op \in Commands : \E s \in SessionIds : \E p \in Prompts :
               /\ h \in Others => op \in {"look", "shutdown"}
               /\ op # "switch" => s = 1
               /\ op # "stop_button" => p = Min(Prompts)
               /\ op = "look" => Expired # {}
               /\ op = "switch" => sess[s].made
               /\ op = "stop_button" => turn[p].s # 0
               /\ handler' = [handler EXCEPT ![h] =
                    [Resting EXCEPT !.pc = CASE op = "look" -> "prune" [] op = "shutdown" -> "close_all"
                                             [] OTHER -> "lock",
                                 !.op = op,
                                 !.s = IF op = "switch" THEN s ELSE 0,
                                 !.p = IF op = "stop_button" THEN p ELSE Free]]
    /\ UNCHANGED <<sess, current, boundary, turn, delivery, shown, typing, streaming, left, lost, trouble>>

Goto(h, pc) == handler' = [handler EXCEPT ![h].pc = pc]
Return(h) ==
    /\ handler' = [handler EXCEPT ![h] = Resting]
    /\ boundary' = IF boundary = h THEN Free ELSE boundary

TakeLock(h) ==
    /\ handler[h].pc = "lock" /\ boundary = Free
    /\ boundary' = h
    /\ Goto(h, CASE handler[h].op \in {"prompt", "reset"} -> "prune"
                 [] handler[h].op \in {"new", "switch"} -> "abandon"
                 [] OTHER -> "cancel")
    /\ UNCHANGED <<sess, current, turn, delivery, shown, typing, streaming, left, lost, ops, trouble>>

(* Sessions that are not to be used any more: their deliveries are cut and *)
(* their agents closed, which the caller waits for.                        *)
Closes(h, S) ==
    /\ sess' = [s \in SessionIds |-> IF s \in S
                  THEN [sess[s] EXCEPT !.listed = FALSE, !.closed = TRUE, !.gen = @ + 1] ELSE sess[s]]
    /\ current' = IF current \in S THEN 0 ELSE current
    /\ left' = left \cup {p \in TurnsOf(S) : shown[p] # "none"}
    /\ turn' = Killed(TurnsOf(S))
    /\ delivery' = Cut(TurnsOf(S))
    /\ handler' = [handler EXCEPT ![h].pc = "closing", ![h].ends = S]

(* prune_expired.  Nobody asks whether an expired session is working.      *)
Prune(h) ==
    /\ handler[h].pc = "prune"
    /\ IF Expired = {} /\ handler[h].op # "look"
       THEN Goto(h, "get") /\ UNCHANGED <<sess, current, left, turn, delivery>>
       ELSE Closes(h, Expired)
    /\ UNCHANGED <<boundary, shown, typing, streaming, lost, ops, trouble>>

(* stop: typing ends everywhere, and every session is closed.              *)
CloseAll(h) ==
    /\ handler[h].pc = "close_all" /\ typing.lock = Free
    /\ typing' = [typing EXCEPT !.count = 0, !.on = FALSE]
    /\ Closes(h, {s \in SessionIds : sess[s].listed})
    /\ UNCHANGED <<boundary, shown, streaming, lost, ops, trouble>>

(* _close_session, to the end of the last.                                 *)
Closed(h) ==
    /\ handler[h].pc = "closing"
    /\ Quiet(handler[h].ends)
    /\ \A p \in TurnsOf(handler[h].ends) : delivery[p].pc \in {"none", "over"}
    /\ IF handler[h].op \in {"look", "shutdown"} THEN Return(h)
       ELSE Goto(h, "get") /\ UNCHANGED boundary
    /\ UNCHANGED <<sess, current, turn, delivery, shown, typing, streaming, left, lost, ops, trouble>>

(* get_or_create_session: the current one, or a new one.                   *)
Found(s) == IF Here # 0 THEN s = current ELSE s \in Unused /\ \A r \in Unused : s <= r
WithSession(s) == IF sess[s].made THEN sess ELSE [sess EXCEPT ![s] = Made]

(* _enqueue_message, to the submission; the answer to a full queue.        *)
Enqueue(h) ==
    /\ handler[h].pc = "get" /\ handler[h].op = "prompt"
    /\ \E s \in SessionIds : LET p == handler[h].p IN
         /\ Found(s)
         /\ sess' = [WithSession(s) EXCEPT ![s].stale = FALSE] /\ current' = s
         /\ IF Busy(s) /\ Cardinality(Queued(s)) >= QueueSize
            THEN /\ shown' = [shown EXCEPT ![p] = "refused"] /\ Return(h) /\ UNCHANGED turn
            ELSE /\ turn' = [turn EXCEPT ![p] = [s |-> s, st |-> "queued", kill |-> FALSE]]
                 /\ handler' = [handler EXCEPT ![h].pc = "status", ![h].s = s]
                 /\ UNCHANGED <<shown, boundary>>
    /\ UNCHANGED <<delivery, typing, streaming, left, lost, ops, trouble>>

(* reset_session: the turns of the current session end, and its context.   *)
Reset(h) ==
    /\ handler[h].pc = "get" /\ handler[h].op = "reset"
    /\ \E s \in SessionIds :
         /\ Found(s) /\ sess' = WithSession(s) /\ current' = s
         /\ turn' = Killed(TurnsOf({s}))
         /\ handler' = [handler EXCEPT ![h].pc = "settle", ![h].ends = TurnsOf({s})]
    /\ UNCHANGED <<boundary, delivery, shown, typing, streaming, left, lost, ops, trouble>>

(* The status message, with which the delivery begins.  Without it the     *)
(* turn is cancelled.                                                      *)
SendStatus(h) ==
    /\ handler[h].pc = "status"
    /\ LET p == handler[h].p
           s == handler[h].s
       IN \/ /\ shown' = [shown EXCEPT ![p] = "status"]
             /\ delivery' = [delivery EXCEPT ![p] = [pc |-> "type", gen |-> sess[s].gen, cut |-> FALSE]]
             /\ Return(h) /\ UNCHANGED <<turn, trouble>>
          \/ /\ trouble < MaxTrouble /\ Room /\ trouble' = trouble + 1
             /\ turn' = Killed({p})
             /\ handler' = [handler EXCEPT ![h].pc = "settle", ![h].ends = {p}]
             /\ UNCHANGED <<shown, delivery, boundary>>
    /\ UNCHANGED <<sess, current, typing, streaming, left, lost, ops>>

(* abandon_current_session, for a new session or another one: the delivery *)
(* boundary moves before the old work is drained.                          *)
Abandon(h) ==
    /\ handler[h].pc = "abandon"
    /\ LET to == handler[h].s
           stays == to # 0 /\ (~sess[to].listed \/ to = current)
       IN IF stays \/ (to = 0 /\ Here = 0)
          THEN /\ IF stays THEN Return(h) ELSE Goto(h, "publish") /\ UNCHANGED boundary
               /\ UNCHANGED <<sess, current, turn, left>>
          ELSE /\ current' = 0
               /\ sess' = IF Here = 0 THEN sess ELSE [sess EXCEPT ![Here].gen = @ + 1]
               /\ left' = IF Here = 0 THEN left ELSE left \cup TurnsOf({Here})
               /\ turn' = IF Here = 0 THEN turn ELSE Killed(TurnsOf({Here}))
               /\ handler' = [handler EXCEPT ![h].pc = "settle",
                                ![h].ends = IF Here = 0 THEN {} ELSE TurnsOf({Here})]
               /\ UNCHANGED boundary
    /\ UNCHANGED <<delivery, shown, typing, streaming, lost, ops, trouble>>

(* create_new_session after the flush of the memory; switch_session.       *)
Publish(h) ==
    /\ handler[h].pc = "publish"
    /\ IF handler[h].op = "switch"
       THEN current' = handler[h].s /\ UNCHANGED sess
       ELSE \E s \in Unused : /\ \A r \in Unused : s <= r
                              /\ sess' = [sess EXCEPT ![s] = Made] /\ current' = s
    /\ Return(h)
    /\ UNCHANGED <<turn, delivery, shown, typing, streaming, left, lost, ops, trouble>>

(* cancel_session, and cancel_turn for the button under one message.       *)
CancelTurns(h) ==
    /\ handler[h].pc = "cancel"
    /\ LET P == IF Here = 0 THEN {} ELSE
                IF handler[h].op = "stop_button" THEN {handler[h].p} \cap TurnsOf({Here})
                ELSE TurnsOf({Here})
       IN /\ turn' = Killed(P)
          /\ handler' = [handler EXCEPT ![h].pc = "settle", ![h].ends = P]
    /\ UNCHANGED <<sess, current, boundary, delivery, shown, typing, streaming, left, lost, ops, trouble>>

(* Who cancels turns waits for their end. *)
Settled(h) ==
    /\ handler[h].pc = "settle"
    /\ \A p \in handler[h].ends : ~Open(p)
    /\ IF handler[h].op \in {"new", "switch"} THEN Goto(h, "publish") /\ UNCHANGED boundary
       ELSE Return(h)
    /\ UNCHANGED <<sess, current, turn, delivery, shown, typing, streaming, left, lost, ops, trouble>>

-----------------------------------------------------------------------------
(* Turns, as the session's runtime promises them, and time *)

TurnStarts(p) ==
    /\ turn[p].st = "queued"
    /\ \A q \in TurnsOf({turn[p].s}) : turn[q].st # "running"
    /\ turn' = [turn EXCEPT ![p].st = "running"]
    /\ UNCHANGED <<sess, current, boundary, handler, delivery, shown, typing, streaming, left, lost, ops, trouble>>

TurnEnds(p) ==
    /\ turn[p].st = "running"
    /\ \E st \in {"answered", IF turn[p].kill THEN "cancelled" ELSE "failed"} :
         turn' = [turn EXCEPT ![p].st = st, ![p].kill = FALSE]
    /\ UNCHANGED <<sess, current, boundary, handler, delivery, shown, typing, streaming, left, lost, ops, trouble>>

(* The session timeout passes since the last prompt of a session.          *)
Expires(s) ==
    /\ sess[s].listed /\ ~sess[s].stale
    /\ \A h \in Handlers : handler[h].op = "prompt" => handler[h].s # s
    /\ trouble < MaxTrouble /\ Room /\ trouble' = trouble + 1
    /\ sess' = [sess EXCEPT ![s].stale = TRUE]
    /\ UNCHANGED <<current, boundary, handler, turn, delivery, shown, typing, streaming, left, lost, ops>>

-----------------------------------------------------------------------------
(* Deliveries *)

(* Mutant: the token has no generation. *)
IsCurrentSession(p) == current \in {0, turn[p].s}

(* _is_delivery_current *)
IsCurrent(p) ==
    /\ sess[turn[p].s].gen = delivery[p].gen
    /\ current \in {0, turn[p].s}

At(p, pc) == delivery[p].pc = pc /\ ~delivery[p].cut
Moves(p, pc) == delivery' = [delivery EXCEPT ![p].pc = pc]
Over(p) == delivery' = [delivery EXCEPT ![p] = [pc |-> "over", gen |-> 0, cut |-> FALSE]]
Final(p) == IF turn[p].st # "answered" THEN "sorry" ELSE "whole"

(* _start_typing: the call to Telegram is made under the lock.             *)
TypingAsked(p) ==
    /\ At(p, "type") /\ typing.lock = Free
    /\ IF typing.on
       THEN typing' = [typing EXCEPT !.count = @ + 1] /\ Moves(p, "wait")
       ELSE typing' = [typing EXCEPT !.count = @ + 1, !.lock = p] /\ Moves(p, "ask")
    /\ UNCHANGED <<sess, current, boundary, handler, turn, shown, streaming, left, lost, ops, trouble>>

TypingStarts(p) ==
    /\ At(p, "ask")
    /\ typing' = [typing EXCEPT !.lock = Free, !.on = TRUE]
    /\ Moves(p, "wait")
    /\ UNCHANGED <<sess, current, boundary, handler, turn, shown, streaming, left, lost, ops, trouble>>

(* maybe_flush: an edit of the status message while the turn runs.         *)
StreamEdit(p) ==
    /\ streaming /\ At(p, "wait") /\ turn[p].st = "running" /\ IsCurrent(p)
    /\ Moves(p, "edit")
    /\ UNCHANGED <<sess, current, boundary, handler, turn, shown, typing, streaming, left, lost, ops, trouble>>

EditEnds(p) ==
    /\ At(p, "edit") /\ Moves(p, "wait")
    /\ UNCHANGED <<sess, current, boundary, handler, turn, shown, typing, streaming, left, lost, ops, trouble>>

(* _process_message has the outcome.  An answer is streamed out without    *)
(* the boundary lock; everything else goes under it, a chunk at a time.    *)
Locked(p) == ~(streaming /\ turn[p].st = "answered")

SendBegins(p) ==
    /\ \/ At(p, "wait") /\ ~Open(p)
       \/ At(p, "next")
    /\ Locked(p) => boundary = Free
    /\ IF IsCurrent(p)
       THEN Moves(p, "send") /\ boundary' = IF Locked(p) THEN p ELSE boundary
       ELSE Moves(p, "untype") /\ UNCHANGED boundary
    /\ UNCHANGED <<sess, current, handler, turn, shown, typing, streaming, left, lost, ops, trouble>>

Release(p) == boundary' = IF boundary = p THEN Free ELSE boundary

SendEnds(p) ==
    /\ At(p, "send")
    /\ \/ /\ shown' = [shown EXCEPT ![p] =
                 IF turn[p].st = "answered" /\ Chunks > 1 /\ @ = "status" THEN "part" ELSE Final(p)]
          /\ Moves(p, IF shown'[p] = "part" THEN "next" ELSE "untype")
          /\ UNCHANGED <<lost, trouble>>
       \/ /\ trouble < MaxTrouble /\ Room /\ trouble' = trouble + 1
          /\ lost' = lost \cup {p}
          /\ Moves(p, "untype") /\ UNCHANGED shown
    /\ Release(p)
    /\ UNCHANGED <<sess, current, handler, turn, typing, streaming, left, ops>>

(* Mutant: every request that ends stops the indicator. *)
NeverStops(t) == IF t.count > 1 THEN [t EXCEPT !.count = @ - 1] ELSE [t EXCEPT !.count = 0]

(* _stop_typing *)
LessTyping(t) == IF t.count > 1 THEN [t EXCEPT !.count = @ - 1]
                 ELSE [t EXCEPT !.count = 0, !.on = FALSE]

Untype(p) ==
    /\ At(p, "untype") /\ typing.lock = Free
    /\ typing' = LessTyping(typing)
    /\ Over(p)
    /\ UNCHANGED <<sess, current, boundary, handler, turn, shown, streaming, left, lost, ops, trouble>>

(* A delivery that was cut: what it holds is released, and the request for *)
(* the indicator taken back, unless it was just waiting to do that.        *)
CutEnds(p) ==
    /\ delivery[p].cut /\ delivery[p].pc \notin {"none", "over"}
    /\ CASE delivery[p].pc = "type" -> UNCHANGED typing
         [] delivery[p].pc = "untype" /\ typing.lock # Free -> UNCHANGED typing
         [] delivery[p].pc = "ask" ->
              typing' = [typing EXCEPT !.lock = Free, !.count = IF @ > 0 THEN @ - 1 ELSE 0]
         [] OTHER -> typing.lock = Free /\ typing' = LessTyping(typing)
    /\ Release(p) /\ Over(p)
    /\ UNCHANGED <<sess, current, handler, turn, shown, streaming, left, lost, ops, trouble>>

-----------------------------------------------------------------------------
HandlerStep(h) ==
    \/ TakeLock(h) \/ Prune(h) \/ CloseAll(h) \/ Closed(h) \/ Enqueue(h) \/ Reset(h)
    \/ SendStatus(h) \/ Abandon(h) \/ Publish(h) \/ CancelTurns(h) \/ Settled(h)

DeliveryStep(p) ==
    \/ TypingAsked(p) \/ TypingStarts(p) \/ SendBegins(p) \/ SendEnds(p)
    \/ Untype(p) \/ CutEnds(p)

ChatProgress ==
    \/ \E h \in Handlers : HandlerStep(h)
    \/ \E p \in Prompts : TurnStarts(p) \/ TurnEnds(p) \/ EditEnds(p) \/ DeliveryStep(p)

ChatNext ==
    \/ ChatProgress
    \/ \E h \in Handlers : Arrives(h)
    \/ \E p \in Prompts : StreamEdit(p)
    \/ \E s \in SessionIds : Expires(s)

ChatSpec == ChatInit /\ [][ChatNext]_chatVars

-----------------------------------------------------------------------------
(* Properties *)

(* What is sent under the boundary lock is for a session that has not been *)
(* left since the prompt, even when the chat came back to it               *)
(* (bot._is_delivery_current).                                             *)
NothingStale ==
    \A p \in Prompts : At(p, "send") /\ Locked(p) => p \notin left /\ boundary = p

(* Two sessions of a chat work at the same time only while one that        *)
(* expired is closed: a new or another session is published when the old   *)
(* one has drained (bot.create_new_session).                               *)
DrainedFirst ==
    \A p, q \in Prompts : Open(p) /\ Open(q) /\ turn[p].s # turn[q].s =>
        sess[turn[p].s].closed \/ sess[turn[q].s].closed

(* Without deliveries nobody is typing (bot._stop_typing).                 *)
TypingIsExact ==
    (\A p \in Prompts : delivery[p].pc \in {"none", "type", "over"}) =>
        typing.count = 0 /\ ~typing.on

(* No work is left of a session that is closed, when whoever closed it     *)
(* goes on (SessionManager._close_session).                                *)
ClosedIsOver ==
    \A s \in SessionIds :
        sess[s].closed /\ (\A h \in Handlers : handler[h].pc = "closing" => s \notin handler[h].ends) =>
            Quiet({s})

(* A new or another session begins when the old one has drained, no answer *)
(* of a session that was left is sent, and what was closed does not work   *)
(* on (bot.create_new_session, _is_delivery_current).                      *)
SessionsDoNotMix == NothingStale /\ DrainedFirst /\ ClosedIsOver

(* No task waits for another for ever: while one cannot go on another can, *)
(* until every command has returned and every prompt that was taken shows  *)
(* how it ended, unless its session was left or closed, or Telegram        *)
(* refused (bot._process_message, SessionManager.prune_expired).           *)
ChatSettles ==
    \/ /\ \A h \in Handlers : handler[h].pc = "idle"
       /\ \A p \in Prompts : shown[p] = "status" =>
             \/ p \in left \cup lost
             \/ \E s \in SessionIds : turn[p].s = s /\ sess[s].closed
    \/ ENABLED ChatProgress

=============================================================================
