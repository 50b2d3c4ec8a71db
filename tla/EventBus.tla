------------------------------ MODULE EventBus -------------------------------
(***************************************************************************)
(* The event bus of a process (event_bus.py): handlers in order of         *)
(* priority, events that are awaited one after the other behind a lock,    *)
(* and events that are sent without waiting at any moment in between.      *)
(*                                                                         *)
(* Everything runs in one thread.  Handlers that do not await run without  *)
(* a break up to the next one that does, and those calls are one step.     *)
(***************************************************************************)
EXTENDS Integers, SequencesExt, FiniteSetsExt, Functions

CONSTANTS
    Handlers,        \* subscriptions
    Shape,           \* what each of them subscribes to, and how
    Emitters,        \* tasks that emit and wait
    Events,          \* [type, session]
    AnyOne,          \* no filter
    MaxHistory,      \* _max_history
    MaxEvents        \* bound: events that are emitted

ASSUME BusAssumption ==
    /\ MaxHistory \in Nat \ {0} /\ MaxEvents \in Nat
    /\ \A h \in Handlers : {Shape[h].awaits, Shape[h].once, Shape[h].weak} \subseteq BOOLEAN

VARIABLES
    handlers,        \* _handlers
    since,           \* history: when a handler was subscribed, 0 if never
    dead,            \* weak callbacks that are gone
    history,         \* _history
    line,            \* emitters at the lock, the first has it
    emission,        \* what an emitter is doing
    emitted,         \* history: all events so far
    calls            \* history: calls of a handler, and whether they may repeat

busVars == <<handlers, since, dead, history, line, emission, emitted, calls>>

Idle == [event |-> AnyOne, due |-> << >>, called |-> << >>]
-----------------------------------------------------------------------------
Priority(h) == Shape[h].priority

(* Appended, and sorted by priority: the sort keeps the order of equals. *)
Inserted(h) ==
    LET before == SelectSeq(handlers, LAMBDA g : Priority(g) >= Priority(h))
        behind == SelectSeq(handlers, LAMBDA g : Priority(g) < Priority(h))
    IN  before \o <<h>> \o behind

Matches(h, e) ==
    /\ e.type \in Shape[h].types
    /\ Shape[h].filter \in {AnyOne, e.session}

Collect(e) == SelectSeq(handlers, LAMBDA h : Matches(h, e) /\ h \notin dead)

DeadFor(e) == {h \in Range(handlers) : Matches(h, e) /\ h \in dead}

Without(ids) == SelectSeq(handlers, LAMBDA h : h \notin ids)

Once(hs) == {h \in Range(hs) : Shape[h].once}

Recorded(e) ==
    LET all == Append(history, e)
    IN  SubSeq(all, Len(all) - Min({Len(all), MaxHistory}) + 1, Len(all))

(* get_history: newest first. *)
GetHistory(types, limit) ==
    LET found == SelectSeq(Reverse(history), LAMBDA e : e.type \in types)
    IN  SubSeq(found, 1, Min({Len(found), limit}))

(* The handlers that run now: those that do not await, and the next that   *)
(* does.                                                                   *)
Segment(todo) ==
    LET waits == {i \in DOMAIN todo : Shape[todo[i]].awaits}
    IN  IF waits = {} THEN todo ELSE SubSeq(todo, 1, Min(waits))

Counted(hs) == [h \in Handlers |-> IF h \in Range(hs) THEN [calls[h] EXCEPT !.n = @ + 1] ELSE calls[h]]

(* Another emission has collected a handler and is not done with it. *)
Overlap(hs) == {h \in Range(hs) : \E q \in Emitters : h \in Range(emission[q].due)}

Repeatable(hs, cs) == [h \in Handlers |-> IF h \in hs THEN [cs[h] EXCEPT !.free = TRUE] ELSE cs[h]]
-----------------------------------------------------------------------------
BusInit ==
    /\ handlers = << >> /\ since = [h \in Handlers |-> 0] /\ dead = {}
    /\ history = << >> /\ line = << >> /\ emission = [p \in Emitters |-> Idle]
    /\ emitted = << >> /\ calls = [h \in Handlers |-> [n |-> 0, free |-> FALSE]]

Subscribe(h) ==
    /\ since[h] = 0
    /\ handlers' = Inserted(h)
    /\ since' = [since EXCEPT ![h] = 1 + Cardinality({g \in Handlers : since[g] > 0})]
    /\ UNCHANGED <<dead, history, line, emission, emitted, calls>>

Unsubscribe(h) ==
    /\ h \in Range(handlers)
    /\ handlers' = Without({h})
    /\ UNCHANGED <<since, dead, history, line, emission, emitted, calls>>

ClearSession(s) ==
    /\ handlers' = Without({h \in Handlers : Shape[h].filter = s})
    /\ handlers' # handlers
    /\ UNCHANGED <<since, dead, history, line, emission, emitted, calls>>

(* Nobody else holds the callback of a weak handler any more. *)
Collected(h) ==
    /\ since[h] > 0 /\ Shape[h].weak /\ h \notin dead
    /\ dead' = dead \union {h}
    /\ UNCHANGED <<handlers, since, history, line, emission, emitted, calls>>

(* An emitter goes through its handlers up to one that awaits; behind the  *)
(* last one the handlers for one event and the dead ones are removed.      *)
Runs(p, e, due, called) ==
    LET now  == Segment(SubSeq(due, Len(called) + 1, Len(due)))
        done == called \o now = due /\ (now = << >> \/ ~Shape[Last(now)].awaits)
    IN  /\ calls' = Counted(now)
        /\ handlers' = IF done THEN Without(Once(due) \union DeadFor(e)) ELSE handlers
        /\ emission' = [emission EXCEPT ![p] = IF done THEN Idle
                                               ELSE [event |-> e, due |-> due, called |-> called \o now]]

Leaves(p) == IF emission'[p] = Idle THEN SelectSeq(line, LAMBDA q : q # p) ELSE line

Begins(p, e) == Runs(p, e, Collect(e), << >>)

(* emit: with the lock free it goes on at once. *)
Emit(p, e) ==
    /\ emission[p] = Idle /\ p \notin Range(line) /\ Len(emitted) < MaxEvents
    /\ IF line = << >>
       THEN /\ Begins(p, e)
            /\ history' = Recorded(e) /\ emitted' = Append(emitted, e)
            /\ line' = IF emission'[p] = Idle THEN << >> ELSE <<p>>
       ELSE /\ line' = Append(line, p)
            /\ emission' = [emission EXCEPT ![p].event = e]
            /\ UNCHANGED <<handlers, history, emitted, calls>>
    /\ UNCHANGED <<since, dead>>

Waiting(p) == p \in Range(line) /\ emission[p].due = << >>

(* The emitter that has waited longest gets the lock. *)
Enter(p) ==
    LET e == emission[p].event
    IN  /\ Waiting(p) /\ p = Head(line) /\ Len(emitted) < MaxEvents
        /\ Begins(p, e)
        /\ history' = Recorded(e) /\ emitted' = Append(emitted, e)
        /\ line' = Leaves(p)
        /\ UNCHANGED <<since, dead>>

(* The handler that an emitter waits for has returned, or raised. *)
Resume(p) ==
    /\ emission[p].called # << >>
    /\ IF emission[p].called = emission[p].due
       THEN /\ handlers' = Without(Once(emission[p].due) \union DeadFor(emission[p].event))
            /\ emission' = [emission EXCEPT ![p] = Idle] /\ UNCHANGED calls
       ELSE Runs(p, emission[p].event, emission[p].due, emission[p].called)
    /\ line' = Leaves(p)
    /\ UNCHANGED <<since, dead, history, emitted>>

(* A bug: the lock stays with an emitter that was cancelled.               *)
KeepsLock(p) ==
    /\ p \in Range(line)
    /\ emission' = [emission EXCEPT ![p] = Idle]
    /\ calls' = Repeatable(Range(emission[p].called), calls)
    /\ UNCHANGED <<handlers, since, dead, history, emitted, line>>

(* An emitter is cancelled at the lock or in a handler: nothing is removed.*)
CancelEmit(p) ==
    /\ p \in Range(line)
    /\ emission' = [emission EXCEPT ![p] = Idle]
    /\ line' = SelectSeq(line, LAMBDA q : q # p)
    /\ calls' = Repeatable(Range(emission[p].called), calls)
    /\ UNCHANGED <<handlers, since, dead, history, emitted>>

(* emit_sync: handlers that await become tasks. *)
EmitSync(e) ==
    LET due == Collect(e)
    IN  /\ Len(emitted) < MaxEvents
        /\ history' = Recorded(e) /\ emitted' = Append(emitted, e)
        /\ calls' = Repeatable(Overlap(due), Counted(due))
        /\ handlers' = Without(Once(due) \union DeadFor(e))
        /\ UNCHANGED <<since, dead, line, emission>>

BusNext ==
    \/ \E h \in Handlers : Subscribe(h) \/ Unsubscribe(h) \/ Collected(h)
    \/ \E s \in {e.session : e \in Events} : ClearSession(s)
    \/ \E p \in Emitters, e \in Events : Emit(p, e)
    \/ \E p \in Emitters : Enter(p) \/ Resume(p) \/ CancelEmit(p)
    \/ \E e \in Events : EmitSync(e)
-----------------------------------------------------------------------------
(* Handlers are called by priority, and in the order of subscription where *)
(* it is the same (subscribe).                                             *)
CalledInOrder ==
    \A p \in Emitters : \A i, j \in DOMAIN emission[p].called : i < j =>
        LET g == emission[p].called[i]  h == emission[p].called[j]
        IN  Priority(g) > Priority(h) \/ (Priority(g) = Priority(h) /\ since[g] < since[h])

(* Of the emitters only one calls handlers, and one that waits does so     *)
(* behind a working one (_emit_lock).                                      *)
OneEmits ==
    /\ Cardinality({p \in Emitters : emission[p].called # << >>}) <= 1
    /\ \A p \in Emitters : emission[p].called # << >> => p = Head(line)
    /\ \A p \in Emitters : p \in Range(line) <=> emission[p] # Idle

(* A handler for one event is called once, unless the emission that called *)
(* it was cancelled or had still to remove it when another event was sent  *)
(* without waiting (EventHandler.once).                                    *)
OnceIsOnce == \A h \in Handlers : Shape[h].once => calls[h].n <= 1 \/ calls[h].free

(* The bus remembers the last events in their order (get_history).         *)
HistoryIsExact ==
    \A types \in SUBSET {e.type : e \in Events}, n \in 0..MaxHistory :
        LET last == SubSeq(emitted, Len(emitted) - Min({Len(emitted), MaxHistory}) + 1, Len(emitted))
            told == Reverse(SelectSeq(last, LAMBDA e : e.type \in types))
        IN  GetHistory(types, n) = SubSeq(told, 1, Min({n, Len(told)}))

(* What a subscriber may count on.                                         *)
BusIsSound == CalledInOrder /\ OneEmits /\ OnceIsOnce /\ HistoryIsExact
=============================================================================
