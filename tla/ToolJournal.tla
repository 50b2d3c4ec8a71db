----------------------------- MODULE ToolJournal -----------------------------
(***************************************************************************)
(* The durable journal of a session's tool boundaries (tool_journal.py)    *)
(* and the code that writes it: the tool loop's T1 intent and T2 outcome   *)
(* (tool_loop.py), the start and the end of a turn (turn_service.py), and  *)
(* recovery and its acknowledgement (agent.py).                            *)
(*                                                                         *)
(* An append reads, trims and replaces the file under its lock, so it is   *)
(* one action.  Any append may fail; a failed intent blocks the tool, the  *)
(* others are best effort.  An operation is a turn and the id its provider *)
(* gave the call.  Argument hashes are left out: an outcome is always      *)
(* written with the hash of the execution it settles.                      *)
(***************************************************************************)
EXTENDS Integers, Sequences, FiniteSets

CONSTANTS
    Procs,      \* serving processes of the session
    Turns,      \* turn ids, each submitted once
    Calls,      \* tool call ids
    Limits,     \* the values ToolJournal.max_events may have
    MaxTools,   \* bound: tools run in one turn
    MaxAcks,    \* bound: acknowledgements
    ReusedIds,  \* whether a provider may use an id twice in a turn
    NoTurn, NoCall

ASSUME LimitsAssumption == Limits \subseteq Nat \ {0}
ASSUME ReusedIdsAssumption == ReusedIds \in BOOLEAN
ASSUME BoundsAssumption == MaxTools \in Nat /\ MaxAcks \in Nat
ASSUME TurnsAssumption == IsFiniteSet(Turns) /\ NoTurn \notin Turns

VARIABLES
    maxEvents, \* ToolJournal.max_events, fixed
    journal,   \* the retained events, in order
    pc,        \* where each process is
    turn,      \* the turn it runs
    call,      \* the tool call it executes
    tools,     \* tools run in this turn
    ack,       \* what a pending acknowledgement has read
    outcome,   \* history: what became of each turn
    open,      \* history: operations begun and not known as settled
    detached,  \* tools that outlive the turn that gave up on them
    effects,   \* history: operations whose side effect happened
    died,      \* history: turns in progress when their process died
    missed,    \* history: turns one of whose events could not be written
    reviewed,  \* history: operations an operator has acknowledged
    acks       \* history: acknowledgements made

vars == <<maxEvents, journal, pc, turn, call, tools, ack, outcome, open, detached,
          effects, died, missed, reviewed, acks>>

Ops == Turns \X Calls

NoAck == [turns |-> {}, ops |-> {}, seen |-> {}]

Init ==
    /\ maxEvents \in Limits
    /\ journal = << >>
    /\ pc = [p \in Procs |-> "idle"]
    /\ turn = [p \in Procs |-> NoTurn]
    /\ call = [p \in Procs |-> NoCall]
    /\ tools = [p \in Procs |-> 0]
    /\ ack = [p \in Procs |-> NoAck]
    /\ outcome = [t \in Turns |-> "new"]
    /\ open = {} /\ detached = [p \in Procs |-> {}] /\ effects = {}
    /\ died = {} /\ missed = {} /\ reviewed = {} /\ acks = 0

Op(p) == <<turn[p], call[p]>>

-----------------------------------------------------------------------------
(* The journal *)

TurnEvent(kind, t) == [kind |-> kind, turn |-> t]
ToolEvent(kind, o) == [kind |-> kind, turn |-> o[1], op |-> o]
AckEvent(a) == [kind |-> "recovery_acknowledged", turns |-> a.turns, ops |-> a.ops]

Retained == IF (maxEvents * 9) \div 10 > 1 THEN (maxEvents * 9) \div 10 ELSE 1

Smallest(S) == CHOOSE i \in S : \A j \in S : i <= j

(* The first positions, from where retaining the newest events would start *)
(* onwards, at which a turn starts.                                        *)
CutCandidates(j) ==
    {i \in 1..Len(j) : i > Len(j) - Retained /\ j[i].kind = "turn_started"}

(* Mutant: cut at the target, wherever it falls. *)
TrimAnywhere(j) ==
    IF Len(j) <= maxEvents THEN j ELSE SubSeq(j, Len(j) - Retained + 1, Len(j))

(* _trim_events: cut at the first boundary, or keep everything. *)
Trim(j) ==
    IF Len(j) <= maxEvents \/ CutCandidates(j) = {} THEN j
    ELSE SubSeq(j, Smallest(CutCandidates(j)), Len(j))

Append1(e) == journal' = Trim(Append(journal, e))

(* Best effort: a failed append is logged and the turn goes on. *)
AppendBestEffort(e, t) ==
    \/ Append1(e) /\ UNCHANGED missed
    \/ UNCHANGED journal /\ missed' = missed \cup {t}

-----------------------------------------------------------------------------
(* resolve_journal *)

Of(j, kinds) == {j[i] : i \in {k \in DOMAIN j : j[k].kind \in kinds}}

TerminalEvents == {"turn_committed", "turn_failed", "turn_cancelled"}

Started(j)  == {e.turn : e \in Of(j, {"turn_started"})}
Ended(j)    == {e.turn : e \in Of(j, TerminalEvents)}
Intents(j)  == {e.op : e \in Of(j, {"tool_intent"})}
Settled(j)  == {e.op : e \in Of(j, {"tool_outcome"})}
AckedTurns(j) == UNION {e.turns : e \in Of(j, {"recovery_acknowledged"})}
AckedOps(j)   == UNION {e.ops : e \in Of(j, {"recovery_acknowledged"})}

(* Mutant: duplicates are merged. *)
NeverDuplicate(j) == FALSE

Duplicated(j) ==
    \E i, k \in DOMAIN j : /\ i # k
                           /\ j[i].kind = j[k].kind
                           /\ j[i].kind \in {"tool_intent", "tool_outcome"}
                           /\ j[i].op = j[k].op

Orphaned(j) == Settled(j) \ Intents(j)

Corrupt(j) == Duplicated(j) \/ Orphaned(j) # {}

Interrupted(j) == Started(j) \ Ended(j)

Status(j, o) ==
    CASE o \in Settled(j)    -> IF o \in Intents(j) THEN "completed" ELSE "corruption"
      [] o \in AckedOps(j)   -> "acknowledged"
      [] o[1] \in Ended(j)   -> "aborted_unsettled"
      [] OTHER               -> "indeterminate"

Unsettled(j) ==
    {o \in Intents(j) : Status(j, o) \in {"indeterminate", "aborted_unsettled"}}

-----------------------------------------------------------------------------
(* A turn *)

StartTurn(p, t) ==
    /\ pc[p] = "idle"
    /\ outcome[t] = "new"
    /\ outcome' = [outcome EXCEPT ![t] = "running"]
    /\ turn' = [turn EXCEPT ![p] = t]
    /\ tools' = [tools EXCEPT ![p] = 0]
    /\ pc' = [pc EXCEPT ![p] = "running"]
    /\ AppendBestEffort(TurnEvent("turn_started", t), t)
    /\ UNCHANGED <<call, ack, open, detached, effects, died, reviewed, acks>>

(* A provider's ids are distinct within one response only.                 *)
IdAllowed(t, c) == ReusedIds \/ <<t, c>> \notin Intents(journal)

(* Mutant: the tool runs although its intent could not be written. *)
BeginUnjournaled(p, c) ==
    \/ Append1(ToolEvent("tool_intent", <<turn[p], c>>))
    \/ UNCHANGED journal

(* T1: durable before the tool runs.  ToolJournalError ends the turn       *)
(* (TurnFails) without a call to the tool.                                 *)
Begin(p, c) == Append1(ToolEvent("tool_intent", <<turn[p], c>>))

Intent(p, c) ==
    /\ pc[p] = "running"
    /\ tools[p] < MaxTools
    /\ IdAllowed(turn[p], c)
    /\ Begin(p, c)
    /\ call' = [call EXCEPT ![p] = c]
    /\ tools' = [tools EXCEPT ![p] = @ + 1]
    /\ pc' = [pc EXCEPT ![p] = "executing"]
    /\ open' = open \cup {<<turn[p], c>>}
    /\ reviewed' = reviewed \ {<<turn[p], c>>}
    /\ ack' = [q \in Procs |-> [ack[q] EXCEPT !.seen = @ \ {<<turn[p], c>>}]]
    /\ UNCHANGED <<turn, outcome, detached, effects, died, missed, acks>>

(* The tool returns or raises; at worst it has changed the world by then. *)
Execute(p) ==
    /\ pc[p] = "executing"
    /\ effects' = effects \cup {Op(p)}
    /\ pc' = [pc EXCEPT ![p] = "executed"]
    /\ UNCHANGED <<journal, turn, call, tools, ack, outcome, open, detached,
                   died, missed, reviewed, acks>>

(* T2: _settle_tool_operation, once the result is part of the draft. *)
Settle(p) ==
    /\ pc[p] = "executed"
    /\ \/ /\ Append1(ToolEvent("tool_outcome", Op(p)))
          /\ open' = open \ {Op(p)}
          /\ UNCHANGED missed
       \/ /\ UNCHANGED <<journal, open>>
          /\ missed' = missed \cup {turn[p]}
    /\ call' = [call EXCEPT ![p] = NoCall]
    /\ pc' = [pc EXCEPT ![p] = "running"]
    /\ UNCHANGED <<turn, tools, ack, outcome, detached, effects, died, reviewed, acks>>

-----------------------------------------------------------------------------
(* The end of a turn *)

Leave(p, end) ==
    /\ outcome' = [outcome EXCEPT ![turn[p]] = end]
    /\ turn' = [turn EXCEPT ![p] = NoTurn]
    /\ call' = [call EXCEPT ![p] = NoCall]
    /\ tools' = [tools EXCEPT ![p] = 0]
    /\ pc' = [pc EXCEPT ![p] = "idle"]
    /\ UNCHANGED <<ack, open, effects, died, reviewed, acks>>

(* An error outside the tools, an intent that cannot be written included. *)
TurnFails(p) ==
    /\ pc[p] = "running"
    /\ AppendBestEffort(TurnEvent("turn_failed", turn[p]), turn[p])
    /\ Leave(p, "failed")
    /\ UNCHANGED detached

(* Cancelled, while a tool executes too: its T2 is never written, and a    *)
(* tool in a worker thread may still act.                                  *)
CancelTurn(p) ==
    /\ pc[p] \in {"running", "executing", "executed"}
    /\ AppendBestEffort(TurnEvent("turn_cancelled", turn[p]), turn[p])
    /\ detached' = [detached EXCEPT ![p] =
                       IF pc[p] = "executing" THEN @ \cup {Op(p)} ELSE @]
    /\ Leave(p, "cancelled")

(* The thread of a cancelled tool ends at last. *)
DetachedToolEnds(p, o) ==
    /\ o \in detached[p]
    /\ detached' = [detached EXCEPT ![p] = @ \ {o}]
    /\ effects' = effects \cup {o}
    /\ UNCHANGED <<journal, pc, turn, call, tools, ack, outcome, open, died,
                   missed, reviewed, acks>>

(* The whole-turn commit (SessionCommit), and then its event. *)
CommitTurn(p) ==
    /\ pc[p] = "running"
    /\ outcome' = [outcome EXCEPT ![turn[p]] = "committed"]
    /\ pc' = [pc EXCEPT ![p] = "committed"]
    /\ UNCHANGED <<journal, turn, call, tools, ack, open, detached, effects,
                   died, missed, reviewed, acks>>

JournalCommitted(p) ==
    /\ pc[p] = "committed"
    /\ AppendBestEffort(TurnEvent("turn_committed", turn[p]), turn[p])
    /\ Leave(p, "committed")
    /\ UNCHANGED detached

-----------------------------------------------------------------------------
(* Crash, recovery, acknowledgement *)

(* The threads die with the process. *)
Crash(p) ==
    /\ pc[p] # "down"
    /\ died' = died \cup ({turn[p]} \ {NoTurn})
    /\ outcome' = [t \in Turns |->
                     IF t = turn[p] /\ outcome[t] = "running" THEN "lost"
                                                             ELSE outcome[t]]
    /\ turn' = [turn EXCEPT ![p] = NoTurn]
    /\ call' = [call EXCEPT ![p] = NoCall]
    /\ tools' = [tools EXCEPT ![p] = 0]
    /\ ack' = [ack EXCEPT ![p] = NoAck]
    /\ detached' = [detached EXCEPT ![p] = {}]
    /\ pc' = [pc EXCEPT ![p] = "down"]
    /\ UNCHANGED <<journal, open, effects, missed, reviewed, acks>>

(* Agent.__init__ scans the journal and reports; it retries nothing. *)
Restart(p) ==
    /\ pc[p] = "down"
    /\ pc' = [pc EXCEPT ![p] = "idle"]
    /\ UNCHANGED <<journal, turn, call, tools, ack, outcome, open, detached,
                   effects, died, missed, reviewed, acks>>

(* mark_recovery_acknowledged reads under one lock and appends under       *)
(* another.                                                                *)
AckRead(p) ==
    /\ pc[p] = "idle"
    /\ acks < MaxAcks
    /\ Interrupted(journal) \cup Unsettled(journal) # {}
    /\ ack' = [ack EXCEPT ![p] = [turns |-> Interrupted(journal),
                                  ops |-> Unsettled(journal),
                                  seen |-> Unsettled(journal)]]
    /\ acks' = acks + 1
    /\ pc' = [pc EXCEPT ![p] = "acknowledging"]
    /\ UNCHANGED <<journal, turn, call, tools, outcome, open, detached,
                   effects, died, missed, reviewed>>

(* A failed append is raised to the operator. *)
AckAppend(p) ==
    /\ pc[p] = "acknowledging"
    /\ \/ /\ Append1(AckEvent(ack[p]))
          /\ reviewed' = reviewed \cup ack[p].seen
       \/ UNCHANGED <<journal, reviewed>>
    /\ ack' = [ack EXCEPT ![p] = NoAck]
    /\ pc' = [pc EXCEPT ![p] = "idle"]
    /\ UNCHANGED <<turn, call, tools, outcome, open, detached, effects, died,
                   missed, acks>>

-----------------------------------------------------------------------------
TurnStep(p) ==
    \/ \E t \in Turns : StartTurn(p, t)
    \/ \E c \in Calls : Intent(p, c)
    \/ Execute(p) \/ Settle(p) \/ TurnFails(p) \/ CancelTurn(p)
    \/ \E o \in detached[p] : DetachedToolEnds(p, o)
    \/ CommitTurn(p) \/ JournalCommitted(p)

RecoveryStep(p) == Crash(p) \/ Restart(p) \/ AckRead(p) \/ AckAppend(p)

Next == /\ \E p \in Procs : TurnStep(p) \/ RecoveryStep(p)
        /\ UNCHANGED maxEvents

Spec == Init /\ [][Next]_vars

-----------------------------------------------------------------------------
(* Properties *)

InTurn == {"running", "executing", "executed", "committed"}

Events ==
    [kind : TerminalEvents \cup {"turn_started"}, turn : Turns]
      \cup [kind : {"tool_intent", "tool_outcome"}, turn : Turns, op : Ops]
      \cup [kind : {"recovery_acknowledged"}, turns : SUBSET Turns, ops : SUBSET Ops]

(* Every variable has its type. *)
TypeOK ==
    /\ maxEvents \in Limits
    /\ \A i \in DOMAIN journal : journal[i] \in Events
    /\ pc \in [Procs -> InTurn \cup {"idle", "acknowledging", "down"}]
    /\ turn \in [Procs -> Turns \cup {NoTurn}]
    /\ call \in [Procs -> Calls \cup {NoCall}]
    /\ tools \in [Procs -> 0..MaxTools]
    /\ \A p \in Procs : ack[p].turns \subseteq Turns /\ ack[p].ops \subseteq Ops
    /\ outcome \in [Turns -> {"new", "running", "committed", "failed", "cancelled", "lost"}]
    /\ open \subseteq Ops /\ effects \subseteq Ops /\ reviewed \subseteq Ops
    /\ detached \in [Procs -> SUBSET Ops]
    /\ died \subseteq Turns /\ missed \subseteq Turns
    /\ acks \in 0..MaxAcks

(* One process at most does anything with the session. *)
OneAtATime == \E p \in Procs : \A q \in Procs \ {p} : pc[q] = "idle"

(* "No false crash evidence can be manufactured": while one process at a   *)
(* time uses the journal, no trim ever separates an outcome from its       *)
(* intent, nor takes the intent of a call in progress.                     *)
NothingManufactured ==
    OneAtATime =>
    /\ Orphaned(journal) = {}
    /\ \A p \in Procs : pc[p] \in {"executing", "executed"} => Op(p) \in Intents(journal)

EventsOf(j, t) == {i \in DOMAIN j : "turn" \in DOMAIN j[i] /\ j[i].turn = t}

(* "A cut at a turn boundary drops whole turns", and never the one in      *)
(* progress, while one process at a time uses the journal.                 *)
TrimsWholeTurns ==
    [][OneAtATime' =>
         \A t \in Turns : Cardinality(EventsOf(journal', t)) < Cardinality(EventsOf(journal, t))
          => /\ EventsOf(journal', t) = {}
             /\ \A p \in Procs : turn'[p] # t]_vars

(* No tool acts before its intent is durable, detached tools included.     *)
EffectsAreJournaled == effects \subseteq Intents(journal)

(* Fail closed: an operation that began and is not known to have settled   *)
(* is reported until an operator has acknowledged that very execution.     *)
NothingSilent ==
    \A o \in open \ reviewed :
        Status(journal, o) \in {"indeterminate", "aborted_unsettled"} \/ Corrupt(journal)

(* Where the writes of a turn succeeded, it is reported as interrupted if  *)
(* and only if it is in progress or died with its process, and only such a *)
(* turn has indeterminate operations.                                      *)
CrashDetectionIsExact ==
    \A t \in Turns \ missed :
        LET crashed == t \in died \/ \E p \in Procs : turn[p] = t
        IN  /\ t \in Interrupted(journal) <=> crashed
            /\ \A c \in Calls : Status(journal, <<t, c>>) = "indeterminate"
                                /\ <<t, c>> \in Intents(journal) => crashed

(* What the journal holds by itself is true, however it is trimmed.        *)
JournalIsTrue == TypeOK /\ NothingManufactured

(* Until the journal is full, what it tells of crashes and effects is      *)
(* exact, and nothing that is open is passed over in silence.              *)
NeverFull == maxEvents >= Cardinality(Turns) * (2 + 2 * MaxTools) + MaxAcks
CrashesAreTold ==
    NeverFull => EffectsAreJournaled /\ NothingSilent /\ CrashDetectionIsExact

=============================================================================
