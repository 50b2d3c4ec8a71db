--------------------------- MODULE SessionCommit ----------------------------
(***************************************************************************)
(* How turns reach the persisted state of a session that several serving   *)
(* processes share: TurnService._process_message_inner (turn_service.py),  *)
(* the draft, commit and rebase of Agent (agent.py), SessionState          *)
(* (session_state.py) and SessionStore (session_store.py).                 *)
(*                                                                         *)
(* A process runs one turn at a time (SessionRuntime).  Each read of the   *)
(* store and each save under its file lock is one action; between them     *)
(* every other process may act, and the process may die.  Within a         *)
(* process nothing suspends from the end of the tools to the end of the    *)
(* commit, so a turn can be cancelled before "save" and not after.         *)
(*                                                                         *)
(* A turn stands for its messages, one unit of every usage counter and one *)
(* tool call.  Ephemeral agents never touch the store and are left out.    *)
(***************************************************************************)
EXTENDS Integers, Sequences

CONSTANTS
    Procs,           \* serving processes, each with an Agent of the session
    Turns,           \* turn ids; each is submitted to one process, once
    MaxAttempts,     \* SESSION_SAVE_MAX_ATTEMPTS
    Preserve,        \* compactor.config.preserve_last // 2, at least 1
    ReviewInterval,  \* MEMORY_REVIEW_TURN_INTERVAL
    NoTurn

ASSUME MaxAttemptsAssumption == MaxAttempts \in Nat \ {0}
ASSUME PreserveAssumption == Preserve \in Nat \ {0}
ASSUME ReviewAssumption == ReviewInterval \in Nat \ {0}
ASSUME NoTurnAssumption == NoTurn \notin Turns

VARIABLES
    store,    \* the session file; revision 0 means that there is none
    mem,      \* _session_state: what each process believes is committed
    live,     \* the Agent's compatibility attributes
    draft,    \* the draft of the turn in progress, the original candidate
    cand,     \* the candidate that _persist_session_state tries to save
    attempt,  \* saves tried for this candidate
    turn,     \* the turn in progress
    pc,       \* where each process is in the turn
    outcome,  \* history: what became of each turn
    answered, \* history: the turns whose response was returned
    erased    \* history: the turns that a reset removed

vars == <<store, mem, live, draft, cand, attempt, turn, pc,
          outcome, answered, erased>>

History == <<outcome, answered, erased>>

(* A SessionState: the turns, the turns its checkpoint summarises, the     *)
(* usage counters, tool_calls_history and last_memory_review_turn_count.   *)
Fresh == [rev |-> 0, turns |-> << >>, ckpt |-> << >>,
          usage |-> 0, calls |-> << >>, reviewed |-> 0]

Attributes(s) == [usage |-> s.usage, calls |-> s.calls, reviewed |-> s.reviewed]

Init ==
    /\ store = Fresh
    /\ mem = [p \in Procs |-> Fresh]
    /\ live = [p \in Procs |-> Attributes(Fresh)]
    /\ draft = [p \in Procs |-> Fresh]
    /\ cand = [p \in Procs |-> Fresh]
    /\ attempt = [p \in Procs |-> 0]
    /\ turn = [p \in Procs |-> NoTurn]
    /\ pc = [p \in Procs |-> "idle"]
    /\ outcome = [t \in Turns |-> "new"]
    /\ answered = {}
    /\ erased = {}

StoreExists == store.rev > 0

IsPrefixOf(s, t) == Len(s) <= Len(t) /\ \A i \in 1..Len(s) : s[i] = t[i]

Persisted == {store.turns[i] : i \in DOMAIN store.turns}

Drop(s, n) == SubSeq(s, n + 1, Len(s))

Larger(a, b) == IF a >= b THEN a ELSE b

-----------------------------------------------------------------------------
(* The start of a turn *)

(* Draft from the committed state, exposed through the attributes. *)
OpenDraft(p, state) ==
    /\ draft' = [draft EXCEPT ![p] = state]
    /\ live' = [live EXCEPT ![p] = Attributes(state)]
    /\ pc' = [pc EXCEPT ![p] = "prompt"]

(* _sync_session_state_from_store probes the revision; only when it        *)
(* differs is the file loaded, in a second read.                           *)
StartTurn(p, t) ==
    /\ pc[p] = "idle"
    /\ outcome[t] = "new"
    /\ outcome' = [outcome EXCEPT ![t] = "running"]
    /\ turn' = [turn EXCEPT ![p] = t]
    /\ \/ /\ store.rev # mem[p].rev
          /\ pc' = [pc EXCEPT ![p] = "adopt"]
          /\ UNCHANGED <<draft, live>>
       \/ /\ store.rev = mem[p].rev
          /\ OpenDraft(p, mem[p])
    /\ UNCHANGED <<store, mem, cand, attempt, answered, erased>>

(* A file that is gone leaves the state of the process as it is. *)
Adopt(p) ==
    /\ pc[p] = "adopt"
    /\ mem' = [mem EXCEPT ![p] = IF StoreExists THEN store ELSE @]
    /\ OpenDraft(p, mem'[p])
    /\ UNCHANGED <<store, cand, attempt, turn, History>>

-----------------------------------------------------------------------------
(* The turn *)

(* _apply_session_state(committed_state) *)
RestoreAttributes(p) == live' = [live EXCEPT ![p] = Attributes(mem[p])]

(* The locals of the turn and of the save go out of scope. *)
Return(p, at) ==
    /\ draft' = [draft EXCEPT ![p] = Fresh]
    /\ cand' = [cand EXCEPT ![p] = Fresh]
    /\ attempt' = [attempt EXCEPT ![p] = 0]
    /\ turn' = [turn EXCEPT ![p] = NoTurn]
    /\ pc' = [pc EXCEPT ![p] = at]

(* A turn that does not commit. *)
EndTurn(p, end) ==
    /\ RestoreAttributes(p)
    /\ Return(p, "idle")
    /\ outcome' = [outcome EXCEPT ![turn[p]] = end]
    /\ UNCHANGED <<store, mem, answered, erased>>

(* A UserPromptSubmit hook denies the prompt. *)
PromptBlocked(p) ==
    /\ pc[p] = "prompt"
    /\ EndTurn(p, "blocked")

(* The turns a checkpoint of this draft would cover. *)
Coverage(p) == IF Len(draft[p].turns) > Preserve THEN Len(draft[p].turns) - Preserve
                                                 ELSE 0

(* The old checkpoint's context followed by the messages since. *)
NewCheckpoint(p) ==
    draft[p].ckpt \o Drop(SubSeq(draft[p].turns, 1, Coverage(p)), Len(draft[p].ckpt))

(* The context is prepared, and compacted when it is too large. *)
PrepareContext(p) ==
    /\ pc[p] = "prompt"
    /\ \/ UNCHANGED <<draft, live>>
       \/ /\ Coverage(p) > Len(draft[p].ckpt)
          /\ draft' = [draft EXCEPT ![p].ckpt = NewCheckpoint(p)]
          /\ live' = [live EXCEPT ![p].reviewed = Len(draft[p].turns) + 1]
    /\ pc' = [pc EXCEPT ![p] = "running"]
    /\ UNCHANGED <<store, mem, cand, attempt, turn, History>>

(* The tool loop calls the model and a tool, once per turn. *)
Work(p) ==
    /\ pc[p] = "running"
    /\ \A i \in DOMAIN live[p].calls : live[p].calls[i] # turn[p]
    /\ live' = [live EXCEPT ![p].usage = @ + 1, ![p].calls = Append(@, turn[p])]
    /\ UNCHANGED <<store, mem, draft, cand, attempt, turn, pc, History>>

(* Cancelled, past its deadline, or ended by an error: an unreadable file, *)
(* a hook, the provider, the tools.                                        *)
TurnFails(p) ==
    /\ pc[p] \in {"adopt", "prompt", "running"}
    /\ EndTurn(p, "failed")

(* _capture_session_state, commit_turn and the decision to review. *)
Captured(p) ==
    LET turns == Append(draft[p].turns, turn[p])
        due   == Len(turns) - live[p].reviewed >= ReviewInterval
    IN  [draft[p] EXCEPT
            !.turns    = turns,
            !.usage    = live[p].usage,
            !.calls    = live[p].calls,
            !.reviewed = IF due THEN Len(turns) ELSE live[p].reviewed]

FinishTurn(p) ==
    /\ pc[p] = "running"
    /\ draft' = [draft EXCEPT ![p] = Captured(p)]
    /\ cand' = [cand EXCEPT ![p] = Captured(p)]
    /\ attempt' = [attempt EXCEPT ![p] = 1]
    /\ pc' = [pc EXCEPT ![p] = "save"]
    /\ UNCHANGED <<store, mem, live, turn, History>>

-----------------------------------------------------------------------------
(* The commit: _persist_session_state *)

(* Mutant: last writer wins. *)
AlwaysOwner(state) == TRUE

(* _save_locked: "expected_revision is not None and current != expected"   *)
(* is a conflict.                                                          *)
OwnsRevision(state) == state.rev = store.rev

(* The next revision of state replaces the file. *)
Write(p, state) ==
    /\ store' = [state EXCEPT !.rev = store.rev + 1]
    /\ cand' = [cand EXCEPT ![p] = store']
    /\ pc' = [pc EXCEPT ![p] = "publish"]

Save(p) ==
    /\ pc[p] = "save"
    /\ OwnsRevision(cand[p])
    /\ Write(p, cand[p])
    /\ outcome' = [outcome EXCEPT ![turn[p]] = "committed"]
    /\ UNCHANGED <<mem, live, draft, attempt, turn, answered, erased>>

(* What was saved becomes the committed state of this process; a turn      *)
(* returns its response.                                                   *)
Publish(p) ==
    /\ pc[p] = "publish"
    /\ mem' = [mem EXCEPT ![p] = cand[p]]
    /\ live' = [live EXCEPT ![p] = Attributes(cand[p])]
    /\ answered' = answered \cup ({turn[p]} \ {NoTurn})
    /\ Return(p, "idle")
    /\ UNCHANGED <<store, outcome, erased>>

MayRetry(p) == attempt[p] < MaxAttempts

SaveConflict(p) ==
    /\ pc[p] = "save"
    /\ ~OwnsRevision(cand[p])
    /\ MayRetry(p)
    /\ pc' = [pc EXCEPT ![p] = "rebase"]
    /\ UNCHANGED <<store, mem, live, draft, cand, attempt, turn, History>>

(* The last attempt conflicts, or the file cannot be written or read. *)
SaveFails(p) ==
    /\ pc[p] \in {"save", "rebase"}
    /\ EndTurn(p, "failed")

(* Mutants: no test for divergence; a rebase of the rebased candidate; a   *)
(* candidate's counters in place of the delta.                             *)
AlwaysExtension(p) == StoreExists

RebaseOfCandidate(p) ==
    [store EXCEPT
        !.turns = @ \o Drop(cand[p].turns, Len(mem[p].turns)),
        !.usage = @ + (draft[p].usage - mem[p].usage),
        !.calls = @ \o Drop(draft[p].calls, Len(mem[p].calls))]

RebaseOverwritingUsage(p) ==
    [store EXCEPT
        !.turns = @ \o Drop(draft[p].turns, Len(mem[p].turns)),
        !.usage = Larger(@, draft[p].usage),
        !.calls = @ \o Drop(draft[p].calls, Len(mem[p].calls))]

(* The persisted state is a forward extension of the committed one. *)
ExtendsCommitted(p) == StoreExists /\ IsPrefixOf(mem[p].turns, store.turns)

(* _rebase_session_candidate: the delta of the original candidate, over    *)
(* the persisted state.                                                    *)
Rebased(p) ==
    [store EXCEPT
        !.turns = @ \o Drop(draft[p].turns, Len(mem[p].turns)),
        !.ckpt = IF Len(draft[p].ckpt) > Len(@) THEN draft[p].ckpt ELSE @,
        !.usage = @ + (IF draft[p].usage > mem[p].usage
                       THEN draft[p].usage - mem[p].usage ELSE 0),
        !.calls = IF IsPrefixOf(mem[p].calls, @)
                  THEN @ \o Drop(draft[p].calls, Len(mem[p].calls)) ELSE @,
        !.reviewed = Larger(draft[p].reviewed, @)]

Rebase(p) ==
    /\ pc[p] = "rebase"
    /\ ExtendsCommitted(p)
    /\ cand' = [cand EXCEPT ![p] = Rebased(p)]
    /\ attempt' = [attempt EXCEPT ![p] = @ + 1]
    /\ pc' = [pc EXCEPT ![p] = "save"]
    /\ UNCHANGED <<store, mem, live, draft, turn, History>>

Diverged(p) ==
    /\ pc[p] = "rebase"
    /\ ~ExtendsCommitted(p)
    /\ EndTurn(p, "failed")

-----------------------------------------------------------------------------
(* Reset, crash and restart *)

(* reset_session: every turn has been cancelled; the empty state is saved  *)
(* under this process's own revision.  On a conflict nothing changes.      *)
Reset(p) ==
    /\ pc[p] = "idle"
    /\ OwnsRevision(mem[p])
    /\ Write(p, Fresh)
    /\ erased' = erased \cup Persisted
    /\ UNCHANGED <<mem, live, draft, attempt, turn, outcome, answered>>

(* The process dies.  Saving replaces the file atomically, so the turn in  *)
(* progress is in the file as a whole or not at all.                       *)
Crash(p) ==
    /\ pc[p] # "down"
    /\ mem' = [mem EXCEPT ![p] = Fresh]
    /\ live' = [live EXCEPT ![p] = Attributes(Fresh)]
    /\ Return(p, "down")
    /\ outcome' = [t \in Turns |->
                     IF t = turn[p] /\ outcome[t] = "running" THEN "lost"
                                                             ELSE outcome[t]]
    /\ UNCHANGED <<store, answered, erased>>

(* Agent.__init__ loads the session. *)
Restart(p) ==
    /\ pc[p] = "down"
    /\ pc' = [pc EXCEPT ![p] = "idle"]
    /\ mem' = [mem EXCEPT ![p] = store]
    /\ live' = [live EXCEPT ![p] = Attributes(store)]
    /\ UNCHANGED <<store, draft, cand, attempt, turn, History>>

-----------------------------------------------------------------------------
TurnStep(p) ==
    \/ \E t \in Turns : StartTurn(p, t)
    \/ Adopt(p) \/ PromptBlocked(p) \/ PrepareContext(p) \/ Work(p)
    \/ TurnFails(p) \/ FinishTurn(p)

CommitStep(p) ==
    \/ Save(p) \/ SaveConflict(p) \/ SaveFails(p)
    \/ Rebase(p) \/ Diverged(p) \/ Publish(p)

Next == \E p \in Procs :
    TurnStep(p) \/ CommitStep(p) \/ Reset(p) \/ Crash(p) \/ Restart(p)

Spec == Init /\ [][Next]_vars

(* The file is removed while other processes still serve the session       *)
(* (delete_persisted_session of one of them).                              *)
Delete(p) ==
    /\ pc[p] = "idle"
    /\ StoreExists
    /\ store' = Fresh
    /\ pc' = [pc EXCEPT ![p] = "down"]
    /\ mem' = [mem EXCEPT ![p] = Fresh]
    /\ live' = [live EXCEPT ![p] = Attributes(Fresh)]
    /\ erased' = erased \cup Persisted
    /\ UNCHANGED <<draft, cand, attempt, turn, outcome, answered>>

SharedDeleteSpec == Init /\ [][Next \/ \E p \in Procs : Delete(p)]_vars

-----------------------------------------------------------------------------
(* Properties *)

States == [rev : Nat, turns : Seq(Turns), ckpt : Seq(Turns),
           usage : Nat, calls : Seq(Turns), reviewed : Nat]

Places == {"idle", "adopt", "prompt", "running", "save", "rebase",
           "publish", "down"}

Outcomes == {"new", "running", "committed", "blocked", "failed", "lost"}

(* Every variable has its type. *)
TypeOK ==
    /\ store \in States
    /\ mem \in [Procs -> States]
    /\ live \in [Procs -> [usage : Nat, calls : Seq(Turns), reviewed : Nat]]
    /\ draft \in [Procs -> States]
    /\ cand \in [Procs -> States]
    /\ attempt \in [Procs -> 0..MaxAttempts]
    /\ turn \in [Procs -> Turns \cup {NoTurn}]
    /\ pc \in [Procs -> Places]
    /\ outcome \in [Turns -> Outcomes]
    /\ answered \subseteq Turns
    /\ erased \subseteq Turns

(* The inductive invariant, in parts: whose turn is in progress, *)
InProgress == {"adopt", "prompt", "running", "save", "rebase"}

TurnInv ==
    /\ \A p \in Procs :
         /\ pc[p] \in InProgress => turn[p] \in Turns /\ outcome[turn[p]] = "running"
         /\ pc[p] \in {"idle", "down"} => turn[p] = NoTurn
         /\ pc[p] = "publish" /\ turn[p] # NoTurn
              => outcome[turn[p]] = "committed" /\ turn[p] \in Persisted \cup erased
    /\ \A p, q \in Procs : turn[p] = turn[q] /\ turn[p] # NoTurn => p = q

(* that no process is ahead of the store, *)
MemInv ==
    /\ store.rev = 0 => store = Fresh
    /\ \A p \in Procs :
         mem[p].rev <= store.rev /\ (mem[p].rev = store.rev => mem[p] = store)

(* what a draft adds to the committed state it was opened on, *)
DraftInv ==
    \A p \in Procs :
       /\ pc[p] \in {"prompt", "running"}
            => draft[p].turns = mem[p].turns /\ draft[p].rev = mem[p].rev
       /\ pc[p] \in {"save", "rebase"} => draft[p].turns = Append(mem[p].turns, turn[p])

(* what a candidate of the store's revision adds to the store, *)
CandInv ==
    \A p \in Procs :
       /\ pc[p] = "save" =>
            /\ cand[p].rev <= store.rev
            /\ cand[p].rev = store.rev =>
                 /\ cand[p].turns = Append(store.turns, turn[p])
                 /\ IsPrefixOf(mem[p].turns, store.turns)
       /\ pc[p] = "publish" =>
            /\ cand[p].rev <= store.rev
            /\ cand[p].rev = store.rev => cand[p] = store
       /\ pc[p] = "rebase" => attempt[p] < MaxAttempts

(* and that every checkpoint summarises a prefix. *)
Summarises(s) == IsPrefixOf(s.ckpt, s.turns)

CkptInv ==
    /\ Summarises(store)
    /\ \A p \in Procs :
         /\ Summarises(mem[p])
         /\ pc[p] \in {"prompt", "running"} => Summarises(draft[p])
         /\ pc[p] \in {"save", "rebase"} => IsPrefixOf(draft[p].ckpt, mem[p].turns)
         /\ pc[p] \in {"save", "publish"} => Summarises(cand[p])

(* A process whose revision is the store's holds exactly the store's       *)
(* state: comparing revisions is as good as comparing states.              *)
RevisionIdentifiesState ==
    \A p \in Procs : mem[p].rev = store.rev => mem[p] = store

(* A turn whose response was returned is in the store unless a reset       *)
(* erased it; one that failed, was blocked or died with its process before *)
(* the save is not in the store, so that it can be submitted again.        *)
AnswersAreDurable ==
    /\ answered \subseteq Persisted \cup erased
    /\ \A t \in Turns : outcome[t] # "committed" => t \notin Persisted

(* A rebase replays no turn that is already there. *)
CommittedOnce ==
    \A i, j \in DOMAIN store.turns : store.turns[i] = store.turns[j] => i = j

(* Counters and the tool-call log hold what committed turns did, once:     *)
(* nothing of a turn that was rolled back, nothing twice after a rebase.   *)
UsageIsExact ==
    /\ store.usage = Len(store.calls)
    /\ \A i \in DOMAIN store.calls : store.calls[i] \in Persisted
    /\ \A i, j \in DOMAIN store.calls : store.calls[i] = store.calls[j] => i = j

(* The strengthening that makes the counters inductive: a state that a     *)
(* process holds as committed has only committed turns, and its calls      *)
(* follow the file's while its turns do; a turn in progress has added its  *)
(* one call and its one unit together, or neither.                         *)
Settled(s) ==
    /\ \A i \in DOMAIN s.turns : outcome[s.turns[i]] = "committed"
    /\ s.turns = << >> => s.calls = << >>

Follows(s) == IsPrefixOf(s.turns, store.turns) => IsPrefixOf(s.calls, store.calls)

Adds(s, base, t) ==
    \/ s.usage = base.usage /\ s.calls = base.calls
    \/ s.usage = base.usage + 1 /\ s.calls = Append(base.calls, t)

CallsInv ==
    \A p \in Procs :
       /\ Settled(mem[p]) /\ Follows(mem[p])
       /\ pc[p] = "publish" => Settled(cand[p]) /\ Follows(cand[p])
       /\ pc[p] \in {"prompt", "running"} => Adds(live[p], mem[p], turn[p])
       /\ pc[p] \in {"save", "rebase"} => Adds(draft[p], mem[p], turn[p])
       /\ pc[p] = "save" /\ cand[p].rev = store.rev => Adds(cand[p], store, turn[p])

(* A checkpoint summarises a prefix of the turns, so that the model's      *)
(* context (checkpoint, then the turns after it) has every turn once.      *)
CheckpointIsPrefix == IsPrefixOf(store.ckpt, store.turns)

(* "Committed turns are append-only": only a reset removes turns, and it   *)
(* removes none that the process which resets has not seen.                *)
AppendOnly ==
    [][IsPrefixOf(store.turns, store'.turns)
         \/ \E p \in Procs : mem[p].turns = store.turns /\ store'.turns = << >>]_vars

(* The same of commits alone, which is what remains to be asked where      *)
(* files may also be deleted.                                              *)
CommitsKeepTurns ==
    [][(\E t \in Turns : outcome[t] = "running" /\ outcome'[t] = "committed")
          => IsPrefixOf(store.turns, store'.turns)]_vars

(* A turn is committed only behind the turns it was based on: it is not    *)
(* resurrected onto a session that was reset meanwhile.                    *)
CommitsOnItsContext ==
    [][\A p \in Procs : pc[p] = "save" /\ pc'[p] = "publish"
          => IsPrefixOf(mem[p].turns, store'.turns)]_vars

(* Between turns a process shows what it holds as committed: a turn that   *)
(* did not commit leaves no trace in the attributes the next one starts    *)
(* from.                                                                   *)
RollbackIsComplete ==
    \A p \in Procs : pc[p] \in {"idle", "adopt"} => live[p] = Attributes(mem[p])

IInv ==
    /\ TypeOK
    /\ TurnInv /\ MemInv /\ DraftInv /\ CandInv /\ CkptInv
    /\ AnswersAreDurable /\ CommittedOnce /\ RollbackIsComplete
    /\ CallsInv /\ UsageIsExact

(* What every process may rely on when it opens the file, loads it only if *)
(* its revision moved, or starts the next turn: SessionStore._save_locked, *)
(* Agent._persist_session_state and _rebase_session_candidate.             *)
StoreIsSound ==
    /\ TypeOK
    /\ RevisionIdentifiesState
    /\ CommittedOnce
    /\ UsageIsExact
    /\ CheckpointIsPrefix
    /\ RollbackIsComplete

(* Submitters see an atomic log (CommittedLog). *)
Log == INSTANCE CommittedLog WITH log <- store.turns

ImplementsLog == Log!Spec

=============================================================================
