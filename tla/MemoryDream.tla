----------------------------- MODULE MemoryDream -----------------------------
(***************************************************************************)
(* The consolidation of a project's memory (memory_dream.py).  Processes   *)
(* that serve the same project read its events after a cursor, have the    *)
(* model merge them into MEMORY.md and advance the cursor, one at a time:  *)
(* a lock file with the token of its owner sees to that, and is taken over *)
(* when an hour has passed.  Every step is one operation on a file, and a  *)
(* process may end between any two of them.                                *)
(*                                                                         *)
(* MEMORY.md is the set of the events it reflects.                         *)
(***************************************************************************)
EXTENDS Naturals, FiniteSets, FiniteSetsExt

CONSTANTS
    Dreamers,      \* processes (or threads) that dream for one project
    MaxEvents,     \* bound: events ever appended
    DreamBatch,    \* DREAM_MAX_EVENTS
    MinNewEvents,  \* min_new_events
    MaxDreams,     \* bound: tokens of all dreamers
    None

ASSUME DreamAssumption ==
    /\ {DreamBatch, MinNewEvents, MaxDreams} \subseteq Nat \ {0}
    /\ MaxEvents \in Nat

VARIABLES
    events,   \* rows of the events table: the events 1..events
    mem,      \* MEMORY.md
    cursor,   \* dream_state.json
    lock,     \* dream.lock: None, or a token, written yet or not
    dreamer,  \* what each dreamer is doing and holds in memory
    aged,     \* tokens written more than DREAM_LOCK_STALE_SECONDS ago
    past      \* history: events judged not durable; MEMORY.md lost half written;
              \* a lock lost by the dreamer that had moved it aside; the name given to
              \* another lock while that of the owner was aside

dreamVars == <<events, mem, cursor, lock, dreamer, aged, past>>

File(token, written) == [token |-> token, written |-> written]

Asleep(n) == [pc |-> "asleep", n |-> n, seen |-> [last |-> 0, pending |-> {}, upto |-> 0],
              batch |-> {}, draft |-> {}, stolen |-> None, failed |-> FALSE]

(* There may be a lock that a process left behind long ago. *)
DreamInit ==
    /\ events = 0 /\ mem = {}
    /\ cursor = [last |-> 0, pending |-> {}, upto |-> 0, recent |-> FALSE]
    /\ lock \in {None} \cup {File(<<p, 0>>, TRUE) : p \in Dreamers}
    /\ dreamer = [p \in Dreamers |-> Asleep(0)]
    /\ aged = Dreamers \X {0}
    /\ past = [declined |-> {}, torn |-> FALSE, mislaid |-> FALSE, supplanted |-> FALSE]

At(p, pc) == dreamer[p].pc = pc

Goto(p, pc) == dreamer' = [dreamer EXCEPT ![p].pc = pc]

Token(p) == <<p, dreamer[p].n>>

Tokens == {<<p, n>> \in Dreamers \X (0..MaxDreams) : n <= dreamer[p].n}

(* MemoryStore.append_history, for the table the dreamer reads. *)
AppendEvent ==
    /\ events < MaxEvents
    /\ events' = events + 1
    /\ UNCHANGED <<mem, cursor, lock, dreamer, aged, past>>

(* get_events_after: the oldest ones, a batch at most. *)
EventsAfter(id) == {e \in (id + 1)..events : e <= id + DreamBatch}

-----------------------------------------------------------------------------
(* run_once up to the lock: the state and the first batch are read before. *)

LoadState(p) ==
    /\ At(p, "asleep") /\ Cardinality(Tokens) < MaxDreams + Cardinality(Dreamers)
    /\ ~cursor.recent
    /\ Cardinality(EventsAfter(cursor.last)) >= MinNewEvents
    /\ dreamer' = [dreamer EXCEPT ![p] =
         [Asleep(@.n + 1) EXCEPT !.pc = "create", !.batch = EventsAfter(cursor.last),
             !.seen = [last |-> cursor.last, pending |-> cursor.pending, upto |-> cursor.upto]]]
    /\ UNCHANGED <<events, mem, cursor, lock, aged, past>>

-----------------------------------------------------------------------------
(* _acquire_lock *)

Dreaming(p) ==
    dreamer[p].pc \in {"owner", "write", "writing", "save", "release", "unlink"}

(* Somebody else has moved the lock of a dreamer at work aside. *)
OwnerIsBare(p) ==
    \E q \in Dreamers \ {p}, owner \in Dreamers :
        Dreaming(owner) /\ dreamer[q].stolen = File(Token(owner), TRUE)

(* Nothing tells the name that was never taken from the one that is free   *)
(* because the lock is looked at elsewhere.                                *)
CreateLock(p) ==
    /\ At(p, "create")
    /\ \/ /\ lock = None
          /\ lock' = File(Token(p), FALSE) /\ Goto(p, "created")
          /\ past' = [past EXCEPT !.supplanted = @ \/ OwnerIsBare(p)]
       \/ /\ lock # None
          /\ Goto(p, "exists") /\ UNCHANGED <<lock, past>>
    /\ UNCHANGED <<events, mem, cursor, aged>>

(* The token lands in the file that was created, wherever it is by now. *)
WriteToken(p) ==
    /\ At(p, "created")
    /\ LET empty == File(Token(p), FALSE)
           full  == File(Token(p), TRUE)
       IN /\ lock' = IF lock = empty THEN full ELSE lock
          /\ dreamer' = [q \in Dreamers |->
               [dreamer[q] EXCEPT !.pc = IF q = p THEN "verify" ELSE @,
                                  !.stolen = IF @ = empty THEN full ELSE @]]
    /\ UNCHANGED <<events, mem, cursor, aged, past>>

(* The name no longer leads to the token: someone took the file. *)
VerifyLock(p) ==
    /\ At(p, "verify")
    /\ Goto(p, IF lock = File(Token(p), TRUE) THEN "owner" ELSE "create")
    /\ UNCHANGED <<events, mem, cursor, lock, aged, past>>

(* An empty file is maximally stale, or a crash would leave it for good. *)
Stale(file) == file.written => file.token \in aged

ReadLock(p) ==
    /\ At(p, "exists")
    /\ IF lock = None THEN dreamer' = [dreamer EXCEPT ![p] = Asleep(@.n)]
       ELSE IF lock = File(Token(p), TRUE) THEN Goto(p, "owner")
       ELSE IF Stale(lock) THEN Goto(p, "steal")
       ELSE dreamer' = [dreamer EXCEPT ![p] = Asleep(@.n)]
    /\ UNCHANGED <<events, mem, cursor, lock, aged, past>>

(* _steal_stale_lock: whatever has the name now is moved aside ...         *)
MoveAside(p) ==
    /\ At(p, "steal")
    /\ lock' = None
    /\ dreamer' = [dreamer EXCEPT ![p].pc = IF lock = None THEN "create" ELSE "recheck",
                                  ![p].stolen = lock]
    /\ UNCHANGED <<events, mem, cursor, aged, past>>

(* Mutant: what was moved aside is not looked at again. *)
OnceStale(file) == TRUE

StillStale(file) == Stale(file)

(* ... looked at again, and put back if it is alive and nothing has taken  *)
(* its place.                                                              *)
Recheck(p) ==
    /\ At(p, "recheck")
    /\ dreamer' = [dreamer EXCEPT ![p] =
         IF StillStale(@.stolen) THEN [@ EXCEPT !.pc = "create", !.stolen = None]
         ELSE IF lock = None THEN [@ EXCEPT !.pc = "put_back"]
         ELSE Asleep(@.n)]
    /\ UNCHANGED <<events, mem, cursor, lock, aged, past>>

PutBack(p) ==
    /\ At(p, "put_back")
    /\ lock' = dreamer[p].stolen
    /\ dreamer' = [dreamer EXCEPT ![p] = Asleep(@.n)]
    /\ past' = [past EXCEPT !.mislaid = @ \/ lock # None, !.supplanted = @ \/ OwnerIsBare(p)]
    /\ UNCHANGED <<events, mem, cursor, aged>>

-----------------------------------------------------------------------------
(* The consolidation, under the lock *)

(* A draft that could not be written last time is written first, and is    *)
(* all this run does; otherwise the model sees MEMORY.md and the batch, and *)
(* answers, declines, or fails.                                            *)
Consolidate(p) ==
    /\ At(p, "owner")
    /\ LET d == dreamer[p] IN
       \/ /\ d.seen.pending # {}
          /\ dreamer' = [dreamer EXCEPT ![p].pc = "write", ![p].draft = d.seen.pending]
          /\ UNCHANGED past
       \/ /\ d.seen.pending = {}
          /\ dreamer' = [dreamer EXCEPT ![p].pc = "write", ![p].draft = mem \cup d.batch]
          /\ UNCHANGED past
       \/ /\ d.seen.pending = {}
          /\ past' = [past EXCEPT !.declined = @ \cup d.batch]
          /\ Goto(p, "save")
       \/ d.seen.pending = {} /\ Goto(p, "release") /\ UNCHANGED past
    /\ UNCHANGED <<events, mem, cursor, lock, aged>>

(* write_long_term opens the file for writing, which empties it ...        *)
OpenMemory(p) ==
    /\ At(p, "write")
    /\ \/ mem' = {} /\ Goto(p, "writing")
       \/ dreamer' = [dreamer EXCEPT ![p].pc = "save", ![p].failed = TRUE] /\ UNCHANGED mem
    /\ UNCHANGED <<events, cursor, lock, aged, past>>

(* ... and fills it, or fails. *)
FillMemory(p) ==
    /\ At(p, "writing")
    /\ \/ mem' = dreamer[p].draft /\ Goto(p, "save") /\ UNCHANGED past
       \/ /\ dreamer' = [dreamer EXCEPT ![p].pc = "save", ![p].failed = TRUE]
          /\ past' = [past EXCEPT !.torn = TRUE]
          /\ UNCHANGED mem
    /\ UNCHANGED <<events, cursor, lock, aged>>

(* What dream_state.json says after a write that failed: what it said when *)
(* the run began, and the draft.                                           *)
KeepDraft(d, upto) ==
    [last |-> d.seen.last, pending |-> d.draft, upto |-> upto, recent |-> TRUE]

SaveState(p) ==
    /\ At(p, "save")
    /\ LET d    == dreamer[p]
           old  == d.seen.pending # {}
           upto == IF old THEN d.seen.upto ELSE Max(d.batch)
           rest == EventsAfter(upto)
       IN /\ cursor' = IF d.failed THEN KeepDraft(d, upto)
                       ELSE [last |-> upto, pending |-> {}, upto |-> 0, recent |-> TRUE]
          /\ dreamer' = [dreamer EXCEPT ![p] =
               IF d.failed \/ old \/ rest = {} THEN [d EXCEPT !.pc = "release"]
               ELSE [d EXCEPT !.pc = "owner", !.batch = rest, !.draft = {}]]
    /\ UNCHANGED <<events, mem, lock, aged, past>>

(* _release_lock reads the token, and then unlinks. *)
ReleaseLock(p) ==
    /\ At(p, "release")
    /\ dreamer' = [dreamer EXCEPT ![p] =
         IF lock = File(Token(p), TRUE) THEN [@ EXCEPT !.pc = "unlink"] ELSE Asleep(@.n)]
    /\ UNCHANGED <<events, mem, cursor, lock, aged, past>>

Unlink(p) ==
    /\ At(p, "unlink")
    /\ lock' = None
    /\ dreamer' = [dreamer EXCEPT ![p] = Asleep(@.n)]
    /\ UNCHANGED <<events, mem, cursor, aged, past>>

-----------------------------------------------------------------------------
(* Crashes and time *)

(* Threads go with their process, here one each.                           *)
CrashDreamer(p) ==
    /\ ~At(p, "asleep")
    /\ dreamer' = [dreamer EXCEPT ![p] = Asleep(@.n)]
    /\ past' = [past EXCEPT !.torn = @ \/ At(p, "writing"),
                             !.mislaid = @ \/ dreamer[p].stolen # None]
    /\ UNCHANGED <<events, mem, cursor, lock, aged>>

(* Bound of the model: a run takes less than the hour after which its lock *)
(* is stale ...                                                            *)
AnHourPasses ==
    /\ aged' = {t \in Tokens : t = Token(t[1]) => At(t[1], "asleep")}
    /\ aged' # aged
    /\ UNCHANGED <<events, mem, cursor, lock, dreamer, past>>

(* ... and much less than the interval between runs.                       *)
IntervalPasses ==
    /\ \A p \in Dreamers : At(p, "asleep")
    /\ cursor.recent
    /\ cursor' = [cursor EXCEPT !.recent = FALSE]
    /\ UNCHANGED <<events, mem, lock, dreamer, aged, past>>

DreamStep(p) ==
    \/ LoadState(p) \/ CreateLock(p) \/ WriteToken(p) \/ VerifyLock(p) \/ ReadLock(p)
    \/ MoveAside(p) \/ Recheck(p) \/ PutBack(p)
    \/ Consolidate(p) \/ OpenMemory(p) \/ FillMemory(p) \/ SaveState(p)
    \/ ReleaseLock(p) \/ Unlink(p)

DreamNext ==
    \/ \E p \in Dreamers : DreamStep(p) \/ CrashDreamer(p)
    \/ AppendEvent \/ AnHourPasses \/ IntervalPasses

-----------------------------------------------------------------------------
(* Properties *)

(* No two dreamers rewrite MEMORY.md at the same time, unless one ended    *)
(* while it had moved the other's lock aside, put it back over a lock that *)
(* was created in the meantime, or a third gave the name to another lock   *)
(* while that of the owner was aside to be looked at again (_acquire_lock, *)
(* _steal_stale_lock).  The last takes three processes; of two that race   *)
(* for a stale lock, exactly one wins (tests/test_memory_dream.py:138).    *)
OneDreamer ==
    \/ past.mislaid \/ past.supplanted
    \/ \A p, q \in Dreamers : Dreaming(p) /\ Dreaming(q) => p = q

(* The drafts that are still to be written, in a file or in a process. *)
Drafts == cursor.pending \cup UNION {dreamer[p].draft : p \in Dreamers}

(* The cursor passes an event only when MEMORY.md reflects it, or will as  *)
(* soon as a draft is written, or the model declined to keep it; unless a  *)
(* write of MEMORY.md, which is in place, was cut short, or the dreamers   *)
(* did not exclude each other (run_once).                                  *)
NothingForgotten ==
    \/ past.torn \/ past.mislaid \/ past.supplanted
    \/ (1..cursor.last) \subseteq mem \cup past.declined \cup Drafts

=============================================================================
