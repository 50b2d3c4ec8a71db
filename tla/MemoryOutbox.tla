----------------------------- MODULE MemoryOutbox ----------------------------
(***************************************************************************)
(* Writes to a remote memory (memory_http.py).  A write first replays what *)
(* is staged in the outbox file; it goes to the remote only when nothing   *)
(* is staged any more, and is staged itself otherwise, or when it fails.   *)
(* The threads of one process share the file under a lock, but a write     *)
(* goes out without it.  A reply may get lost after the remote has         *)
(* applied the write, the process may end at any point, and the file may   *)
(* not be read or written: the code logs that and goes on as if it had.    *)
(***************************************************************************)
EXTENDS Naturals, Sequences, FiniteSets, SequencesExt

CONSTANTS
    Writers,     \* threads that write
    MaxWrites,   \* bound: writes of each
    MaxOutbox,   \* MAX_OUTBOX_ENTRIES
    MaxMishaps,  \* bound: crashes, failed calls, and reads and writes of the file that fail
    Nobody

ASSUME OutboxAssumption ==
    /\ MaxOutbox \in Nat \ {0} /\ {MaxWrites, MaxMishaps} \subseteq Nat
    /\ Nobody \notin Writers

VARIABLES
    outbox,   \* memory-outbox.jsonl
    remote,   \* what the remote has applied, in order
    writer,   \* what each thread is doing: pc, its write, the entries it read
    holder,   \* _outbox_lock
    cooling,  \* _last_flush_attempt is less than the cooldown ago
    promised, \* history: the writes that have returned, and those before each; what a
              \* full outbox dropped; what a file that failed lost; the order it broke
    mishaps

outboxVars == <<outbox, remote, writer, holder, cooling, promised, mishaps>>

Idle(k) == [pc |-> "idle", k |-> k, entries |-> << >>, at |-> 0]

OutboxInit ==
    /\ outbox = << >> /\ remote = << >>
    /\ writer = [t \in Writers |-> Idle(0)]
    /\ holder = Nobody /\ cooling = FALSE
    /\ promised = [returned |-> {}, before |-> {}, dropped |-> {}, lost |-> {}, stuck |-> FALSE]
    /\ mishaps = 0

Write(t) == <<t, writer[t].k>>

(* _write begins. *)
BeginWrite(t) ==
    /\ writer[t].pc = "idle" /\ writer[t].k < MaxWrites
    /\ writer' = [writer EXCEPT ![t] = [Idle(@.k + 1) EXCEPT !.pc = "flush"]]
    /\ promised' = [promised EXCEPT !.before = @ \cup
                      {<<a, <<t, writer[t].k + 1>>>> : a \in promised.returned}]
    /\ UNCHANGED <<outbox, remote, holder, cooling, mishaps>>

(* Mutant: a write does not wait for what is staged before it. *)
AlwaysDirect == "direct"

(* Where a write goes while older ones are staged. *)
WhileStuck == "stage"

(* _flush_outbox, up to the first call; the lock is kept for the replay.   *)
(* A file that cannot be read is taken for an empty one (_read_outbox).    *)
FlushBegins(t) ==
    /\ writer[t].pc = "flush" /\ holder = Nobody
    /\ \/ /\ outbox = << >>
          /\ writer' = [writer EXCEPT ![t].pc = "direct"]
          /\ UNCHANGED <<holder, cooling, promised, mishaps>>
       \/ /\ outbox # << >> /\ mishaps < MaxMishaps
          /\ mishaps' = mishaps + 1
          /\ promised' = [promised EXCEPT !.stuck = TRUE]
          /\ writer' = [writer EXCEPT ![t].pc = "direct"]
          /\ UNCHANGED <<holder, cooling>>
       \/ /\ outbox # << >> /\ cooling
          /\ writer' = [writer EXCEPT ![t].pc = WhileStuck]
          /\ UNCHANGED <<holder, cooling, promised, mishaps>>
       \/ /\ outbox # << >> /\ ~cooling
          /\ writer' = [writer EXCEPT ![t].pc = "replay", ![t].entries = outbox, ![t].at = 1]
          /\ holder' = t /\ cooling' = TRUE
          /\ UNCHANGED <<promised, mishaps>>
    /\ UNCHANGED <<outbox, remote>>

(* _dispatch: the remote applies the write and says so, or one of the two  *)
(* does not happen.                                                        *)
Applied(w) == remote' = Append(remote, w) /\ UNCHANGED mishaps

Failed(w) ==
    /\ mishaps < MaxMishaps
    /\ mishaps' = mishaps + 1
    /\ remote' \in {remote, Append(remote, w)}

(* One entry after the other, up to the first that fails. *)
Replay(t) ==
    /\ writer[t].pc = "replay"
    /\ LET n == writer[t].at
           e == writer[t].entries
       IN \/ /\ Applied(e[n])
             /\ writer' = [writer EXCEPT ![t].at = n + 1,
                             ![t].pc = IF n = Len(e) THEN "rewrite" ELSE "replay"]
          \/ Failed(e[n]) /\ writer' = [writer EXCEPT ![t].pc = "rewrite"]
    /\ UNCHANGED <<outbox, holder, cooling, promised>>

(* _write_outbox replaces the file with what remains; when it cannot, the  *)
(* entries that went through will go again, after what comes next.         *)
Rewrite(t) ==
    /\ writer[t].pc = "rewrite"
    /\ LET rest == SubSeq(writer[t].entries, writer[t].at, Len(writer[t].entries)) IN
       /\ \/ outbox' = rest /\ UNCHANGED <<mishaps, promised>>
          \/ /\ mishaps < MaxMishaps /\ mishaps' = mishaps + 1
             /\ promised' = [promised EXCEPT !.stuck = TRUE]
             /\ UNCHANGED outbox
       /\ writer' = [writer EXCEPT ![t].entries = << >>, ![t].at = 0,
                       ![t].pc = IF rest = << >> THEN "direct" ELSE WhileStuck]
    /\ holder' = Nobody
    /\ UNCHANGED <<remote, cooling>>

Returns(t) == writer' = [writer EXCEPT ![t] = Idle(@.k)]

DirectWrite(t) ==
    /\ writer[t].pc = "direct"
    /\ \/ /\ Applied(Write(t)) /\ Returns(t)
          /\ promised' = [promised EXCEPT !.returned = @ \cup {Write(t)}]
       \/ /\ Failed(Write(t))
          /\ writer' = [writer EXCEPT ![t].pc = "stage"]
          /\ UNCHANGED promised
    /\ UNCHANGED <<outbox, holder, cooling>>

(* A full outbox drops its oldest entries. *)
Surplus == IF Len(outbox) < MaxOutbox THEN 0 ELSE Len(outbox) + 1 - MaxOutbox

(* The file without its first n entries, and with the write. *)
Cut(n, w) == SubSeq(Append(outbox, w), n + 1, Len(outbox) + 1)

(* _stage; _write_outbox and _read_outbox may fail, and nobody is told.    *)
Stage(t) ==
    /\ writer[t].pc = "stage" /\ holder = Nobody
    /\ \/ /\ outbox' = Cut(Surplus, Write(t))
          /\ promised' = [promised EXCEPT
               !.returned = @ \cup {Write(t)},
               !.dropped = @ \cup Range(SubSeq(outbox, 1, Surplus))]
          /\ UNCHANGED mishaps
       \/ /\ mishaps < MaxMishaps /\ mishaps' = mishaps + 1
          /\ \/ /\ outbox' = Cut(Len(outbox), Write(t))
                /\ promised' = [promised EXCEPT
                     !.returned = @ \cup {Write(t)}, !.lost = @ \cup Range(outbox)]
             \/ /\ promised' = [promised EXCEPT
                     !.returned = @ \cup {Write(t)}, !.lost = @ \cup {Write(t)}]
                /\ UNCHANGED outbox
    /\ Returns(t)
    /\ UNCHANGED <<remote, holder, cooling>>

CooldownPasses ==
    /\ cooling /\ holder = Nobody
    /\ cooling' = FALSE
    /\ UNCHANGED <<outbox, remote, writer, holder, promised, mishaps>>

(* The process ends, and another begins with what the file says. *)
CrashWriters ==
    /\ mishaps < MaxMishaps /\ mishaps' = mishaps + 1
    /\ \E t \in Writers : writer[t].pc # "idle"
    /\ writer' = [t \in Writers |-> Idle(writer[t].k)]
    /\ holder' = Nobody /\ cooling' = FALSE
    /\ UNCHANGED <<outbox, remote, promised>>

OutboxNext ==
    \/ \E t \in Writers :
         \/ BeginWrite(t) \/ FlushBegins(t) \/ Replay(t) \/ Rewrite(t)
         \/ DirectWrite(t) \/ Stage(t)
    \/ CooldownPasses \/ CrashWriters

OutboxSpec == OutboxInit /\ [][OutboxNext]_outboxVars

-----------------------------------------------------------------------------
(* Properties *)

(* What a full outbox dropped, and what a file that failed lost. *)
Gone == promised.dropped \cup promised.lost

(* A write that has returned is at the remote or staged, unless the outbox *)
(* overflowed, could not be written when this write was staged, or not be  *)
(* read when a later one was (_write, _stage): these failures are only     *)
(* logged, and no others lose a write.                                     *)
NothingLost ==
    promised.returned \subseteq Range(remote) \cup Range(outbox) \cup Gone

PlacesOf(w) == {i \in DOMAIN remote : remote[i] = w}

(* A write that began after another had returned reaches the remote after  *)
(* it; and when a repetition of the older one comes last, the newer one is *)
(* still to be repeated, so the older never wins (docs/memory.md: strict   *)
(* FIFO).  An outbox that could not be rewritten after a replay, or read   *)
(* before a write, breaks this, and a write that is gone has no order.     *)
OrderHolds ==
    promised.stuck \/ \A pair \in promised.before :
        LET a == pair[1]
            b == pair[2]
        IN {a, b} \cap Gone = {} /\ PlacesOf(b) # {} =>
             /\ \E i \in PlacesOf(a) : \A j \in PlacesOf(b) : i < j
             /\ \/ b \in Range(outbox)
                \/ \E j \in PlacesOf(b) : \A i \in PlacesOf(a) : i < j

RemoteIsFaithful == NothingLost /\ OrderHolds

=============================================================================
