-------------------------------- MODULE Memory --------------------------------
(***************************************************************************)
(* The memory a process uses (memory._create_memory_manager): files and a  *)
(* database of its own, which the dreamers of all processes consolidate,   *)
(* or a remote service.  With the remote there are no local events, and    *)
(* the dreamers find nothing to do.  What a caller of the local memory     *)
(* does, what the dreamers do to MEMORY.md, and when a session has its     *)
(* conversation reviewed are checked apart.                                *)
(***************************************************************************)
EXTENDS MemoryDream, MemoryOutbox, MemoryFiles, MemoryReview, TLC

VARIABLES backend, part

vars == <<backend, part, dreamVars, outboxVars, filesVars, reviewVars>>

(* An http backend without a URL, and a backend nobody knows, are local.   *)
Backend(section) ==
    IF section.backend = "http" /\ section.url THEN "http" ELSE "local"

Sections == [backend : {"local", "http", "unknown"}, url : BOOLEAN]

Init ==
    /\ backend \in {Backend(s) : s \in Sections}
    /\ part \in {"dream", "files", "review", "remote"} /\ (part = "remote" <=> backend = "http")
    /\ DreamInit /\ OutboxInit /\ FilesInit /\ ReviewInit
    /\ part # "files" => store = [s \in Stores |-> EmptyStore]
    /\ part # "dream" => lock = None

Local ==
    /\ backend = "local" /\ UNCHANGED <<backend, part, outboxVars>>
    /\ \/ part = "dream" /\ DreamNext /\ UNCHANGED <<filesVars, reviewVars>>
       \/ part = "files" /\ FilesNext /\ UNCHANGED <<dreamVars, reviewVars>>
       \/ part = "review" /\ ReviewNext /\ UNCHANGED <<dreamVars, filesVars>>
Remote == backend = "http" /\ OutboxNext /\ UNCHANGED <<backend, part, dreamVars, filesVars, reviewVars>>

Next == Local \/ Remote

Spec == Init /\ [][Next]_vars

-----------------------------------------------------------------------------
(* Properties *)

TypeOK ==
    /\ events \in 0..MaxEvents /\ mem \subseteq 1..events
    /\ cursor.last \in 0..events /\ cursor.upto \in 0..events
    /\ lock = None \/ (lock.token[1] \in Dreamers /\ lock.written \in BOOLEAN)
    /\ Len(outbox) <= MaxOutbox
    /\ holder \in Writers \cup {Nobody}
    /\ mishaps \in 0..MaxMishaps

(* The dreamers exclude each other whatever a process does to a lock that  *)
(* looks stale, but for the put-back that goes wrong and the third process *)
(* that OneDreamer excepts (memory_dream._acquire_lock).                   *)
DreamersExclude == TypeOK /\ OneDreamer

(* The dreamers exclude each other, as far as they do, and nothing that    *)
(* happened goes by the memory unread then (memory_dream.run_dream).       *)
DreamsAreSound == DreamersExclude /\ NothingForgotten

-----------------------------------------------------------------------------
(* For TLC: the processes that call the memory are alike, as callers and as *)
(* dreamers; one more only dreams.                                         *)

Symmetry == Permutations(Callers)

=============================================================================
