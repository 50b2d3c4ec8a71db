----------------------------- MODULE MemoryFiles -----------------------------
(***************************************************************************)
(* The local memory (memory.py, memory_store.py) and the tool in front of  *)
(* it (tools.MemoryTool): for the user and for every project a MEMORY.md,  *)
(* a HISTORY.md and a database of events and facts, and for the user a     *)
(* soul and an identity.  Tools run in threads, and all of them find their *)
(* manager through two globals, the manager and the project it is for,     *)
(* which get_memory_manager reads and replaces one at a time.              *)
(***************************************************************************)
EXTENDS Naturals, Sequences, FiniteSets, SequencesExt

CONSTANTS
    Callers,      \* the event loop and the threads that run tools
    Roots,        \* project roots
    Cwd,          \* where the process runs: the project of a call that names none
    User,         \* the user's store
    Words,        \* texts, and what is searched for
    MaxResults,   \* max_results of a search
    MaxEntries,   \* events shown in a prompt
    MaxCalls,     \* bound: calls altogether
    MaxFaults,    \* bound: failed writes, queries and connections
    Nothing

ASSUME FilesAssumption ==
    /\ Cwd \in Roots /\ User \notin Roots /\ Nothing \notin Roots \cup Words \cup {User}
    /\ {MaxResults, MaxEntries, MaxCalls, MaxFaults} \subseteq Nat

VARIABLES
    store,    \* what is on disk, for the user and for every root
    manager,  \* _memory_manager: the root it is for, or Nothing
    cachedFor,\* _memory_manager_project_root
    caller,   \* what each caller is doing
    frozen,   \* an agent's frozen contexts and the root they are kept under
    calls, faults,
    told,     \* history: what every store would hold had it got what was meant for it
    mixed,    \* history: two calls for different roots met in get_memory_manager
    unloaded  \* history: a prompt's memory could not be loaded

filesVars == <<store, manager, cachedFor, caller, frozen, calls, faults, told, mixed, unloaded>>

Stores == Roots \cup {User}

Past(w) == [do |-> "append", scope |-> "user", content |-> w, n |-> MaxCalls]

EmptyStore == [memory |-> Nothing, soul |-> Nothing, identity |-> Nothing,
               history |-> << >>, db |-> FALSE, events |-> << >>, fact |-> Nothing]

(* What an earlier process left. *)
Earlier(w) ==
    [memory |-> w, soul |-> Nothing, identity |-> Nothing, fact |-> w, db |-> TRUE,
     history |-> <<Past(w)>>, events |-> <<Past(w)>>]

Free == [pc |-> "idle", root |-> Nothing, request |-> Nothing, mine |-> Nothing, answer |-> Nothing]

FilesInit ==
    /\ store \in [Stores -> {EmptyStore} \cup {Earlier(w) : w \in Words}] /\ told = store
    /\ manager = Nothing /\ cachedFor = Nothing
    /\ caller = [c \in Callers |-> Free]
    /\ frozen = [root |-> Nothing, persona |-> Nothing, memory |-> Nothing]
    /\ calls = 0 /\ faults = 0 /\ mixed = FALSE /\ unloaded = FALSE

(* What MemoryTool.execute is asked; one key stands for all of them.       *)
Request(do, scope, content) ==
    [do |-> do, scope |-> scope, content |-> content, n |-> IF do = "append" THEN calls ELSE 0]

(* read, stats, read_soul, read_identity, get_fact and list_facts.         *)
Reads == {"read"}

Requests ==
    {Request(do, scope, content) : do \in {"write", "append", "upsert"}, scope \in {"user", "project"},
                                   content \in Words}
    \cup {Request("delete", scope, Nothing) : scope \in {"user", "project"}}
    \cup {Request("search", "user", w) : w \in Words}
    \cup {Request("soul", scope, w) : scope \in {"user", "project"}, w \in Words}
    \cup {Request("identify", "user", w) : w \in Words}
    \cup {Request(do, "user", Nothing) : do \in {"write", "append", "upsert", "soul", "prompt"} \cup Reads}

(* The soul and the identity are the user's.                               *)
PersonaOfAProject(q) == q.do \in {"soul", "identify"} /\ q.scope # "user"

Incomplete(q) == q.do \in {"write", "append", "upsert", "soul"} /\ q.content = Nothing

Refused(q) == PersonaOfAProject(q) \/ Incomplete(q)

-----------------------------------------------------------------------------
(* get_memory_manager, one access to a global at a time *)

InLookup(c) == caller[c].pc \in {"check", "create", "publish", "return"}

(* Two callers after different roots are in there together.                *)
Meets(c) == \E d \in Callers \ {c} : InLookup(d) /\ caller[d].root # caller[c].root

Proceed(c, pc) ==
    /\ caller' = [caller EXCEPT ![c].pc = pc]
    /\ mixed' = (mixed \/ Meets(c))

Call(c) ==
    /\ caller[c].pc = "idle" /\ calls < MaxCalls
    /\ \E root \in Roots \cup {Nothing}, q \in Requests :
          /\ q.do = "prompt" => root \notin {Nothing, frozen.root}
          /\ caller' = [caller EXCEPT ![c] =
                          [Free EXCEPT !.root = root, !.request = q, !.pc = "check"]]
    /\ calls' = calls + 1
    /\ UNCHANGED <<store, manager, cachedFor, frozen, faults, told, mixed, unloaded>>

(* Mutant: a manager that exists is the manager. *)
AnyManager(root) == manager = Nothing

NeedsManager(root) == manager = Nothing \/ (root # Nothing /\ root # cachedFor)

Check(c) ==
    /\ caller[c].pc = "check"
    /\ Proceed(c, IF NeedsManager(caller[c].root) THEN "create" ELSE "return")
    /\ UNCHANGED <<store, manager, cachedFor, frozen, calls, faults, told, unloaded>>

Create(c) ==
    /\ caller[c].pc = "create"
    /\ manager' = (IF caller[c].root = Nothing THEN Cwd ELSE caller[c].root)
    /\ Proceed(c, "publish")
    /\ UNCHANGED <<store, cachedFor, frozen, calls, faults, told, unloaded>>

Publish(c) ==
    /\ caller[c].pc = "publish"
    /\ cachedFor' = caller[c].root
    /\ Proceed(c, "return")
    /\ UNCHANGED <<store, manager, frozen, calls, faults, told, unloaded>>

(* The global is read once more: it may be another's by now.               *)
Return(c) ==
    /\ caller[c].pc = "return"
    /\ mixed' = (mixed \/ Meets(c))
    /\ caller' = [caller EXCEPT ![c] = IF Refused(@.request) THEN Free
                                        ELSE [@ EXCEPT !.mine = manager, !.pc = "have"]]
    /\ UNCHANGED <<store, manager, cachedFor, frozen, calls, faults, told, unloaded>>

-----------------------------------------------------------------------------
(* The operations on a store *)

Doing(c, do) == caller[c].pc = "have" /\ caller[c].request.do = do

(* _store_for_scope of a manager for r.                                    *)
StoreFor(r, q) == IF q.scope = "project" THEN r ELSE User

(* Whom a call means: a call without a root means whichever is current.    *)
MeantFor(c) ==
    LET r == IF caller[c].root = Nothing THEN caller[c].mine ELSE caller[c].root
    IN  StoreFor(r, caller[c].request)

(* Texts and facts are replaced, entries appended; what goes into the      *)
(* database opens it first.                                                *)
Changed(s, field, x) ==
    [s EXCEPT ![field] = IF field \in {"history", "events"} THEN Append(@, x) ELSE x,
              !.db = @ \/ field \in {"events", "fact"}]

(* One change of the store a caller has; told gets it where it was meant.  *)
Apply(c, field, x) ==
    /\ store' = [store EXCEPT ![StoreFor(caller[c].mine, caller[c].request)] = Changed(@, field, x)]
    /\ told'  = [told EXCEPT ![MeantFor(c)] = Changed(@, field, x)]

Faulty == faults < MaxFaults /\ faults' = faults + 1

Answer(c) == caller' = [caller EXCEPT ![c] = Free]

(* A text is opened for writing and then filled; what fails is logged, and *)
(* the tool reports success.                                               *)
Overwrite(c, field) ==
    /\ \/ Apply(c, field, caller[c].request.content) /\ UNCHANGED faults
       \/ Faulty /\ Apply(c, field, Nothing)
       \/ Faulty /\ UNCHANGED <<store, told>>
    /\ Answer(c)
    /\ UNCHANGED <<manager, cachedFor, frozen, calls, mixed, unloaded>>

WriteMemory(c) == Doing(c, "write") /\ Overwrite(c, "memory")
WriteSoul(c) == Doing(c, "soul") /\ Overwrite(c, "soul")
Identify(c) == Doing(c, "identify") /\ Overwrite(c, "identity")

Read(c) ==
    /\ \E do \in Reads : Doing(c, do)
    /\ Answer(c)
    /\ UNCHANGED <<store, manager, cachedFor, frozen, calls, faults, told, mixed, unloaded>>

(* append_history: HISTORY.md, and then the events, each failing alone.    *)
AppendHistory(c) ==
    /\ Doing(c, "append")
    /\ \/ Apply(c, "history", caller[c].request) /\ UNCHANGED faults
       \/ Faulty /\ UNCHANGED <<store, told>>
    /\ caller' = [caller EXCEPT ![c].pc = "event", ![c].answer = faults' # faults]
    /\ UNCHANGED <<manager, cachedFor, frozen, calls, mixed, unloaded>>

RecordEvent(c) ==
    /\ caller[c].pc = "event"
    /\ \/ /\ Apply(c, "events", caller[c].request)
          /\ caller' = [caller EXCEPT ![c].pc = "answered", ![c].answer = FALSE]
          /\ UNCHANGED faults
       \/ /\ Faulty /\ UNCHANGED <<store, told>>
          /\ caller' = [caller EXCEPT ![c].pc = "answered"]
    /\ UNCHANGED <<manager, cachedFor, frozen, calls, mixed, unloaded>>

(* A database that fails is an error of the tool.                          *)
SetFact(c, value) ==
    /\ \/ Apply(c, "fact", value) /\ UNCHANGED faults
       \/ Faulty /\ UNCHANGED <<store, told>>
    /\ Answer(c)
    /\ UNCHANGED <<manager, cachedFor, frozen, calls, mixed, unloaded>>

UpsertFact(c) == Doing(c, "upsert") /\ SetFact(c, caller[c].request.content)
DeleteFact(c) == Doing(c, "delete") /\ SetFact(c, Nothing)

-----------------------------------------------------------------------------
(* Searching *)

Hit(s, source, of) == [store |-> s, source |-> source, of |-> of]

InMemory(s, w) == IF store[s].memory = w THEN <<Hit(s, "memory", w)>> ELSE << >>
InFacts(s, w)  == IF store[s].fact = w THEN <<Hit(s, "facts", w)>> ELSE << >>
Entries(s, source, log, w) ==
    [i \in 1..Len(SelectSeq(log, LAMBDA e : e.content = w)) |->
        Hit(s, source, SelectSeq(log, LAMBDA e : e.content = w)[i])]
InEvents(s, w)  == Entries(s, "events", store[s].events, w)
InHistory(s, w) == Entries(s, "history", store[s].history, w)

First(n, hits) == SubSeq(hits, 1, IF n < Len(hits) THEN n ELSE Len(hits))

(* The events a query returns: the best by a rank that is not modelled.    *)
Ranked(n, hits) ==
    IF n >= Len(hits) THEN {hits}
    ELSE {First(n, p) : p \in {Reverse(hits), hits}}

RoomFor(n, taken) == n - Len(taken)

(* SQLiteMemoryStore.search: facts, then events; a query that fails finds  *)
(* nothing.                                                                *)
InDatabase(s, w, n, broken) ==
    LET facts == IF broken THEN << >> ELSE First(n, InFacts(s, w))
    IN  {facts \o e : e \in IF broken THEN {<< >>}
                            ELSE Ranked(RoomFor(n, facts), InEvents(s, w))}

(* MemoryStore.search_memory; a database that cannot be opened is replaced *)
(* by HISTORY.md.                                                          *)
SearchStore(s, w, n, fault) ==
    LET memory == First(n, InMemory(s, w))
        rest   == RoomFor(n, memory)
    IN  {memory \o r : r \in IF rest = 0 THEN {<< >>}
                             ELSE IF fault = "closed" THEN {First(rest, InHistory(s, w))}
                             ELSE InDatabase(s, w, rest, fault = "broken")}

(* MemoryManager.search: the project, and what room is left for the user.  *)
SearchAll(r, w, fault) ==
    UNION {{p \o u : u \in IF Len(p) >= MaxResults THEN {<< >>}
                           ELSE SearchStore(User, w, RoomFor(MaxResults, p), fault)} :
             p \in SearchStore(r, w, MaxResults, fault)}

Search(c) ==
    /\ Doing(c, "search")
    /\ \E fault \in {"none", "closed", "broken"} :
          /\ IF fault = "none" THEN UNCHANGED faults ELSE Faulty
          /\ \E hits \in SearchAll(caller[c].mine, caller[c].request.content, fault) :
                caller' = [caller EXCEPT ![c].pc = "answered",
                             ![c].answer = [hits |-> hits, fault |-> fault, seen |-> store]]
    /\ UNCHANGED <<store, manager, cachedFor, frozen, calls, told, mixed, unloaded>>

-----------------------------------------------------------------------------
(* The prompt *)

Newest(n, log) == SubSeq(log, IF n < Len(log) THEN Len(log) - n + 1 ELSE 1, Len(log))

(* MemoryStore.get_memory_context: MEMORY.md, the facts and the newest     *)
(* events, or HISTORY.md while there are none.                             *)
ContextOf(s) ==
    [of     |-> s,
     memory |-> store[s].memory,
     fact   |-> store[s].fact,
     recent |-> IF store[s].db /\ store[s].events # << >> THEN Newest(MaxEntries, store[s].events)
                ELSE store[s].history]

(* Agent._get_memory_prompt_context: what was loaded first stays until the *)
(* agent is reset or asked for another root.  The root is set before the   *)
(* contexts, and the facts may fail to load.                               *)
FreezePrompt(c) ==
    /\ Doing(c, "prompt")
    /\ LET loaded == [root    |-> caller[c].root,
                      persona |-> [soul |-> store[User].soul, identity |-> store[User].identity],
                      memory  |-> <<ContextOf(User), ContextOf(caller[c].mine)>>]
       IN \/ frozen' = loaded /\ UNCHANGED <<faults, unloaded>>
          \/ /\ Faulty /\ unloaded' = TRUE
             /\ frozen' = [loaded EXCEPT !.memory = frozen.memory]
    /\ Answer(c)
    /\ UNCHANGED <<store, manager, cachedFor, calls, told, mixed>>

(* reset_memory_context_snapshot.                                          *)
Unfreeze ==
    /\ frozen.root # Nothing
    /\ frozen' = [root |-> Nothing, persona |-> Nothing, memory |-> Nothing]
    /\ UNCHANGED <<store, manager, cachedFor, caller, calls, faults, told, mixed, unloaded>>

Finish(c) ==
    /\ caller[c].pc = "answered"
    /\ caller' = [caller EXCEPT ![c] = Free]
    /\ UNCHANGED <<store, manager, cachedFor, frozen, calls, faults, told, mixed, unloaded>>

FilesNext ==
    \/ \E c \in Callers :
          \/ Call(c) \/ Check(c) \/ Create(c) \/ Publish(c) \/ Return(c)
          \/ WriteMemory(c) \/ WriteSoul(c) \/ Identify(c) \/ Read(c)
          \/ AppendHistory(c) \/ RecordEvent(c) \/ UpsertFact(c) \/ DeleteFact(c)
          \/ Search(c) \/ FreezePrompt(c) \/ Finish(c)
    \/ Unfreeze

-----------------------------------------------------------------------------
(* Properties *)

(* Unless two calls for different projects met while the manager was       *)
(* looked up, every store holds what was meant for it.                     *)
StoresAreApart == mixed \/ store = told

(* Whoever was told that an entry was appended finds it in HISTORY.md or   *)
(* among the events, unless both failed.                                   *)
EntriesAreKept ==
    \A c \in Callers :
        (/\ caller[c].pc = "answered" /\ caller[c].request.do = "append" /\ caller[c].answer = FALSE)
        => LET s == store[StoreFor(caller[c].mine, caller[c].request)]
           IN  caller[c].request \in ToSet(s.history) \cup ToSet(s.events)

Before(r, a, b) ==
    LET at == [memory |-> 1, facts |-> 2, events |-> 3, history |-> 3]
    IN  \/ a.store = r /\ b.store # r
        \/ a.store = b.store /\ at[a.source] <= at[b.source]

(* A search returns no more than was asked for, the project before the     *)
(* user and curated memory before what happened, and with room left it has *)
(* missed nothing that the database would have found.                      *)
SearchIsRanked ==
    \A c \in Callers :
        (caller[c].pc = "answered" /\ caller[c].request.do = "search")
        => LET hits == caller[c].answer.hits
               seen == caller[c].answer.seen
               w    == caller[c].request.content
           IN  /\ Len(hits) <= MaxResults
               /\ \A i, j \in DOMAIN hits : i < j => Before(caller[c].mine, hits[i], hits[j])
               /\ (Len(hits) < MaxResults /\ caller[c].answer.fault = "none")
                  => \A s \in {User, caller[c].mine} :
                        /\ seen[s].memory = w => \E i \in DOMAIN hits : hits[i] = Hit(s, "memory", w)
                        /\ seen[s].fact = w => \E i \in DOMAIN hits : hits[i] = Hit(s, "facts", w)
                        /\ \A k \in DOMAIN seen[s].events :
                              seen[s].events[k].content = w =>
                                \E i \in DOMAIN hits : hits[i] = Hit(s, "events", seen[s].events[k])

(* A prompt is given the memory of its own project and the user's persona, *)
(* unless the lookup was mixed up or the memory could not be loaded.       *)
PromptIsOwn ==
    (frozen.root # Nothing /\ ~mixed /\ ~unloaded) =>
        frozen.memory[1].of = User /\ frozen.memory[2].of = frozen.root

(* No project has a soul or an identity.                                   *)
PersonaIsTheUsers ==
    \A r \in Roots : store[r].soul = Nothing /\ store[r].identity = Nothing

(* What is remembered is found again where it belongs, by whom it concerns *)
(* (memory.MemoryManager, tools.MemoryTool, Agent._get_memory_prompt_      *)
(* context).                                                               *)
MemoryIsKept ==
    StoresAreApart /\ EntriesAreKept /\ SearchIsRanked /\ PromptIsOwn /\ PersonaIsTheUsers

=============================================================================
