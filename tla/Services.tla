------------------------------- MODULE Services -------------------------------
(***************************************************************************)
(* What stands around the sessions and shares no state with them nor with  *)
(* one another: patches to files, the event bus, the legacy queue, the     *)
(* configuration file, the two clients, the skills of the process and what *)
(* a turn offers the model.  A behaviour shows one of them.                *)
(***************************************************************************)
EXTENDS Patch, EventBus, MessageQueue, ConfigFile, EmbeddedClient, HttpClient, Skills, ToolOffer

VARIABLE part

vars == <<part, patchVars, busVars, queueVars, configVars, embeddedVars, httpVars, skillVars, offerVars>>

SomePatch == CHOOSE patch \in Patches : TRUE
SomeFile  == CHOOSE any \in Files : TRUE
SomeEnv   == CHOOSE e \in Envs : TRUE
SomeTurn  == Turn(CHOOSE cap \in Capabilities : TRUE, CHOOSE c \in Contexts : TRUE)

(* The parts that do not move stand at one of their initial states.        *)
Init ==
    /\ part \in {"patch", "bus", "queue", "config", "embedded", "http", "skills", "offer"}
    /\ part # "patch" => /\ text = Written(SomePatch)
                         /\ files = [p \in Paths |-> None] /\ folders = {}
    /\ PatchInit /\ BusInit /\ QueueInit
    /\ part # "config" => /\ onDisk = SomeFile
                          /\ env = SomeEnv
    /\ ConfigInit /\ EmbeddedInit /\ HttpInit /\ SkillsInit
    /\ part # "offer" => offer = SomeTurn
    /\ OfferInit

Patching == part = "patch" /\ PatchNext
            /\ UNCHANGED <<part, busVars, queueVars, configVars, embeddedVars, httpVars, skillVars, offerVars>>
Bus      == part = "bus" /\ BusNext
            /\ UNCHANGED <<part, patchVars, queueVars, configVars, embeddedVars, httpVars, skillVars, offerVars>>
Queue    == part = "queue" /\ QueueNext
            /\ UNCHANGED <<part, patchVars, busVars, configVars, embeddedVars, httpVars, skillVars, offerVars>>
Config   == part = "config" /\ ConfigNext
            /\ UNCHANGED <<part, patchVars, busVars, queueVars, embeddedVars, httpVars, skillVars, offerVars>>
Embedded == part = "embedded" /\ EmbeddedNext
            /\ UNCHANGED <<part, patchVars, busVars, queueVars, configVars, httpVars, skillVars, offerVars>>
Http     == part = "http" /\ HttpNext
            /\ UNCHANGED <<part, patchVars, busVars, queueVars, configVars, embeddedVars, skillVars, offerVars>>

Skilled  == part = "skills" /\ SkillsNext
            /\ UNCHANGED <<part, patchVars, busVars, queueVars, configVars, embeddedVars, httpVars, offerVars>>
Offering == part = "offer" /\ OfferNext
            /\ UNCHANGED <<part, patchVars, busVars, queueVars, configVars, embeddedVars, httpVars, skillVars>>

Next == Patching \/ Bus \/ Queue \/ Config \/ Embedded \/ Http \/ Skilled \/ Offering

Spec == Init /\ [][Next]_vars

-----------------------------------------------------------------------------
(* Properties *)

(* A patch does what it says to all of its files or to none of them        *)
(* (apply_patch.PatchApplier).                                             *)
PatchesAreAtomic == part = "patch" => PatchIsAtomic

(* A handler is called in its turn for what it subscribed to, once if it   *)
(* said so, and the history is what was emitted (event_bus.EventBus); the  *)
(* legacy queue loses no prompt and keeps their order                      *)
(* (message_queue.run_with_queue).                                         *)
DeliveriesAreSound ==
    /\ part = "bus" => BusIsSound
    /\ part = "queue" => QueueIsInOrder


(* Sessions that a program reaches through a client end with their agents, *)
(* and what the client asks of a server is done as often as it was meant   *)
(* (client/embedded.EmbeddedClient, client/http_client.HTTPClient).        *)
ClientsAreSound ==
    /\ part = "embedded" => EmbeddedIsSound
    /\ part = "http" => HttpIsSound

(* The skills of the process are those of its files while the watcher sees *)
(* no change, and never another project's; a turn offers the model what    *)
(* the agent may use and what fits, and a name leads to the tool that was  *)
(* shown under it (skills.SkillWatcher, context_builder.ContextBuilder,    *)
(* progressive, mcp_naming, tool_execution).                               *)
OffersAreSound ==
    /\ part = "skills" => SkillsAreSound
    /\ part = "offer" => OfferIsSound

-----------------------------------------------------------------------------
(* The instance that TLC checks. *)

CONSTANTS fileA, fileB, dir, weakly, once, both, one, two, s1, s2, c1, c2, c3, c4,
          pa, pb, w1, w2, w3, w4, u1, u2, i1, i2, n1, n2, sk, pr1, pr2

-----------------------------------------------------------------------------
(* Patches: texts of up to four lines, hunks with and without anchors,     *)
(* alone, two to a file, with a move, and over several files.              *)
MCFolder == (fileA :> Root) @@ (fileB :> dir)

TextLine(w) == [word |-> <<w>>, lead |-> 0, ended |-> TRUE]
Indented(w) == [TextLine(w) EXCEPT !.lead = 1]
A == TextLine("a")
B == TextLine("b")

MCContents == {<< >>, <<A>>, <<A, B>>, <<Indented("a"), A, B>>, <<A, B, A, B>>, <<A, [B EXCEPT !.ended = FALSE]>>}

HunkLine(sign, l) == [sign |-> sign, word |-> l.word, lead |-> l.lead]
Hunk(anchors, lines) == [anchors |-> anchors, lines |-> lines]
Keeps(l) == HunkLine(" ", l)
Drops(l) == HunkLine("-", l)
AddsC == HunkLine("+", TextLine("c"))
Update(path, to, hunks) == Op("update", path, to, << >>, hunks)
Add(path, lines) == Op("add", path, None, lines, << >>)
Delete(path) == Op("delete", path, None, << >>, << >>)

MCHunks ==
    {Hunk(an, ls) : an \in {<< >>, <<<<"a">>>>, <<<<"b">>, <<"a">>>>},
       ls \in {<<AddsC>>, <<Drops(A), AddsC>>, <<Keeps(A), Drops(B), AddsC>>, <<Keeps(Indented("a")), Drops(B)>>,
               <<Keeps(B), AddsC>>, <<Drops(A), Keeps(B), AddsC>>}}

MCPatches ==
    {<<Update(fileA, None, <<h>>)>> : h \in MCHunks}
    \union {<<Update(fileA, None, <<Hunk(<<<<"a">>>>, <<AddsC>>), Hunk(<<<<"b">>>>, <<AddsC>>)>>)>>,
            <<Update(fileA, fileB, <<Hunk(<< >>, <<Drops(A), AddsC>>)>>)>>,
            <<Add(fileB, <<AddsC, AddsC>>), Delete(fileA)>>,
            <<Add(fileB, <<AddsC>>), Update(fileA, None, <<Hunk(<< >>, <<Keeps(A), AddsC>>)>>)>>,
            <<Delete(fileA), Add(fileA, <<AddsC>>)>>}

-----------------------------------------------------------------------------
(* Handlers: a weak one that waits, one that runs once, one that does both. *)
Handler(types, filter, priority, awaits, runsOnce, weak) ==
    [types |-> types, filter |-> filter, priority |-> priority, awaits |-> awaits, once |-> runsOnce, weak |-> weak]

MCShape == (weakly :> Handler({"tool", "task"}, AnyOne, 1, TRUE, FALSE, TRUE))
        @@ (once   :> Handler({"task"}, s1, 1, FALSE, TRUE, FALSE))
        @@ (both   :> Handler({"task"}, AnyOne, 2, TRUE, TRUE, FALSE))

MCEvents == {[type |-> "task", session |-> s1], [type |-> "tool", session |-> s2]}

-----------------------------------------------------------------------------
(* The queue: three callers of one session, one of another. *)
MCSessionOf == (c1 :> s1) @@ (c2 :> s1) @@ (c3 :> s1) @@ (c4 :> s2)

-----------------------------------------------------------------------------
(* Configuration files: every setting alone, those that are read or joined *)
(* with another one also beside it, and chats with two profiles.           *)
MCRole == (w1 :> "setup") @@ (w2 :> "model") @@ (w3 :> "wizard") @@ (w4 :> "persist")

Chat(url, key, headers, effort) ==
    [base_url |-> url, api_key |-> key, extra_headers |-> headers, reasoning_effort |-> effort]

MCSecond == {Absent, Chat("u1", "kq", Absent, "eq"), Chat("u2", "kq", Absent, Absent)}

MCChats ==
    {[active |-> a, top |-> Chat("u0", "k0", h0, e0), profiles |-> (pa :> Chat("u1", kp, hp, ep)) @@ (pb :> second)] :
        a \in {Absent, pa, pb}, h0 \in {Absent, "h0"}, e0 \in {Absent, "e0"},
        kp \in {Absent, "off", "kp"}, hp \in {Absent, "hp"}, ep \in {Absent, "ep"}, second \in MCSecond}

MCPlain == [active |-> Absent, top |-> Chat("u0", "k0", Absent, Absent), profiles |-> [x \in Profiles |-> Absent]]
MCProfiled == [MCPlain EXCEPT !.profiles[pa] = Chat("u1", "k1", Absent, Absent)]

Alone(sec, name, v) == [section |-> sec, name |-> name, value |-> v, beside |-> Absent]

MCSettings ==
    UNION {{Alone(sec, name, v) : name \in DOMAIN Reads[sec], v \in {Absent, "off", "low", "std", "set"}} :
              sec \in DOMAIN Reads}
    \union {[setting EXCEPT !.beside = v] :
              setting \in {Alone("job", "timeout", Absent), Alone("job", "timeout", "set"),
                          Alone("telegram", "allowed_users", Absent), Alone("telegram", "allowed_users", "set")},
              v \in {"low", "set"}}

MCFile(setting, chat) == [setting |-> setting, chat |-> chat, token |-> "token 1"]

MCFiles == {MCFile(setting, MCProfiled) : setting \in MCSettings}
      \cup {MCFile(setting, MCPlain) : setting \in {any \in MCSettings : any.section = "chat"}}
      \cup {MCFile(Alone("auth", "api_key", "set"), chat) : chat \in MCChats}

MCNoEnv == [token |-> Absent, allowed |-> Absent, admins |-> Absent]

MCEnvs == {MCNoEnv, [MCNoEnv EXCEPT !.token = "token e"], [MCNoEnv EXCEPT !.allowed = "set e", !.admins = "set f"]}

-----------------------------------------------------------------------------
MCStream == <<"chunk", "noise", "tool", "complete">>

-----------------------------------------------------------------------------
(* Skills: a directory of the user's and two projects, one of them watched. *)
MCShared == <<"user">>

MCSlots == {<<"user", 1>>, <<pr1, 1>>, <<pr1, 2>>, <<pr2, 1>>}

-----------------------------------------------------------------------------
(* Offers: two servers whose tools collide, also with a number that one of *)
(* them has in its own name.                                               *)
F == [stem |-> "mcp__s_x__f", n |-> 0]
F2 == [F EXCEPT !.n = 2]
G == [stem |-> "mcp__s_x__g", n |-> 0]

MCServers == <<"s.x", "s_x">>
MCListings == ("s.x" :> {<<"f", "f_2">>}) @@ ("s_x" :> {<<"f", "g">>})
MCServerName == ("s.x" :> (("f" :> F) @@ ("f_2" :> F2))) @@ ("s_x" :> (("f" :> F) @@ ("g" :> G)))
MCCut == (F :> F.stem) @@ (F2 :> "mcp__s_x__f_2") @@ (G :> G.stem)

MCBuiltIns == <<"read_file", "apply_patch", "task">>
MCCost == ("read_file" :> 3) @@ ("apply_patch" :> 2) @@ ("task" :> 1) @@ ("f" :> 2) @@ ("f_2" :> 3) @@ ("g" :> 1)

EveryTool == [all |-> TRUE, configured |-> {}, excluded |-> {}, delegates |-> TRUE]

MCCapabilities ==
    {EveryTool, [EveryTool EXCEPT !.excluded = {F}, !.delegates = FALSE],
     [EveryTool EXCEPT !.all = FALSE, !.configured = {Plain("task"), F, G}]}

MCTiers ==
    {<< >>, (Plain("mcp__*") :> "frequent") @@ (Plain("task") :> "hidden"),
     (Plain("mcp.*") :> "hidden") @@ (G :> "always")}

SkillOf(name, full, overview, summary, auto) ==
    [name |-> name, full |-> full, overview |-> overview, summary |-> summary, auto |-> auto]

MCSkills == <<SkillOf("a", 6, 2, 1, TRUE), SkillOf("b", 3, 2, 1, TRUE), SkillOf("c", 4, 3, 1, FALSE)>>

Context(window, conversation) ==
    [window |-> window, conversation |-> conversation, baseMax |-> 4, response |-> 3,
     shares |-> [tools |-> 45, skills |-> 30, memory |-> 15, rules |-> 10]]

MCContexts == {Context(40, 0), Context(20, 20), [Context(40, 10) EXCEPT !.shares = [p \in Parts |-> 0]]}

=============================================================================
