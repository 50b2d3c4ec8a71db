------------------------------- MODULE ToolOffer -------------------------------
(***************************************************************************)
(* What a turn puts before the model (context_builder.py, progressive/):   *)
(* the budgets of the parts of its prompt, the skills shown in the detail  *)
(* that fits, the built-in tools and those of the MCP servers under names  *)
(* that every provider accepts, the choice among them, and the way back    *)
(* from the name that the model calls to the server and its tool.          *)
(***************************************************************************)
EXTENDS Integers, SequencesExt, FiniteSetsExt, Functions

CONSTANTS
    BuiltIns,     \* the tools of the registry, in its order
    Servers,      \* the selected servers, in their order; one may be there twice
    Listings,     \* of each server, the lists of tools it may answer with
    ServerName,   \* of each server and tool, the name mcp_tool_name makes
    Cut,          \* of each name, what is left of it before a number
    Capabilities, \* of the agent: what it allows
    Tiers,        \* what the user may have set for the tiers, by name
    Cost,         \* tokens of a tool's specification
    Scores,       \* what the scorers may find, in tenths
    Threshold,    \* least score of a tool and of a skill
    ShownSkills,  \* the skills, in their order, with the tokens of each level
    Texts,        \* tokens of rules, persona and memory
    HeadTokens,   \* of the title of the list of other skills
    Contexts      \* windows, conversations and shares

ASSUME OfferAssumption ==
    /\ Scores \subseteq 0..10 /\ Threshold \in 0..10 /\ HeadTokens \in Nat
    /\ \A c \in Contexts :
          {c.window, c.conversation, c.baseMax} \subseteq Nat /\ c.response \in 0..9
          /\ \A p \in DOMAIN c.shares : c.shares[p] \in Nat

VARIABLES
    offer,   \* of the turn: its phase, settings, budgets, servers to ask, tools and registry;
             \* history: what the choice was among
    called   \* history: the tool that ran for the model

offerVars == <<offer, called>>

-----------------------------------------------------------------------------
(* Budgets *)

Parts == {"tools", "skills", "memory", "rules"}

Usual == [tools |-> 45, skills |-> 30, memory |-> 15, rules |-> 10]

Total(shares) == MapThenSumSet(LAMBDA p : shares[p], Parts)

Shares(c) == IF Total(c.shares) = 0 THEN Usual ELSE c.shares

(* calculate_budget: what the conversation and the response leave of the   *)
(* window is the prompt's, the base comes first, the rest is shared.       *)
Budget(c) ==
    LET free   == c.window - (c.window * c.response) \div 10 - c.conversation
        prompt == IF free > 0 THEN free ELSE 0
        base   == IF c.baseMax < prompt THEN c.baseMax ELSE prompt
    IN  [p \in Parts |-> ((prompt - base) * Shares(c)[p]) \div Total(Shares(c))] @@ [prompt |-> prompt, base |-> base]

-----------------------------------------------------------------------------
(* Skills *)

(* The section that fits, of those from the given level on.                *)
Levels == <<"full", "overview", "summary">>

Fitting(skill, from, left) == {i \in from..3 : skill[Levels[i]] <= left}

Shows(view, skill, level) ==
    [sections |-> Append(view.sections, [name |-> skill.name, level |-> level]),
     left     |-> view.left - skill[level]]

(* An active skill is shown in as much detail as fits, if it fits at all.  *)
ShowActive(view, skill) ==
    LET levels == Fitting(skill, 1, view.left)
    IN  IF levels = {} THEN view ELSE Shows(view, skill, Levels[Min(levels)])

ShowOverview(view, skill) ==
    IF skill.overview <= view.left THEN Shows(view, skill, "overview") ELSE view

(* The others have a line each, under a title, up to the first that does   *)
(* not fit.                                                                *)
ShowSummaries(view, others) ==
    LET upTo(i) == HeadTokens + MapThenSumSet(LAMBDA j : others[j].summary, 1..i)
        lines   == Max({0} \cup {i \in DOMAIN others : \A j \in 1..i : upTo(j) <= view.left})
    IN  IF lines = 0 THEN view
        ELSE [sections |-> view.sections \o [i \in 1..lines |-> [name |-> others[i].name, level |-> "summary"]],
              left     |-> view.left - upTo(lines)]

(* By score, those of equal score in the order they had. *)
ByScore(items, score) ==
    LET place(i) == 1 + Cardinality({j \in DOMAIN items :
                          \/ score[items[j]] > score[items[i]]
                          \/ score[items[j]] = score[items[i]] /\ j < i})
    IN  [k \in DOMAIN items |-> items[CHOOSE i \in DOMAIN items : place(i) = k]]

(* build_prompt: the active skills, those that match, and the list of the  *)
(* rest; a skill that only runs when it is named does not match.           *)
SkillPrompt(active, score, budget) ==
    LET start    == [sections |-> << >>, left |-> budget]
        actives  == SelectSeq(ShownSkills, LAMBDA s : s.name \in active)
        matching == SelectSeq(ShownSkills, LAMBDA s : s.name \notin active /\ s.auto /\ score[s] >= Threshold)
        shown    == FoldLeft(ShowOverview, FoldLeft(ShowActive, start, actives), ByScore(matching, score))
        present  == active \cup {shown.sections[i].name : i \in DOMAIN shown.sections}
        rest     == SelectSeq(ShownSkills, LAMBDA s : s.name \notin present)
    IN  IF budget = 0 THEN << >> ELSE ShowSummaries(shown, rest).sections

-----------------------------------------------------------------------------
(* Names of tools *)

(* A name is its stem, and the number that makes it unique. *)
Plain(stem) == [stem |-> stem, n |-> 0]

Allows(cap, name) ==
    /\ name \notin cap.excluded
    /\ name = Plain("task") => cap.delegates
    /\ cap.all \/ name \in cap.configured

Numbered(name, k) == [stem |-> Cut[name], n |-> k]

(* Mutant: the number is not compared with the names there are. *)
SecondName(name, taken) == IF name \notin taken THEN name ELSE Numbered(name, 2)

UniqueName(name, taken) ==
    IF name \notin taken THEN name
    ELSE Numbered(name, Min({k \in 2..(Cardinality(taken) + 2) : Numbered(name, k) \notin taken}))

(* The tool behind a name: of the registry, or of a server. *)
NoRef == <<"", "">>

Tool(name, ref) == [name |-> name, ref |-> ref]

IsServers(tool) == tool.ref # NoRef

NamesOf(tools) == {tools[i].name : i \in DOMAIN tools}

TokensOf(tool) == Cost[IF IsServers(tool) THEN tool.ref[2] ELSE tool.name.stem]

Spent(tools) == FoldLeft(LAMBDA sum, tool : sum + TokensOf(tool), 0, tools)

-----------------------------------------------------------------------------
(* The choice *)

DefaultTier(name) ==
    CASE name.stem \in {"read_file", "grep", "think", "web_search", "web_fetch", "write_file", "bash"} -> "always"
      [] name.stem \in {"apply_patch", "todo"} -> "frequent"
      [] OTHER -> "on_demand"

(* _resolve_tier: what the user set for the name, or else for the tools of *)
(* all servers, if it is a tier.                                           *)
TierOf(tiers, tool) ==
    LET keys == <<tool.name>> \o (IF IsServers(tool) THEN <<Plain("mcp__*"), Plain("mcp.*")>> ELSE << >>)
        set  == {i \in DOMAIN keys : keys[i] \in DOMAIN tiers}
    IN  IF set # {} /\ tiers[keys[Min(set)]] \in {"always", "frequent", "on_demand", "hidden"}
        THEN tiers[keys[Min(set)]]
        ELSE DefaultTier(tool.name)

(* A tool that the prompt names matches fully, a frequent one some more.   *)
Scored(tier, named, raw, tool) ==
    CASE tool.name \in named -> 10
      [] tool.name \notin named /\ tier[tool] = "frequent" -> Min({raw[tool.name] + 1, 10})
      [] OTHER -> raw[tool.name]

(* Tools that are always there may take more than the budget; the others   *)
(* take what is left.                                                      *)
TakeFitting(chosen, tool, budget) ==
    IF Spent(chosen) + TokensOf(tool) <= budget THEN Append(chosen, tool) ELSE chosen

SelectTools(tools, tier, score, budget) ==
    LET always     == SelectSeq(tools, LAMBDA t : tier[t] = "always")
        candidates == SelectSeq(tools, LAMBDA t : tier[t] \notin {"always", "hidden"} /\ score[t] >= Threshold)
        matching   == ByScore(candidates, score)
    IN  FoldLeft(LAMBDA chosen, t : TakeFitting(chosen, t, budget), always, matching)

-----------------------------------------------------------------------------
(* The turn *)

NoChoice == [tier |-> << >>, score |-> << >>]

Turn(cap, context) ==
    [phase |-> "prompt", cap |-> cap, budget |-> Budget(context), prompt |-> << >>, toAsk |-> << >>,
     tools |-> << >>, registry |-> << >>, choice |-> NoChoice]

OfferInit == offer \in {Turn(cap, c) : cap \in Capabilities, c \in Contexts} /\ called = {}

(* What trimming leaves of a text.                                         *)
Trimmed(tokens, budget) == Min({tokens, budget})

(* get_system_prompt: every part within its budget, and the memory within  *)
(* what the persona leaves.                                                *)
BuildPrompt ==
    /\ offer.phase = "prompt"
    /\ \E active \in SUBSET {ShownSkills[i].name : i \in DOMAIN ShownSkills}, score \in [Range(ShownSkills) -> Scores],
          rules, persona, memory \in Texts :
          LET told == Trimmed(persona, offer.budget.memory)
          IN  offer' = [offer EXCEPT !.phase = "prompted",
                  !.prompt = [base    |-> offer.budget.base,
                              active  |-> active,
                              skills  |-> SkillPrompt(active, score, offer.budget.skills),
                              rules   |-> Trimmed(rules, offer.budget.rules),
                              persona |-> told,
                              memory  |-> Trimmed(memory, offer.budget.memory - told)]]
    /\ UNCHANGED called

(* build_tools_and_registry begins with the built-in tools; the prompt is  *)
(* text by now.                                                            *)
ListBuiltIns ==
    /\ offer.phase = "prompted"
    /\ offer' = [offer EXCEPT !.phase = "listing", !.prompt = << >>, !.toAsk = Servers,
                              !.tools = SelectSeq([i \in DOMAIN BuiltIns |-> Tool(Plain(BuiltIns[i]), NoRef)],
                                                  LAMBDA t : Allows(offer.cap, t.name))]
    /\ UNCHANGED called

(* A tool of a list, under a name that no other has, if the agent is       *)
(* allowed that name.                                                      *)
Expose(state, server, tool) ==
    LET name == UniqueName(ServerName[server][tool], NamesOf(state.tools))
    IN  IF ~Allows(state.cap, name) THEN state
        ELSE [state EXCEPT !.tools = Append(@, Tool(name, <<server, tool>>)),
                           !.registry = (name :> <<server, tool>>) @@ @]

ServerAnswers ==
    /\ offer.phase = "listing" /\ offer.toAsk # << >>
    /\ \E list \in Listings[Head(offer.toAsk)] :
          offer' = [FoldLeft(LAMBDA s, tool : Expose(s, Head(offer.toAsk), tool), offer, list)
                        EXCEPT !.toAsk = Tail(@)]
    /\ UNCHANGED called

(* A server that cannot be started is passed over, *)
ServerRefuses ==
    /\ offer.phase = "listing" /\ offer.toAsk # << >>
    /\ offer' = [offer EXCEPT !.toAsk = Tail(@)]
    /\ UNCHANGED called

(* but one that is slow ends the turn: MCPTimeoutError is none of the      *)
(* errors that are caught.                                                 *)
ServerTimesOut ==
    /\ offer.phase = "listing" /\ offer.toAsk # << >>
    /\ offer' = [offer EXCEPT !.phase = "failed"]
    /\ UNCHANGED called

Filtered(registry, tools) == [n \in DOMAIN registry \cap NamesOf(tools) |-> registry[n]]

(* Without progressive_tools all of them are offered.                      *)
OfferAll ==
    /\ offer.phase = "listing" /\ offer.toAsk = << >>
    /\ offer' = [offer EXCEPT !.phase = "offered"]
    /\ UNCHANGED called

Choose ==
    /\ offer.phase = "listing" /\ offer.toAsk = << >>
    /\ \E tiers \in Tiers, raw \in [NamesOf(offer.tools) -> Scores],
          named \in {{}} \cup {{n} : n \in NamesOf(offer.tools)} :
          LET tier   == [t \in Range(offer.tools) |-> TierOf(tiers, t)]
              score  == [t \in Range(offer.tools) |-> Scored(tier, named, raw, t)]
              chosen == SelectTools(offer.tools, tier, score, offer.budget.tools)
          IN  offer' = [offer EXCEPT !.phase = "offered", !.tools = chosen, !.registry = Filtered(@, chosen),
                            !.choice = [tier |-> tier, score |-> score]]
    /\ UNCHANGED called

(* What runs when the model calls a name: nothing, if it was not offered;  *)
(* a tool of a server is found by the registry alone.                      *)
RunsFor(name) ==
    CASE name \notin NamesOf(offer.tools) \/ ~Allows(offer.cap, name) -> {}
      [] name \in DOMAIN offer.registry -> {Tool(name, offer.registry[name])}
      [] OTHER -> {Tool(name, NoRef)}

KnownNames ==
    {Plain(BuiltIns[i]) : i \in DOMAIN BuiltIns} \cup NamesOf(offer.tools)
    \cup UNION {Range(ServerName[s]) : s \in DOMAIN ServerName}

ModelCalls ==
    /\ offer.phase = "offered"
    /\ \E name \in KnownNames : called' = RunsFor(name)
    /\ offer' = [offer EXCEPT !.phase = "called"]

OfferNext ==
    \/ BuildPrompt \/ ListBuiltIns \/ ServerAnswers \/ ServerRefuses \/ ServerTimesOut
    \/ OfferAll \/ Choose \/ ModelCalls

-----------------------------------------------------------------------------
(* Properties *)

(* A name means one tool, the one whose description the model was shown,   *)
(* and that is the tool that runs, whatever other servers have by the same *)
(* name and whatever the choice left out.                                  *)
AliasesAreReversible ==
    /\ \A i, j \in DOMAIN offer.tools : offer.tools[i].name = offer.tools[j].name => i = j
    /\ \A i \in DOMAIN offer.tools : IsServers(offer.tools[i]) =>
          /\ offer.tools[i].name \in DOMAIN offer.registry
          /\ offer.registry[offer.tools[i].name] = offer.tools[i].ref
    /\ called \subseteq Range(offer.tools)

(* Nothing that the agent may not use is shown or runs.                    *)
NothingBeyondCapability ==
    \A tool \in Range(offer.tools) \cup called : Allows(offer.cap, tool.name)

(* What is not always there fits into the budget; a hidden tool is never   *)
(* there, even if it is named; and no tool makes way for one that matches  *)
(* less and takes as much.                                                 *)
ChoiceIsByRelevance ==
    offer.choice # NoChoice =>
        LET tier   == offer.choice.tier
            chosen == Range(offer.tools)
        IN  /\ \A t \in DOMAIN tier : tier[t] = "always" => t \in chosen
            /\ \A t \in chosen : tier[t] # "hidden"
            /\ (\E t \in chosen : tier[t] # "always") => Spent(offer.tools) <= offer.budget.tools
            /\ \A t \in chosen, better \in DOMAIN tier \ chosen :
                  (tier[t] # "always" /\ tier[better] # "hidden" /\ TokensOf(better) <= TokensOf(t))
                  => offer.choice.score[better] <= offer.choice.score[t]

SkillNamed(name) == CHOOSE s \in Range(ShownSkills) : s.name = name

SkillTokens(sections) ==
    MapThenSumSet(LAMBDA i : SkillNamed(sections[i].name)[sections[i].level], DOMAIN sections)

(* The parts of a prompt and the tools that may be added fit into what the *)
(* window leaves; a skill is shown once, and one that only runs when it is *)
(* named is not recommended.                                               *)
PromptFits ==
    offer.phase = "prompted" =>
        LET prompt == offer.prompt
        IN  /\ prompt.base + SkillTokens(prompt.skills) + prompt.rules + prompt.persona + prompt.memory
                   + offer.budget.tools <= offer.budget.prompt
            /\ \A i, j \in DOMAIN prompt.skills : prompt.skills[i].name = prompt.skills[j].name => i = j
            /\ \A i \in DOMAIN prompt.skills :
                  \/ SkillNamed(prompt.skills[i].name).auto \/ prompt.skills[i].level = "summary"
                  \/ prompt.skills[i].name \in prompt.active

(* What a turn offers the model (context_builder.ContextBuilder).          *)
OfferIsSound == AliasesAreReversible /\ NothingBeyondCapability /\ ChoiceIsByRelevance /\ PromptFits

=============================================================================
