----------------------------- MODULE ConfigFile ------------------------------
(***************************************************************************)
(* The configuration file (config.py): how each setting is read and when   *)
(* it is written again, provider profiles, and the programs that load the  *)
(* file, change something and save it: the Telegram setup, the wizard, and *)
(* the bot, which keeps a copy of its own section from its start.          *)
(*                                                                         *)
(* A setting is absent or one of a few values: "off" is empty, zero or     *)
(* false, "std" the default, "low" out of range.  Some are read or joined  *)
(* with another one, which stands `beside' them.                           *)
(***************************************************************************)
EXTENDS Integers, FiniteSets, TLC

CONSTANTS
    Absent,          \* no value; None
    Profiles,        \* provider profiles
    Writers,         \* programs that save
    Role,            \* setup, wizard, model or persist
    Files,           \* files to begin with
    Envs,            \* the environment: [token, allowed, admins]
    MaxSaves         \* bound: saves

ASSUME ConfigAssumption ==
    /\ MaxSaves \in Nat /\ Absent \notin Profiles
    /\ Role \in [Writers -> {"setup", "wizard", "model", "persist"}]

VARIABLES
    onDisk,          \* the file, empty while it is being written
    env,             \* environment variables of all programs
    mem,             \* what a writer has loaded and changed
    doing,           \* where it is
    botCopy,         \* the telegram section in the bot: [setting, token]
    meant,           \* history: the file as its users mean it
    restored,        \* history: the telegram section is the bot's
    clean,           \* history: no two writers overlapped and none crashed
    saves            \* how many saves there were

configVars == <<onDisk, env, mem, doing, botCopy, meant, restored, clean, saves>>
-----------------------------------------------------------------------------
As(mode, fields) == [f \in fields |-> mode]

(* How the settings of a section are read.                                 *)
ServerReads == As("given", {"command", "url"}) @@ As("list", {"args", "env", "headers"})
ModelReads == As("some", {"provider_id", "model_id", "context_window", "output_limit"}) @@ As("list", {"is_custom"})
ProfileReads ==
    As("given", {"base_url", "model", "api_key", "api_type", "api_key_command", "api_key_command_ttl_seconds",
                 "auth_header", "request_timeout_seconds", "max_retries", "retry_base_delay_seconds",
                 "extra_headers", "reasoning_effort", "requires_reasoning_echo", "model_config"})
ChatReads ==
    As("given", {"base_url", "model", "api_key", "api_type", "api_key_command", "api_key_command_ttl_seconds",
                 "auth_header", "extra_headers", "reasoning_effort", "model_config", "tool_loop_limit",
                 "bash_tool_limit", "default_max_lines", "read_roots", "mcp_tools_enabled", "mcp_servers",
                 "write_tool_enabled", "edit_tool_enabled", "default_agent", "enable_queue", "max_queue_size"})
    @@ As("default", {"request_timeout_seconds", "turn_deadline_seconds", "max_retries",
                      "retry_base_delay_seconds", "sync_tool_settle_timeout_seconds"})
    @@ As("list", {"reasoning_as_content", "requires_reasoning_echo"})
ContextReads ==
    As("default", {"progressive_tools", "progressive_skills", "response_ratio", "min_prompt_budget",
                   "base_prompt_max_tokens", "tool_budget_ratio", "skill_budget_ratio", "memory_budget_ratio",
                   "rules_budget_ratio", "tool_relevance_threshold", "skill_relevance_threshold"})
    @@ As("list", {"tool_tiers"})
AuthReads == As("default", {"enabled"}) @@ As("given", {"api_key"})
CorsReads == As("default", {"enabled", "allow_origins", "allow_methods", "allow_headers", "allow_credentials"})
HttpReads == As("default", {"host", "port", "session_timeout_minutes", "max_sessions", "default_agent"})
             @@ As("some", {"work_dir"})
NotificationReads == As("default", {"ci_failures", "pr_reviews", "task_completions", "error_alerts"})
PairingReads == As("default", {"enabled"}) @@ As("atleast", {"code_ttl_seconds", "max_pending"})
StreamingReads == As("default", {"streaming_enabled"})
    @@ As("atleast", {"streaming_interval_seconds", "streaming_min_chars", "streaming_max_chars"})
TopicReads == As("default", {"enabled"}) @@ As("policy or none", {"group_policy"})
              @@ As("given", {"require_mention"}) @@ As("list", {"allow_users"})
GroupReads == As("default", {"enabled"}) @@ As("policy or none", {"group_policy"})
              @@ As("given", {"require_mention"}) @@ As("list", {"allow_users", "topics"})
TelegramReads ==
    As("default", {"enabled", "webhook_mode", "max_message_length", "rate_limit_messages", "session_timeout",
                   "typing_indicator"})
    @@ As("policy", {"dm_policy", "group_policy"}) @@ As("atleast", {"typing_interval_seconds", "max_queue_size"})
    @@ As("given", {"webhook_url"}) @@ As("list", {"allowed_users", "admin_users", "group_allow_users", "groups"})
AutomationReads == As("default", {"enabled", "default_timeout"}) @@ As("list", {"jobs"})
JobReads == As("default", {"name", "command", "enabled", "notify"}) @@ As("inherited", {"timeout"})
            @@ As("some", {"skill", "work_dir", "schedule"}) @@ As("list", {"tags"})
TracingReads ==
    As("default", {"enabled", "exporter", "protocol", "service_name", "sample_ratio", "capture_content",
                   "content_max_chars"})
    @@ As("some", {"endpoint"}) @@ As("list", {"compat", "headers"})
MemoryReads == As("default", {"backend", "timeout_seconds"}) @@ As("some", {"url", "token"})

Reads ==
    [server_entry |-> ServerReads, model_config |-> ModelReads, profile |-> ProfileReads, chat |-> ChatReads,
     context |-> ContextReads, auth |-> AuthReads, cors |-> CorsReads, server |-> HttpReads,
     notifications |-> NotificationReads, pairing |-> PairingReads, streaming |-> StreamingReads,
     topic |-> TopicReads, group |-> GroupReads, telegram |-> TelegramReads, automation |-> AutomationReads,
     job |-> JobReads, tracing |-> TracingReads, memory |-> MemoryReads]
-----------------------------------------------------------------------------
(* What a section is made with where the file does not have it at all:     *)
(* the classes' own defaults, written apart from those of the decoders.    *)
ServerMade == As(Absent, {"command", "url"}) @@ As("off", {"args", "env", "headers"})
ModelMade == As("off", {"is_custom"}) @@ As(Absent, DOMAIN ModelReads)
ProfileMade == As(Absent, DOMAIN ProfileReads)
ChatMade ==
    As("off", {"reasoning_as_content", "requires_reasoning_echo"})
    @@ As("std", {"request_timeout_seconds", "max_retries", "retry_base_delay_seconds", "turn_deadline_seconds",
                  "sync_tool_settle_timeout_seconds"})
    @@ As(Absent, DOMAIN ChatReads)
ContextMade == As("off", {"tool_tiers"}) @@ As("std", DOMAIN ContextReads)
AuthMade == As(Absent, {"api_key"}) @@ As("std", {"enabled"})
CorsMade == As("std", DOMAIN CorsReads)
HttpMade == As(Absent, {"work_dir"}) @@ As("std", DOMAIN HttpReads)
NotificationMade == As("std", DOMAIN NotificationReads)
PairingMade == As("std", DOMAIN PairingReads)
StreamingMade == As("std", DOMAIN StreamingReads)
TopicMade == As("std", {"enabled"}) @@ As(Absent, {"group_policy", "require_mention"}) @@ As("off", {"allow_users"})
GroupMade == TopicMade @@ As("off", {"topics"})
TelegramMade ==
    As(Absent, {"webhook_url"}) @@ As("off", {"allowed_users", "admin_users", "group_allow_users", "groups"})
    @@ As("std", DOMAIN TelegramReads)
AutomationMade == As("off", {"jobs"}) @@ As("std", DOMAIN AutomationReads)
JobMade == As(Absent, {"skill", "work_dir", "schedule"}) @@ As("off", {"tags"}) @@ As("std", DOMAIN JobReads)
TracingMade == As(Absent, {"endpoint"}) @@ As("off", {"compat", "headers"}) @@ As("std", DOMAIN TracingReads)
MemoryMade == As(Absent, {"url", "token"}) @@ As("std", DOMAIN MemoryReads)

Made ==
    [server_entry |-> ServerMade, model_config |-> ModelMade, profile |-> ProfileMade, chat |-> ChatMade,
     context |-> ContextMade, auth |-> AuthMade, cors |-> CorsMade, server |-> HttpMade,
     notifications |-> NotificationMade, pairing |-> PairingMade, streaming |-> StreamingMade,
     topic |-> TopicMade, group |-> GroupMade, telegram |-> TelegramMade, automation |-> AutomationMade,
     job |-> JobMade, tracing |-> TracingMade, memory |-> MemoryMade]

(* What load_config reads when there is no file.                           *)
Shipped ==
    [server |-> As("std", DOMAIN HttpReads \ {"work_dir"}), auth |-> As("std", {"enabled"}),
     cors |-> As("std", DOMAIN CorsReads),
     chat |-> As("std", {"sync_tool_settle_timeout_seconds"})
              @@ As("set", {"base_url", "model", "tool_loop_limit", "bash_tool_limit", "default_max_lines",
                            "mcp_tools_enabled", "write_tool_enabled", "edit_tool_enabled"}),
     profile |-> As("set", {"base_url", "model", "api_type", "model_config"}),
     model_config |-> As("set", {"provider_id", "model_id", "context_window", "output_limit"}),
     context |-> As("set", {"tool_tiers"}) @@ As("std", DOMAIN ContextReads),
     telegram |-> As("off", {"allowed_users", "admin_users", "webhook_url", "group_allow_users", "groups"})
                  @@ As("std", DOMAIN TelegramReads),
     pairing |-> As("std", DOMAIN PairingReads), notifications |-> As("std", DOMAIN NotificationReads),
     automation |-> As("off", {"jobs"}) @@ As("std", DOMAIN AutomationReads), memory |-> As("std", {"backend"})]
-----------------------------------------------------------------------------
(* When they are written.                                                  *)
ServerWrites == As("truthy", DOMAIN ServerReads)
ModelWrites == As("truthy", {"provider_id", "model_id", "is_custom"}) @@ As("given", {"context_window", "output_limit"})
ProfileWrites ==
    As("truthy", {"base_url", "model", "api_key", "api_type", "api_key_command", "auth_header", "model_config",
                  "extra_headers", "reasoning_effort"})
    @@ As("given", {"api_key_command_ttl_seconds", "request_timeout_seconds", "max_retries",
                    "retry_base_delay_seconds", "requires_reasoning_echo"})
ChatWrites(profiled) ==
    As(IF profiled THEN "never" ELSE "truthy",
       {"base_url", "model", "api_key", "api_type", "api_key_command", "auth_header", "reasoning_effort",
        "requires_reasoning_echo", "model_config"})
    @@ As(IF profiled THEN "never" ELSE "given", {"api_key_command_ttl_seconds"})
    @@ As("always", {"request_timeout_seconds", "max_retries", "retry_base_delay_seconds",
                     "sync_tool_settle_timeout_seconds"})
    @@ As("truthy", {"reasoning_as_content", "extra_headers", "default_agent"})
    @@ As("changed", {"turn_deadline_seconds"})
    @@ As("given", {"tool_loop_limit", "bash_tool_limit", "default_max_lines", "read_roots", "mcp_tools_enabled",
                    "mcp_servers", "write_tool_enabled", "edit_tool_enabled", "enable_queue", "max_queue_size"})
ContextWrites == As("always", DOMAIN ContextReads)
AuthWrites == As("always", {"enabled"}) @@ As("truthy", {"api_key"})
CorsWrites == As("always", DOMAIN CorsReads)
HttpWrites == As("truthy", {"work_dir"}) @@ As("always", DOMAIN HttpReads)
NotificationWrites == As("always", DOMAIN NotificationReads)
PairingWrites == As("always", DOMAIN PairingReads)
TopicWrites == As("always", {"enabled"}) @@ As("given", {"require_mention"})
               @@ As("truthy", {"group_policy", "allow_users"})
GroupWrites == As("always", {"enabled"}) @@ As("given", {"require_mention"})
               @@ As("truthy", {"group_policy", "allow_users", "topics"})
TelegramWrites ==
    As("truthy", {"allowed_users", "admin_users", "webhook_url", "group_allow_users", "groups"})
    @@ As("always", DOMAIN TelegramReads)
AutomationWrites == As("always", {"enabled", "default_timeout"}) @@ As("truthy", {"jobs"})


JobWrites == As("truthy", {"skill", "work_dir", "tags", "schedule"}) @@ As("always", DOMAIN JobReads)
TracingWrites == As("truthy", {"endpoint", "compat", "headers"}) @@ As("always", DOMAIN TracingReads)
MemoryWrites == As("always", {"backend"}) @@ As("changed", {"timeout_seconds"}) @@ As("truthy", {"url", "token"})

(* The streaming settings of the bot have no encoder.                      *)
Writes(profiled) ==
    [server_entry |-> ServerWrites, model_config |-> ModelWrites, profile |-> ProfileWrites,
     chat |-> ChatWrites(profiled), context |-> ContextWrites, auth |-> AuthWrites, cors |-> CorsWrites,
     server |-> HttpWrites, notifications |-> NotificationWrites, pairing |-> PairingWrites,
     streaming |-> As("never", DOMAIN StreamingReads), topic |-> TopicWrites, group |-> GroupWrites,
     telegram |-> TelegramWrites, automation |-> AutomationWrites, job |-> JobWrites,
     tracing |-> TracingWrites, memory |-> MemoryWrites]

Empty == {Absent, "off"}

(* What a value is read as: `other' is what one that is left out inherits. *)
ReadAs(mode, v, other) ==
    CASE mode = "given" -> v
      [] mode = "inherited" -> IF v = Absent THEN other ELSE v
      [] mode = "some" -> IF v \in Empty THEN Absent ELSE v
      [] mode = "list" -> IF v = Absent THEN "off" ELSE v
      [] mode = "default" -> IF v = Absent THEN "std" ELSE v
      [] mode = "atleast" -> IF v = Absent THEN "std" ELSE IF v \in {"low", "off"} THEN "least" ELSE v
      [] mode = "policy" -> IF v \in {Absent, "low", "off"} THEN "std" ELSE v
      [] mode = "policy or none" -> IF v \in {"low", "off"} THEN "std" ELSE v

WrittenAs(mode, v) ==
    CASE mode = "always" -> v
      [] mode = "given" -> v
      [] mode = "truthy" -> IF v = "off" THEN Absent ELSE v
      [] mode = "changed" -> IF v = "std" THEN Absent ELSE v
      [] mode = "never" -> Absent

(* A job without a timeout has that of its section; the bot allows whoever *)
(* is an admin.                                                            *)
Inherits(setting) == setting.section = "job" /\ setting.name = "timeout"
IsAllowed(setting) == setting.section = "telegram" /\ setting.name = "allowed_users"

ModeBeside(modes, setting) ==
    CASE Inherits(setting) -> modes.automation.default_timeout
      [] IsAllowed(setting) -> modes.telegram.admin_users
      [] OTHER -> "given"

Decode(setting) ==
    LET beside == ReadAs(ModeBeside(Reads, setting), setting.beside, Absent)
    IN  [setting EXCEPT !.value = ReadAs(Reads[setting.section][setting.name], @, beside), !.beside = beside]

Encode(setting, profiled) ==
    [setting EXCEPT !.value = WrittenAs(Writes(profiled)[setting.section][setting.name], @),
                    !.beside = WrittenAs(ModeBeside(Writes(profiled), setting), @)]
-----------------------------------------------------------------------------
(* The chat section, for four of its settings: the profile has its own     *)
(* base_url and api_key; extra_headers and reasoning_effort only if given. *)
ChatFields == {"base_url", "api_key", "extra_headers", "reasoning_effort"}

Own == {"base_url", "api_key"}

SiblingKeys(profiles, url) ==
    {profiles[q].api_key : q \in {r \in Profiles : profiles[r] # Absent /\ profiles[r].base_url = url}} \ Empty

(* The values a chat section may have after _apply_active_provider: which  *)
(* profile lends its key depends on their order in the file.               *)
Applied(chat) ==
    LET p == IF chat.active \in Profiles THEN chat.profiles[chat.active] ELSE Absent
        lent == IF p.api_key = Absent /\ p.base_url # Absent THEN SiblingKeys(chat.profiles, p.base_url) ELSE {}
    IN  IF p = Absent THEN {chat}
        ELSE {[chat EXCEPT !.top = [f \in ChatFields |->
                  CASE f = "api_key" -> key
                    [] f = "base_url" -> p.base_url
                    [] OTHER -> IF p[f] = Absent THEN chat.top[f] ELSE p[f]]] :
              key \in IF lent = {} THEN {p.api_key} ELSE lent}

Profiled(chat) == chat # Absent /\ \E q \in Profiles : chat.profiles[q] # Absent

(* With profiles the section keeps only what is not in a profile alone.    *)
EncodedChat(chat) ==
    [chat EXCEPT
       !.top = [f \in ChatFields |-> WrittenAs(ChatWrites(Profiled(chat))[f], @[f])],
       !.profiles = [q \in Profiles |-> IF @[q] = Absent THEN Absent
                                        ELSE [f \in ChatFields |-> WrittenAs(ProfileWrites[f], @[q][f])]]]
-----------------------------------------------------------------------------
(* A file that is open for writing, or was when a writer died, is empty.   *)
EmptyFile == [setting |-> Absent, chat |-> Absent, token |-> Absent]

(* What the environment says of a setting: a token also turns the bot on.  *)
FromEnv(section, name) ==
    CASE section # "telegram" -> Absent
      [] name = "enabled" -> IF env.token = Absent THEN Absent ELSE "set"
      [] name = "allowed_users" -> env.allowed
      [] name = "admin_users" -> env.admins
      [] OTHER -> Absent

Over(v, given) == IF given = Absent THEN v ELSE given

Overlaid(setting) ==
    [setting EXCEPT !.value = Over(@, FromEnv(setting.section, setting.name)),
                    !.beside = IF IsAllowed(setting) THEN Over(@, env.admins) ELSE @]

(* load_config, with the environment on top. *)
Loaded ==
    {[setting |-> IF onDisk.setting = Absent THEN Absent ELSE Overlaid(Decode(onDisk.setting)),
      chat |-> chat,
      token |-> Over(onDisk.token, env.token)] :
        chat \in IF onDisk.chat = Absent THEN {Absent} ELSE Applied(onDisk.chat)}

(* What the bot makes of the section when it starts.                       *)
Allowed(users, admins) ==
    IF admins \in Empty \/ admins = users THEN users ELSE IF users \in Empty THEN admins ELSE "both"

AtStart(setting) ==
    CASE setting.section # "telegram" -> setting
      [] setting.name = "enabled" -> [setting EXCEPT !.value = "set"]
      [] setting.name = "allowed_users" -> [setting EXCEPT !.value = Allowed(@, setting.beside)]
      [] OTHER -> setting

TelegramSections == {"telegram", "pairing", "notifications", "streaming", "topic", "group"}

(* The wizard begins with a configuration of its own. *)
Fresh(p) ==
    [setting |-> Absent, token |-> Absent,
     chat |-> [active |-> p, top |-> As(p, Own) @@ As(Absent, ChatFields),
               profiles |-> [q \in Profiles |-> IF q = p THEN As(p, Own) @@ As(Absent, ChatFields) ELSE Absent]]]

(* telegram_setup turns the bot on and asks for a token and both lists.    *)
SetUp(setting) ==
    IF setting = Absent \/ setting.section # "telegram" THEN setting
    ELSE [setting EXCEPT !.value = CASE setting.name = "enabled" -> "set"
                                     [] setting.name \in {"allowed_users", "admin_users"} -> "set 2"
                                     [] OTHER -> @,
                         !.beside = IF IsAllowed(setting) THEN "set 2" ELSE @]

(* What a writer changes: arg is a token, a profile, or nothing.  The bot  *)
(* writes its own copy of its section whatever the file has by then.       *)
Changed(role, cfg, arg) ==
    CASE role = "setup" -> [cfg EXCEPT !.token = arg, !.setting = SetUp(@)]
      [] role = "wizard" -> Fresh(arg)
      [] role = "model" -> [cfg EXCEPT !.chat.active = arg,
                                       !.chat.top = [f \in ChatFields |->
                                           IF f \in Own THEN cfg.chat.profiles[arg][f] ELSE @[f]]]
      [] role = "persist" -> [cfg EXCEPT !.token = IF env.token = Absent THEN botCopy.token ELSE Absent,
                                         !.setting = IF botCopy.setting.section \in TelegramSections
                                                     THEN botCopy.setting ELSE @]

Args(role, cfg) ==
    CASE role = "setup" -> {"token 2"}
      [] role = "wizard" -> Profiles
      [] role = "model" -> IF cfg.chat = Absent THEN {} ELSE {q \in Profiles : cfg.chat.profiles[q] # Absent}
      [] role = "persist" -> {Absent}

(* How the users of a program mean what it does; a bot with a token from   *)
(* its environment leaves none in the file (persist_config).               *)
MeantBy(role, arg) ==
    CASE role = "setup" -> [meant EXCEPT !.token = arg, !.setting = SetUp(@)]
      [] role = "wizard" -> Fresh(arg)
      [] role = "model" -> [meant EXCEPT !.chat.active = arg]
      [] role = "persist" -> meant
-----------------------------------------------------------------------------
ConfigInit ==
    /\ onDisk \in Files /\ env \in Envs /\ meant = onDisk
    /\ mem = [w \in Writers |-> Absent] /\ doing = [w \in Writers |-> "idle"]
    /\ \E cfg \in Loaded : botCopy = [setting |-> AtStart(cfg.setting), token |-> cfg.token]
    /\ restored = FALSE /\ clean = TRUE /\ saves = 0

Load(w, arg) ==
    /\ doing[w] = "idle" /\ saves < MaxSaves
    /\ \E cfg \in Loaded : arg \in Args(Role[w], cfg) /\ mem' = [mem EXCEPT ![w] = Changed(Role[w], cfg, arg)]
    /\ meant' = MeantBy(Role[w], arg)
    /\ doing' = [doing EXCEPT ![w] = "loaded"]
    /\ clean' = (clean /\ \A v \in Writers : doing[v] = "idle")
    /\ saves' = saves + 1
    /\ UNCHANGED <<onDisk, env, botCopy, restored>>

(* open(CONFIG_FILE, "wb") empties the file in place. *)
Open(w) ==
    /\ doing[w] = "loaded"
    /\ onDisk' = EmptyFile /\ doing' = [doing EXCEPT ![w] = "open"]
    /\ UNCHANGED <<env, mem, botCopy, meant, restored, clean, saves>>

Saved(cfg) ==
    [setting |-> IF cfg.setting = Absent THEN Absent ELSE Encode(cfg.setting, Profiled(cfg.chat)),
     chat |-> IF cfg.chat = Absent THEN Absent ELSE EncodedChat(cfg.chat),
     token |-> cfg.token]

Dump(w) ==
    /\ doing[w] = "open"
    /\ onDisk' = Saved(mem[w])
    /\ doing' = [doing EXCEPT ![w] = "idle"] /\ mem' = [mem EXCEPT ![w] = Absent]
    /\ restored' = CASE Role[w] = "persist" -> TRUE [] Role[w] = "model" -> restored [] OTHER -> FALSE
    /\ UNCHANGED <<env, botCopy, meant, clean, saves>>

(* A writer dies before it has written. *)
WriterDies(w) ==
    /\ doing[w] # "idle"
    /\ doing' = [doing EXCEPT ![w] = "idle"] /\ mem' = [mem EXCEPT ![w] = Absent]
    /\ clean' = FALSE
    /\ UNCHANGED <<onDisk, env, botCopy, meant, restored, saves>>

ConfigNext ==
    \/ \E w \in Writers, arg \in Profiles \union {"token 2", Absent} : Load(w, arg)
    \/ \E w \in Writers : Open(w) \/ Dump(w) \/ WriterDies(w)
-----------------------------------------------------------------------------
Settled == clean /\ \A w \in Writers : doing[w] = "idle"

SameMeaning(u, v) == u = v \/ {u, v} \subseteq Empty

(* What is known to be lost.                                               *)
LostBySaves(section, name) ==
    \/ section = "streaming"
    \/ /\ section = "chat" /\ Profiled(meant.chat)
       /\ name \in DOMAIN ProfileReads \ {"request_timeout_seconds", "max_retries", "retry_base_delay_seconds",
                                         "extra_headers"}

(* While writers take turns, a setting keeps its meaning when a program    *)
(* loads the file and saves it for another reason (save_config,            *)
(* load_config): but for those that are not written, which are the         *)
(* streaming settings of the bot and, where there are profiles, what only  *)
(* profiles keep; for those of the bot once it has saved its own copy, as  *)
(* it was at its start (persist_config); and for those that the            *)
(* environment overrides, which a save makes the file's own.               *)
SettingsSurvive ==
    Settled /\ meant.setting # Absent /\ ~LostBySaves(meant.setting.section, meant.setting.name) =>
        LET kept == IF restored /\ meant.setting.section \in TelegramSections THEN botCopy.setting
                    ELSE Decode(meant.setting)
            now  == Decode(onDisk.setting).value
        IN  \/ SameMeaning(now, kept.value)
            \/ now # Absent /\ now = FromEnv(meant.setting.section, meant.setting.name)

(* So do the profiles and the choice between them.                         *)
ProfilesSurvive ==
    Settled /\ meant.chat # Absent =>
        /\ onDisk.chat.active = meant.chat.active
        /\ \A q \in Profiles :
              IF meant.chat.profiles[q] = Absent THEN onDisk.chat.profiles[q] = Absent
              ELSE \A f \in ChatFields : SameMeaning(onDisk.chat.profiles[q][f], meant.chat.profiles[q][f])

(* Whoever loads the file gets the address of the active profile, and a    *)
(* key that one of the profiles has for this address                       *)
(* (_apply_active_provider), and no effort that another profile asks for.  *)
ProviderIsTheActive ==
    Settled /\ meant.chat # Absent /\ meant.chat.active \in Profiles =>
        LET p == meant.chat.profiles[meant.chat.active]
        IN  p # Absent => \A cfg \in Loaded :
              /\ SameMeaning(cfg.chat.top.base_url, p.base_url)
              /\ p.api_key \notin Empty => cfg.chat.top.api_key = p.api_key
              /\ cfg.chat.top.api_key \notin Empty =>
                    \E q \in Profiles : /\ meant.chat.profiles[q] # Absent
                                        /\ meant.chat.profiles[q].base_url = p.base_url
                                        /\ meant.chat.profiles[q].api_key = cfg.chat.top.api_key
              /\ cfg.chat.top.reasoning_effort \in
                    {p.reasoning_effort, meant.chat.top.reasoning_effort} \union Empty

(* Without a token in the environment the token is the one that was set up *)
(* last, or the bot's once it has saved its own copy (persist_config).     *)
TokenSurvives ==
    Settled /\ env.token = Absent => onDisk.token = IF restored THEN botCopy.token ELSE meant.token

(* A setting, whichever it is, has the same value in a section that leaves *)
(* it out as without the section, or the one it inherits; a save of what a *)
(* section is made with does not change what it is read as; and what is    *)
(* read without a file is that, but for what is set there (the defaults of *)
(* the classes in config.py, the decoders, the encoders and _DEFAULT).     *)
DefaultsAgree ==
    meant.setting # Absent =>
        LET section == meant.setting.section
            name == meant.setting.name
            made == Made[section][name]
            Read(v) == Decode([meant.setting EXCEPT !.value = v]).value
        IN /\ Read(Absent) = IF Inherits(meant.setting) THEN Over(made, meant.setting.beside) ELSE made
           /\ SameMeaning(Read(WrittenAs(Writes(FALSE)[section][name], made)), made)
           /\ section \in DOMAIN Shipped /\ name \in DOMAIN Shipped[section] =>
                 \/ Shipped[section][name] = "set"
                 \/ SameMeaning(Read(Shipped[section][name]), made)

(* What a user set up is there after every save.                           *)
ConfigIsSound == DefaultsAgree /\ SettingsSurvive /\ ProfilesSurvive /\ ProviderIsTheActive /\ TokenSurvives
=============================================================================
