---------------------------- MODULE TelegramAccess ----------------------------
(***************************************************************************)
(* Who may talk to the Telegram bot (telegram/handlers.py and auth.py, the *)
(* pairing requests and the configuration of bot.py), in private and in a  *)
(* group: the policies, codes an admin approves, the limit on the rate of  *)
(* messages, and what of this is in the configuration file when the bot    *)
(* starts again.                                                           *)
(***************************************************************************)
EXTENDS Naturals, Sequences, FiniteSetsExt, SequencesExt, TLC

CONSTANTS
    People,       \* users who write to the bot
    MaxPending,   \* pairing.max_pending
    Ttl,          \* pairing.code_ttl_seconds
    Limit,        \* rate_limit_messages, 0 for none
    Window,       \* window_seconds
    MaxClock,     \* bound: time
    MaxCodes,     \* bound: pairing codes made
    MaxMessages,  \* bound: messages accepted of each user
    MaxDecisions  \* bound: commands of an admin, and restarts

ASSUME AccessAssumption ==
    /\ MaxPending \in Nat \ {0}
    /\ {Ttl, Limit, Window, MaxClock, MaxCodes, MaxMessages, MaxDecisions} \subseteq Nat

VARIABLES
    config,    \* allowed_users, dm_policy, group_policy and groups, in memory
    disk,      \* and in the configuration file
    unsaved,   \* an admin was told of a setting that is not saved yet
    pending,   \* pairing requests: user, code, time; the oldest first
    codes,     \* codes made so far: each is new
    hits,      \* RateLimiter._hits
    clock,
    granted,   \* history: users an admin let in, by name or by a code in time
    accepted,  \* history: messages of each user that were accepted, by time
    decisions

accessVars == <<config, disk, unsaved, pending, codes, hits, clock, granted, accepted, decisions>>

Policies == {"allowlist", "pairing", "open", "disabled"}
GroupPolicies == {"mention", "open", "allowlist", "disabled"}

-----------------------------------------------------------------------------
(* Groups.  A group, and a topic in it, may have rules of its own; what    *)
(* they leave unset is as in the rules around them.                        *)

Unset == "unset"
Rule == [enabled : BOOLEAN, policy : GroupPolicies \cup {Unset}, mention : {Unset, "yes", "no"}, users : SUBSET People]
NoRule == [enabled |-> TRUE, policy |-> Unset, mention |-> Unset, users |-> {}]

(* A table of rules has them by name, and under "*" for all other names.   *)
NoTable == << >>
Lookup(table, name, otherwise) ==
    IF name \in DOMAIN table THEN table[name] ELSE IF "*" \in DOMAIN table THEN table["*"] ELSE otherwise

(* The rules for a message: of the bot, of the group and of its topic.     *)
Rules(policy, users, group, topic) == [policy |-> policy, users |-> users, group |-> group, topic |-> topic]

(* _resolve_group_config, _resolve_topic_config: only a group that has an  *)
(* entry has topics with rules.                                            *)
RulesFor(c, group, thread) ==
    LET entry == Lookup(c.groups, group, [rule |-> NoRule, topics |-> NoTable])
    IN Rules(c.group, {}, entry.rule, Lookup(entry.topics, thread, NoRule))

(* The innermost of the two rules that sets a field.                       *)
Innermost(rules, field, none, otherwise) ==
    IF rules.topic[field] # none THEN rules.topic[field]
    ELSE IF rules.group[field] # none THEN rules.group[field] ELSE otherwise

EffectivePolicy(rules) == Innermost(rules, "policy", Unset, rules.policy)

EffectiveUsers(rules, allowed) ==
    Innermost(rules, "users", {}, IF rules.users # {} THEN rules.users ELSE allowed)

RequiresMention(rules) ==
    Innermost(rules, "mention", Unset, IF EffectivePolicy(rules) = "mention" THEN "yes" ELSE "no") = "yes"

Enabled(rules) == rules.group.enabled /\ rules.topic.enabled /\ EffectivePolicy(rules) # "disabled"

(* What in a message may be for the bot: it answers the bot, its text or   *)
(* caption names it, an entity links to it by its name or by its id.       *)
GroupMessages == SUBSET {"reply", "name", "mention", "text_mention"}

(* _is_bot_mentioned, when this much is known of the bot.                  *)
Mentions(m, known) ==
    \/ "id" \in known /\ m \cap {"reply", "text_mention"} # {}
    \/ "name" \in known /\ m \cap {"name", "mention"} # {}

(* _evaluate_message_access, in a group.                                   *)
Hears(u, mentioned, allowed, rules) ==
    /\ Enabled(rules)
    /\ EffectivePolicy(rules) = "allowlist" => u \in EffectiveUsers(rules, allowed) \cup allowed
    /\ RequiresMention(rules) => mentioned

(* _ensure_authorized, of a command in a group: written apart from the     *)
(* rules of messages; an allowed user may give commands in any group.      *)
Obeys(u, allowed, rules) ==
    \/ u \in allowed
    \/ /\ Enabled(rules)
       /\ EffectivePolicy(rules) = "allowlist" => u \in EffectiveUsers(rules, allowed)

(* The bot is in a group, and may have rules for all groups: only those    *)
(* are heard whom an admin let in, but in the topics anyone who asks.      *)
Groups == {"group"}
Topics == {"none", "topic"}
Tables == {NoTable,
           "*" :> [rule |-> [NoRule EXCEPT !.policy = "allowlist"],
                   topics |-> "topic" :> [NoRule EXCEPT !.policy = "open", !.mention = "yes"]]}

(* The groups' policy is the default one until an admin sets it.  Bound:   *)
(* rules for groups go with pairing in private.                            *)
AccessInit ==
    /\ config \in [allowed : {{}}, dm : Policies, group : {"mention"}, groups : Tables]
    /\ config.groups # NoTable => config.dm = "pairing"
    /\ disk = config /\ unsaved = FALSE
    /\ pending = << >> /\ codes = 0 /\ hits = [u \in People |-> << >>] /\ clock = 0
    /\ granted = {} /\ decisions = 0
    /\ accepted = [u \in People |-> [t \in 0..MaxClock |-> 0]]

-----------------------------------------------------------------------------
(* Messages and commands *)

(* Mutant: requests never expire. *)
Kept(requests) == requests

(* _prune_pairing_requests *)
Fresh(requests) == SelectSeq(requests, LAMBDA r : clock - r.at <= Ttl)

(* create_pairing_request: one per user; the oldest makes room.            *)
AskToPair(u) ==
    LET live == Fresh(pending)
        room == IF Len(live) >= MaxPending THEN Tail(live) ELSE live
    IN IF \E i \in DOMAIN live : live[i].user = u
       THEN pending' = live /\ UNCHANGED codes
       ELSE /\ codes < MaxCodes
            /\ pending' = Append(room, [user |-> u, code |-> codes + 1, at |-> clock])
            /\ codes' = codes + 1

(* RateLimiter.allow: hits that left the window are dropped first.         *)
Recent(u) == SelectSeq(hits[u], LAMBDA t : clock - t <= Window)

Sent(u, Times) == MapThenSumSet(LAMBDA t : accepted[u][t], Times)

(* The limiter knows users, not chats: private and group messages share it.*)
Limited(u) ==
    IF Limit > 0 /\ Len(Recent(u)) >= Limit
    THEN hits' = [hits EXCEPT ![u] = Recent(u)] /\ UNCHANGED accepted
    ELSE /\ accepted' = [accepted EXCEPT ![u][clock] = @ + 1]
         /\ hits' = [hits EXCEPT ![u] = IF Limit > 0 THEN Append(Recent(u), clock) ELSE @]

(* _evaluate_message_access, in private.                                   *)
Answered == IF config.dm = "disabled" THEN {} ELSE IF config.dm = "open" THEN People ELSE config.allowed

(* handle_message in private.                                              *)
Message(u) ==
    /\ Sent(u, 0..clock) < MaxMessages
    /\ \/ u \in Answered /\ Limited(u) /\ UNCHANGED <<pending, codes>>
       \/ u \notin Answered /\ config.dm = "pairing" /\ AskToPair(u) /\ UNCHANGED <<hits, accepted>>
    /\ UNCHANGED <<config, disk, unsaved, clock, granted, decisions>>

(* Who is heard in one of the groups, by a message for the bot or not.     *)
Heard == {u \in People : \E g \in Groups, t \in Topics, m \in GroupMessages :
              Hears(u, Mentions(m, {"id", "name"}), config.allowed, RulesFor(config, g, t))}

(* handle_message in a group.                                              *)
GroupMessage(u) ==
    /\ Sent(u, 0..clock) < MaxMessages
    /\ u \in Heard /\ Limited(u)
    /\ UNCHANGED <<config, disk, unsaved, pending, codes, clock, granted, decisions>>

(* A command asks _ensure_authorized: an allowed user may give commands    *)
(* even when private chats are disabled.                                   *)
Command(u) ==
    /\ u \notin config.allowed /\ config.dm = "pairing"
    /\ AskToPair(u)
    /\ UNCHANGED <<config, disk, unsaved, hits, clock, granted, accepted, decisions>>

-----------------------------------------------------------------------------
(* Admins.  A decision is saved before it is confirmed, except a setting.  *)

Decide == decisions < MaxDecisions /\ decisions' = decisions + 1
Save(c) == config' = c /\ disk' = c /\ unsaved' = FALSE

(* approve_pairing_code: the request of a code, if it is still there.      *)
RequestOf(code) == {i \in DOMAIN Fresh(pending) : Fresh(pending)[i].code = code}

(* /pair approve <code>: the admin may have any code there ever was.       *)
Approve(code) ==
    /\ Decide
    /\ \E i \in RequestOf(code) : LET request == Fresh(pending)[i] IN
         /\ Save([config EXCEPT !.allowed = @ \cup {request.user}])
         /\ granted' = IF clock - request.at <= Ttl THEN granted \cup {request.user} ELSE granted
         /\ pending' = RemoveAt(Fresh(pending), i)
    /\ UNCHANGED <<codes, hits, clock, accepted>>

(* /users add|remove, for users and admins alike.                          *)
AddUser(u) ==
    /\ Decide /\ u \notin config.allowed
    /\ Save([config EXCEPT !.allowed = @ \cup {u}]) /\ granted' = granted \cup {u}
    /\ UNCHANGED <<pending, codes, hits, clock, accepted>>

RemoveUser(u) ==
    /\ Decide /\ u \in config.allowed
    /\ Save([config EXCEPT !.allowed = @ \ {u}]) /\ granted' = granted \ {u}
    /\ UNCHANGED <<pending, codes, hits, clock, accepted>>

(* /config set dm_policy or group_policy: the admin is told, then the file *)
(* is written.                                                             *)
SetPolicy(key, p) ==
    /\ Decide /\ p # config[key]
    /\ config' = [config EXCEPT ![key] = p] /\ unsaved' = TRUE
    /\ UNCHANGED <<disk, pending, codes, hits, clock, granted, accepted>>

PersistPolicy ==
    /\ unsaved /\ Save(config)
    /\ UNCHANGED <<pending, codes, hits, clock, granted, accepted, decisions>>

RestartBot ==
    /\ Decide
    /\ config' = disk /\ unsaved' = FALSE
    /\ pending' = << >> /\ hits' = [u \in People |-> << >>]
    /\ UNCHANGED <<disk, codes, clock, granted, accepted>>

ClockTicks ==
    /\ clock < MaxClock /\ clock' = clock + 1
    /\ UNCHANGED <<config, disk, unsaved, pending, codes, hits, granted, accepted, decisions>>

AccessNext ==
    \/ \E u \in People : Message(u) \/ GroupMessage(u) \/ Command(u) \/ AddUser(u) \/ RemoveUser(u)
    \/ \E c \in 1..codes : Approve(c)
    \/ \E p \in Policies : SetPolicy("dm", p)
    \/ \E p \in GroupPolicies : SetPolicy("group", p)
    \/ PersistPolicy \/ RestartBot \/ ClockTicks

-----------------------------------------------------------------------------
(* Properties *)

(* The two ways to ask who may write agree, whatever the rules: of a user  *)
(* nobody let in, a command is obeyed exactly where a message with a       *)
(* mention is heard; one who was let in is heard wherever others are; and  *)
(* where an allowlist rules, only those it names and those let in are      *)
(* (handlers._ensure_authorized, _evaluate_message_access).                *)
RulesAgree ==
    \A group, topic \in {r \in Rule : Cardinality(r.users) < 2}, policy \in GroupPolicies, allowed \in SUBSET People :
        LET rules == Rules(policy, {}, group, topic)
            heard == {u \in People : Hears(u, TRUE, allowed, rules)}
        IN /\ \A u \in People \ allowed : Obeys(u, allowed, rules) <=> u \in heard
           /\ heard # {} => allowed \subseteq heard
           /\ EffectivePolicy(rules) = "allowlist" => heard \subseteq allowed \cup topic.users \cup group.users

(* Whoever is allowed was let in by an admin, by name or by a code that    *)
(* was theirs and in time, and not removed since, in memory and on disk:   *)
(* what was confirmed survives a restart, and nothing else does            *)
(* (bot.approve_pairing_code, handle_users).                               *)
AllowedIsGranted == config.allowed = granted /\ disk.allowed = granted

(* One request per user, and never more than the limit                     *)
(* (bot.create_pairing_request).                                           *)
PairingIsBounded ==
    /\ Len(pending) <= MaxPending
    /\ \A i, j \in DOMAIN pending : pending[i].user = pending[j].user => i = j

(* No user has more messages accepted in a window than the limit, if the   *)
(* bot was not started again (RateLimiter.allow).                          *)
RateIsLimited ==
    Limit > 0 /\ decisions = 0 => \A u \in People : \A t \in 0..clock :
        Sent(u, t..(IF t + Window < clock THEN t + Window ELSE clock)) <= Limit

=============================================================================
