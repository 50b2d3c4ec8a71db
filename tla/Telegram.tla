------------------------------- MODULE Telegram -------------------------------
(***************************************************************************)
(* The Telegram bot, telegram/.  A private chat, the jobs on a schedule,   *)
(* and the question who may write at all, share no state: a job has an     *)
(* agent of its own, and access is decided before the chat's lock is       *)
(* taken.  A behaviour shows one of the three.                             *)
(***************************************************************************)
EXTENDS TelegramChat, TelegramSchedule, TelegramAccess

VARIABLE part

vars == <<part, chatVars, scheduleVars, accessVars>>

Init ==
    /\ part \in {"chat", "schedule", "access"}
    /\ ChatInit /\ (part # "chat" => streaming)
    /\ ScheduleInit /\ (part # "schedule" => kind = "skills" /\ memo = NoJobs)
    /\ AccessInit /\ (part # "access" => config.dm = "pairing" /\ config.groups = NoTable)

Chat == part = "chat" /\ ChatNext /\ UNCHANGED <<part, scheduleVars, accessVars>>
Schedule == part = "schedule" /\ ScheduleNext /\ UNCHANGED <<part, chatVars, accessVars>>
Access == part = "access" /\ AccessNext /\ UNCHANGED <<part, chatVars, scheduleVars>>

Next == Chat \/ Schedule \/ Access

Spec == Init /\ [][Next]_vars

-----------------------------------------------------------------------------
(* Properties *)

(* Every chat settles, with every answer shown and nobody typing           *)
(* (bot._process_message, _stop_typing).                                   *)
ChatsSettle == TypingIsExact /\ ChatSettles

(* Who is answered was let in, at a rate in the limit                      *)
(* (handlers._evaluate_message_access, RateLimiter).                       *)
AccessIsGranted == AllowedIsGranted /\ PairingIsBounded /\ RateIsLimited /\ RulesAgree

=============================================================================
