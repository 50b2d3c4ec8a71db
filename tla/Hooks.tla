-------------------------------- MODULE Hooks ---------------------------------
(***************************************************************************)
(* Hooks (hooks.py) without their processes: which handlers an event has,  *)
(* what a handler that has run says, and how the answers of several are    *)
(* combined.  ToolLoop runs them, one after the other.                     *)
(*                                                                         *)
(* A handler is a record [event, all, tools, enabled, mode, type, action]. *)
(* What it came back with is a record "raw": how it ended, its exit code   *)
(* and the data it printed or returned, [form, continue, event, word].     *)
(***************************************************************************)
EXTENDS Naturals, Sequences, SequencesExt

(* An output: success, continue_execution, decision. *)
Output(ok, cont, decision) == [ok |-> ok, cont |-> cont, decision |-> decision]

Plain == Output(TRUE, TRUE, "continue")

Failed == Output(FALSE, TRUE, "continue")

Denied == Output(FALSE, FALSE, "deny")

(* "ask" is unsupported, and a word that is none of these is not trusted.  *)
Decision(word) == IF word \in {"allow", "continue"} THEN word ELSE "deny"

(* _apply_json_output: the data names the event it speaks of; a PostToolUse *)
(* "block" is a denial, and "Stop" has no say.                              *)
ApplyJson(data) ==
    Output(TRUE, data.continue,
           CASE data.event = "PreToolUse" -> Decision(data.word)
             [] data.event = "PostToolUse" /\ data.word = "block" -> "deny"
             [] OTHER -> "continue")

(* Exit 0 prints text (or nothing), or JSON, where only an object will do; *)
(* exit 2 denies; anything else is an error that blocks nothing by itself. *)
FromExitCode(code, data) ==
    CASE code = 0 /\ data.form = "text"  -> Plain
      [] code = 0 /\ data.form = "value" -> Failed
      [] code = 0 /\ data.form = "object" -> ApplyJson(data)
      [] code = 2 -> Output(FALSE, TRUE, "deny")
      [] OTHER    -> Failed

(* Command and script hooks: a process killed at its timeout and one that  *)
(* never started have failed.                                              *)
ProcessHook(raw) ==
    IF raw.end \in {"timeout", "raised"} THEN Failed ELSE FromExitCode(raw.code, raw.data)

(* A function returns an object, or what counts as text.                   *)
FunctionHook(raw) ==
    CASE raw.end \in {"timeout", "raised"} -> Failed
      [] raw.end = "exit" /\ raw.data.form = "object" -> ApplyJson(raw.data)
      [] OTHER -> Plain

(* A pattern or a condition that does not hold, or is no expression, skips *)
(* the hook; input that is no text cannot be searched.                     *)
MarkdownHook(h, raw) ==
    CASE raw.end = "raised"    -> Failed
      [] raw.end = "unmatched" -> Plain
      [] OTHER -> Output(TRUE, TRUE, IF h.action = "block" THEN "deny" ELSE "continue")

(* One turn of the loop in _run_handlers: what failed under "closed" denies *)
(* and stops, whatever it said.                                             *)
RunHandler(h, raw) ==
    LET out == CASE h.type = "function" -> FunctionHook(raw)
                 [] h.type = "markdown" -> MarkdownHook(h, raw)
                 [] h.type \in {"command", "script"} -> ProcessHook(raw)
                 [] OTHER -> Failed
    IN  IF ~out.ok /\ h.mode = "closed" THEN Denied ELSE out

(* _merge_outputs: failures and stops add up, the last decision counts.    *)
MergeOutputs(target, source) ==
    Output(target.ok /\ source.ok, target.cont /\ source.cont,
           IF source.decision = "continue" THEN target.decision ELSE source.decision)

(* A denial or a stop is the last word: no later handler runs.             *)
IsLastWord(out) == ~out.cont \/ out.decision = "deny"

(* HookHandler.matches: without a tool name, only those for everything.    *)
Matches(h, tool) == h.all \/ (tool # "" /\ tool \in h.tools)

(* get_handlers *)
HandlersFor(handlers, event, tool) ==
    SelectSeq(handlers, LAMBDA h : h.event = event /\ h.enabled /\ Matches(h, tool))

(* _normalize_failure_mode *)
FailureMode(word) == IF word \in {"open", "closed"} THEN word ELSE "open"

(* A hooks file gives the handlers up to the first entry that makes no     *)
(* sense; the rest of it is gone, with a warning (_parse_hooks_data).      *)
ReadFile(f) ==
    [i \in 1..(IF f.bad = 0 THEN Len(f.handlers) ELSE f.bad - 1) |->
       [f.handlers[i] EXCEPT !.mode = FailureMode(@)]]

(* The events a markdown hook may name, and the tools it then watches.     *)
MarkdownEvents ==
    [bash |-> "PreToolUse", file |-> "PreToolUse", pre_tool_use |-> "PreToolUse",
     post_tool_use |-> "PostToolUse", prompt |-> "UserPromptSubmit"]

MarkdownTools(event) == CASE event = "bash" -> {"bash"}
                          [] event = "file" -> {"write_file", "apply_patch"}
                          [] OTHER -> {}

(* _load_markdown_hook_file: one handler, which fails open; a file that is *)
(* disabled, broken or of no known event is skipped.                       *)
ReadMarkdown(f) ==
    IF ~f.enabled \/ f.event \notin DOMAIN MarkdownEvents THEN << >>
    ELSE <<[event |-> MarkdownEvents[f.event], all |-> MarkdownTools(f.event) = {},
            tools |-> MarkdownTools(f.event), enabled |-> TRUE, mode |-> "open",
            type |-> "markdown", action |-> f.action]>>

(* load_config: the files of the user, of the project and of the plugins,  *)
(* one after the other.  They add up: none overrides another.              *)
LoadConfig(files) ==
    FlattenSeq([i \in DOMAIN files |->
        IF files[i].kind = "markdown" THEN ReadMarkdown(files[i]) ELSE ReadFile(files[i])])

=============================================================================
