------------------------------- MODULE OneTurn --------------------------------
(***************************************************************************)
(* One turn, from both sides: the loop that runs it, with its hooks, calls *)
(* and tools (ToolLoop), and the stream of what it says to those who       *)
(* listen (TurnStream).  Each describes the rounds of the loop for its own *)
(* purpose; a behaviour shows one of them.                                 *)
(***************************************************************************)
EXTENDS ToolLoop, TLC

CONSTANTS Relays, QueueMax, MaxPieces

ASSUME StreamAssumption == QueueMax \in Nat \ {0} /\ MaxPieces \in Nat

VARIABLES stream, status, step, text, thought, parts, continuations, reasoning, answer,
          pieces, log, subscribers, queue, pc, todo, since, frames

Stream == INSTANCE TurnStream

VARIABLE part

loopVars == <<turn, calls, hook, delta, used, history, executor, proc, cancels>>
streamVars == <<stream, status, step, text, thought, parts, continuations, reasoning, answer,
                pieces, log, subscribers, queue, pc, todo, since, frames>>
allVars == <<part, loopVars, streamVars>>

EitherInit ==
    /\ part \in {"loop", "stream"}
    /\ Init
    /\ part = "loop" => stream = TRUE
    /\ Stream!Init

InLoop == part = "loop" /\ UNCHANGED <<part, streamVars>>
InStream == part = "stream" /\ UNCHANGED <<part, loopVars>>

EitherNext ==
    \/ InLoop /\ Next
    \/ InStream /\ Stream!Next

(* Neither a thread nor a process need ever end, nor need a model or a     *)
(* tool answer; timers and the event loop do their part.  A client that    *)
(* stays reads on; neither the turn nor a keepalive is promised to it.     *)
EitherSpec ==
    /\ EitherInit /\ [][EitherNext]_allVars
    /\ WF_allVars(InLoop /\ Deadlines)
    /\ \A r \in Relays : WF_allVars(InStream /\ Stream!Progress(r))

-----------------------------------------------------------------------------
(* Properties *)

(* What the turn keeps, shows and leaves running is in order at every      *)
(* await, and nothing takes effect that was not journaled, or that a check *)
(* or a handler refused (tool_loop.enhanced_chat_with_tools).              *)
LoopIsSound == TurnIsSound /\ EffectsAreSanctioned

(* Every relay passes on the turn without a gap or a repetition, and ends  *)
(* as it does (turn_stream.turn_frames).                                   *)
StreamIsSound == Stream!StreamInvariant

(* A cancelled turn ends, and so does every relay of a turn that ended.    *)
TurnsEnd == CancelledTurnEnds /\ Stream!RelayEnds

-----------------------------------------------------------------------------
(* The instance that TLC checks. *)

Response(kinds, stop, valid) == [calls |-> kinds, stop |-> stop, valid |-> valid]

(* An answer, one that is cut off, calls of every kind, and calls that     *)
(* cannot be normalised.                                                   *)
SomeResponses ==
    {Response(<< >>, "stop", TRUE), Response(<< >>, "length", TRUE),
     Response(<<"badargs", "sync">>, "stop", TRUE), Response(<<"bash", "mcp">>, "stop", TRUE),
     Response(<<"sync">>, "stop", FALSE)}

(* One handler for every prompt, and for the tools one of each failure      *)
(* mode: a command that fails open, then a function that fails closed; the  *)
(* entry after it is lost with the one that makes no sense.  A markdown     *)
(* hook watches the shell.                                                  *)
Handler(event, type, mode, tools) ==
    [event |-> event, all |-> tools = {}, tools |-> tools, enabled |-> TRUE,
     mode |-> mode, type |-> type, action |-> "warn"]

UserFile ==
    [kind |-> "toml", bad |-> 0,
     handlers |-> <<Handler("UserPromptSubmit", "command", "open", {}),
                    Handler("PreToolUse", "command", "whatever", {"sync", "mcp"})>>]

ProjectFile ==
    [kind |-> "toml", bad |-> 3,
     handlers |-> <<Handler("PreToolUse", "function", "closed", {"sync", "mcp"}),
                    Handler("PostToolUse", "script", "closed", {}),
                    Handler("PreToolUse", "command", "closed", {})>>]

Watch(event, enabled) ==
    [kind |-> "markdown", event |-> event, enabled |-> enabled, action |-> "block"]

AllFiles == <<UserFile, ProjectFile, Watch("bash", TRUE), Watch("prompt", FALSE),
              Watch("friday", TRUE)>>

Json(continue, event, word) ==
    [form |-> "object", continue |-> continue, event |-> event, word |-> word]

Silent == [Json(TRUE, "", "") EXCEPT !.form = "text"]

Raw(end, code, data) == [end |-> end, code |-> code, data |-> data]

SomeRaws ==
    {Raw(end, 0, Silent) : end \in {"timeout", "raised", "unmatched"}}
    \cup {Raw("exit", code, Silent) : code \in 0..2}
    \cup {Raw("exit", 0, d) : d \in {[Silent EXCEPT !.form = "value"],
              Json(FALSE, "", ""), Json(TRUE, "PreToolUse", "ask"),
              Json(TRUE, "PreToolUse", "allow"), Json(TRUE, "PreToolUse", "Deny!"),
              Json(TRUE, "PostToolUse", "block")}}

=============================================================================
