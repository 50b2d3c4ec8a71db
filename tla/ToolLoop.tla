------------------------------ MODULE ToolLoop --------------------------------
(***************************************************************************)
(* One turn of the tool loop (tool_loop.py): the prompt hooks, the calls   *)
(* to the model with their streams, retries and repairs (agent._call_llm,  *)
(* llm.py), and for every tool call the model asks for its preflight, its  *)
(* hooks (hooks.py), its execution (tool_execution.py) and the message     *)
(* that answers it.  A cancellation may come at any await, and more than   *)
(* once.                                                                   *)
(*                                                                         *)
(* Beside the turn run the worker threads of the executor that all turns   *)
(* share, and the process group of a shell command: neither can be stopped *)
(* by cancelling the turn alone.                                           *)
(***************************************************************************)
EXTENDS Hooks, FiniteSets

CONSTANTS
    Responses,       \* what the model may answer: records [calls, stop, valid]
    MaxSteps,        \* agent_spec.max_steps
    MaxRetries,      \* ChatConfig.max_retries
    MaxContinuations,\* MAX_ANSWER_CONTINUATIONS
    BashLimit,       \* ChatConfig.bash_tool_limit
    Files,           \* the hooks files, in the order they are read
    Raws,            \* what a handler may come back with
    MaxPending,      \* capacity of the executor's queue
    Others,          \* jobs of other turns in the executor
    MaxCancels,      \* bound: cancellations of the turn
    None

ASSUME LoopAssumption ==
    /\ {MaxSteps, BashLimit, MaxPending} \subseteq Nat \ {0}
    /\ {MaxRetries, MaxContinuations, MaxCancels} \subseteq Nat
    /\ \A r \in Responses : /\ r.calls \in Seq(STRING)
                            /\ r.stop \in {"stop", "length"} /\ r.valid \in BOOLEAN

VARIABLES
    turn,       \* where the loop is: phase, step, attempt, what it has tried
    calls,      \* the tool calls of the response still to be handled
    hook,       \* the combined output of the handlers that have run
    delta,      \* message_delta: the messages the turn will commit
    used,       \* current_conversation_tool_calls: the calls recorded
    shown,      \* history: the attempts of which a consumer saw text
    intents,    \* history: the calls journaled before they ran
    ran,        \* history: the calls that took effect
    vetoed,     \* history: the calls a check or a handler refused
    future,     \* the job of a synchronous tool: its future
    pool,       \* the executor: the queued jobs, and what the worker does
    proc,       \* the process group of the shell command
    cancels     \* cancellations so far

executor == <<future, pool>>
history  == <<shown, intents, ran, vetoed>>
vars == <<turn, calls, hook, delta, used, history, executor, proc, cancels>>

(* A call is named by the step that asked for it and its place there. *)
Call(step, i, kind) == [id |-> <<step, i>>, kind |-> kind]

NoCall == Call(0, 0, "none")

Current == IF calls = << >> THEN NoCall ELSE Head(calls)

NoOutput == [next |-> 1, out |-> Plain, over |-> FALSE]

NoProcess == [shell |-> "none", pipes |-> FALSE, why |-> "none"]

Init ==
    /\ turn = [phase |-> "prompt", step |-> 0, attempt |-> 1, forced |-> FALSE,
               repaired |-> FALSE, emitted |-> FALSE, conts |-> 0,
               verdict |-> "none"]
    /\ calls = << >>
    /\ hook = NoOutput
    /\ delta = << >>
    /\ used = << >>
    /\ shown = {} /\ intents = {} /\ ran = {} /\ vetoed = {}
    /\ future = "none"
    /\ pool = [jobs |-> << >>, busy |-> None]
    /\ proc = NoProcess
    /\ cancels = 0

(* The loop is left; ToolLoop.run still closes the client. *)
Leaves(verdict) ==
    [turn EXCEPT !.phase = "closing", !.verdict = verdict,
                 !.attempt = 1, !.forced = FALSE, !.repaired = FALSE, !.emitted = FALSE]

-----------------------------------------------------------------------------
(* Hooks: _run_handlers runs the handlers one after the other *)

EventOf(phase) == CASE phase = "prompt" -> "UserPromptSubmit"
                    [] phase = "pre"    -> "PreToolUse"
                    [] OTHER            -> "PostToolUse"

(* execute_hooks: the handlers of this event, and of this tool.            *)
Handlers == HandlersFor(LoadConfig(Files), EventOf(turn.phase),
                        IF turn.phase = "prompt" THEN "" ELSE Current.kind)

(* A handler ends in its own time, or at its timeout.                      *)
HookRuns ==
    /\ turn.phase \in {"prompt", "pre", "post"}
    /\ ~hook.over /\ hook.next <= Len(Handlers)
    /\ \E raw \in Raws :
         LET out == RunHandler(Handlers[hook.next], raw) IN
         /\ hook' = [next |-> hook.next + 1, out |-> MergeOutputs(hook.out, out),
                     over |-> IsLastWord(out)]
         /\ vetoed' = IF turn.phase = "pre" /\ out.decision = "deny"
                      THEN vetoed \cup {Current.id} ELSE vetoed
    /\ UNCHANGED <<turn, calls, delta, used, shown, intents, ran, executor, proc, cancels>>

HooksDone == hook.over \/ hook.next > Len(Handlers)

(* A prompt is blocked by "continue": false, and the answer is the reason; *)
(* a turn that runs goes to its first step.                                *)
PromptPasses ==
    /\ turn.phase = "prompt" /\ HooksDone
    /\ turn' = IF hook.out.cont THEN [turn EXCEPT !.phase = "top"]
               ELSE [turn EXCEPT !.phase = "over", !.verdict = "blocked"]
    /\ hook' = NoOutput
    /\ UNCHANGED <<calls, delta, used, history, executor, proc, cancels>>

-----------------------------------------------------------------------------
(* Calls to the model *)

NextStep ==
    /\ turn.phase = "top"
    /\ turn' = IF turn.step = MaxSteps THEN Leaves("max_steps")
               ELSE [turn EXCEPT !.phase = "calling", !.step = @ + 1, !.attempt = 1,
                                 !.repaired = FALSE, !.emitted = FALSE]
    /\ UNCHANGED <<calls, hook, delta, used, history, executor, proc, cancels>>

(* A call within the turn, and an attempt of it. *)
Attempt == <<turn.step, turn.repaired, turn.attempt>>

(* A chunk of text reaches the stream callback; the call that forces an    *)
(* answer has none.  Reasoning does not count, and text held back because  *)
(* it may grow into a tag is not there yet.                                *)
StreamText ==
    /\ turn.phase = "calling" /\ ~turn.forced
    /\ turn' = [turn EXCEPT !.emitted = TRUE]
    /\ shown' = shown \cup {Attempt}
    /\ UNCHANGED <<calls, hook, delta, used, intents, ran, vetoed, executor, proc, cancels>>

(* classify_provider_error: rate limits, timeouts, lost connections,       *)
(* server errors and streams that end before their finish reason, as long  *)
(* as no text was shown.                                                   *)
Retriable(kind) ==
    /\ kind = "transient"
    /\ ~turn.emitted
    /\ turn.attempt <= MaxRetries

(* An error of the provider.  One about the pairing of tool calls makes    *)
(* the loop repair the messages and call once more, with new retries.      *)
CallFails(kind) ==
    /\ turn.phase = "calling"
    /\ turn' = IF Retriable(kind) THEN [turn EXCEPT !.phase = "backoff"]
               ELSE IF /\ kind = "pairing"
                       /\ ~turn.emitted /\ ~turn.repaired /\ ~turn.forced
                    THEN [turn EXCEPT !.repaired = TRUE, !.attempt = 1]
               ELSE Leaves("failed")
    /\ UNCHANGED <<calls, hook, delta, used, history, executor, proc, cancels>>

RetryCall ==
    /\ turn.phase = "backoff"
    /\ turn' = [turn EXCEPT !.phase = "calling", !.attempt = @ + 1]
    /\ UNCHANGED <<calls, hook, delta, used, history, executor, proc, cancels>>

Assistant(cs) == [role |-> "assistant", ids |-> [i \in DOMAIN cs |-> cs[i].id]]

Result(id) == [role |-> "tool", ids |-> <<id>>]

(* Mutant: only the call that is over its limit is answered. *)
FirstRefused(cs) == <<Result(cs[1].id)>>

AllRefused(cs) == [i \in DOMAIN cs |-> Result(cs[i].id)]

Named(r) == [i \in DOMAIN r.calls |-> Call(turn.step, i, r.calls[i])]

(* _should_limit_tool_calls looks at the calls made so far, before any of  *)
(* the response is.                                                        *)
Limited(r) ==
    /\ "bash" \in Range(r.calls)
    /\ Len(SelectSeq(used, LAMBDA c : c.kind = "bash")) >= BashLimit

(* The answer to the call that forces one ends the turn whatever it says.  *)
(* Otherwise tool calls that cannot be normalised end it with an error;    *)
(* calls over a limit are all refused and an answer is forced; a text that *)
(* was cut off is continued, and any other text is the answer.             *)
CallAnswers(r) ==
    /\ turn.phase = "calling"
    /\ LET cs    == Named(r)
           tools == r.calls # << >> /\ ~turn.forced
       IN
       \/ /\ tools /\ ~r.valid
          /\ turn' = Leaves("failed")
          /\ UNCHANGED <<calls, delta, vetoed>>
       \/ /\ tools /\ r.valid /\ Limited(r)
          /\ turn' = [turn EXCEPT !.forced = TRUE, !.attempt = 1, !.emitted = FALSE]
          /\ delta' = delta \o <<Assistant(cs)>> \o AllRefused(cs)
          /\ vetoed' = vetoed \cup {cs[i].id : i \in DOMAIN cs}
          /\ UNCHANGED calls
       \/ /\ tools /\ r.valid /\ ~Limited(r)
          /\ turn' = [turn EXCEPT !.phase = "preflight"]
          /\ delta' = Append(delta, Assistant(cs))
          /\ calls' = cs
          /\ UNCHANGED vetoed
       \/ /\ ~tools /\ ~turn.forced
          /\ r.stop = "length" /\ turn.conts < MaxContinuations
          /\ turn' = [turn EXCEPT !.phase = "top", !.conts = @ + 1]
          /\ UNCHANGED <<calls, delta, vetoed>>
       \/ /\ ~tools
          /\ turn.forced \/ r.stop = "stop" \/ turn.conts >= MaxContinuations
          /\ turn' = Leaves("answered")
          /\ delta' = Append(delta, Assistant(<< >>))
          /\ UNCHANGED <<calls, vetoed>>
    /\ UNCHANGED <<hook, used, shown, intents, ran, executor, proc, cancels>>

-----------------------------------------------------------------------------
(* Tool calls: preflight and launch *)

(* The call is answered; on to the next one, or to the next step.          *)
Answer ==
    /\ delta' = Append(delta, Result(Current.id))
    /\ calls' = Tail(calls)
    /\ hook' = NoOutput
    /\ turn' = [turn EXCEPT !.phase = IF Len(calls) = 1 THEN "top" ELSE "preflight"]

(* Arguments that are no JSON object and tools that are not exposed or not *)
(* allowed answer themselves, before any hook.                             *)
Refuse ==
    /\ turn.phase = "preflight"
    /\ Current.kind \in {"badargs", "denied"}
    /\ vetoed' = vetoed \cup {Current.id}
    /\ Answer
    /\ UNCHANGED <<used, shown, intents, ran, executor, proc, cancels>>

Preflight ==
    /\ turn.phase = "preflight"
    /\ Current.kind \notin {"badargs", "denied"}
    /\ turn' = [turn EXCEPT !.phase = "pre"]
    /\ UNCHANGED <<calls, hook, delta, used, history, executor, proc, cancels>>

Allowed == hook.out.decision # "deny"

HookDenied ==
    /\ turn.phase = "pre" /\ HooksDone /\ ~Allowed
    /\ Answer
    /\ UNCHANGED <<used, history, executor, proc, cancels>>

(* The call is counted and journaled, and a journal that cannot be written *)
(* ends the turn.                                                          *)
CountAndJournal ==
    /\ turn.phase = "pre" /\ HooksDone /\ Allowed
    /\ used' = Append(used, Current)
    /\ hook' = NoOutput
    /\ \/ /\ intents' = intents \cup {Current.id}
          /\ turn' = [turn EXCEPT !.phase = "launch"]
       \/ /\ turn' = Leaves("failed")
          /\ UNCHANGED intents
    /\ UNCHANGED <<calls, delta, shown, ran, vetoed, executor, proc, cancels>>

(* A synchronous tool goes to the worker threads; a full queue answers for *)
(* the tool.                                                               *)
Submit ==
    /\ turn.phase = "launch" /\ Current.kind = "sync"
    /\ \/ /\ Len(pool.jobs) < MaxPending
          /\ pool' = [pool EXCEPT !.jobs = Append(@, Current.id)]
          /\ future' = "pending"
          /\ turn' = [turn EXCEPT !.phase = "sync"]
       \/ /\ Len(pool.jobs) >= MaxPending
          /\ turn' = [turn EXCEPT !.phase = "post"]
          /\ UNCHANGED executor
    /\ UNCHANGED <<calls, hook, delta, used, history, proc, cancels>>

(* A shell in a process group of its own; "pipes": something it started in *)
(* the background keeps its output open.                                   *)
Spawn ==
    /\ turn.phase = "launch" /\ Current.kind = "bash"
    /\ \E pipes \in BOOLEAN : proc' = [shell |-> "running", pipes |-> pipes, why |-> "none"]
    /\ ran' = ran \cup {Current.id}
    /\ turn' = [turn EXCEPT !.phase = "bash"]
    /\ UNCHANGED <<calls, hook, delta, used, shown, intents, vetoed, executor, cancels>>

CallServer ==
    /\ turn.phase = "launch" /\ Current.kind = "mcp"
    /\ ran' = ran \cup {Current.id}
    /\ turn' = [turn EXCEPT !.phase = "mcp"]
    /\ UNCHANGED <<calls, hook, delta, used, shown, intents, vetoed, executor, proc, cancels>>

(* The tool raised (a workspace escape, a server that is not there), or    *)
(* its result could not be put into words: the error is the answer.        *)
ToolRaises ==
    /\ \/ turn.phase \in {"launch", "mcp"} /\ Current.kind # "sync"
       \/ turn.phase = "post" /\ HooksDone
    /\ Answer
    /\ UNCHANGED <<used, history, executor, proc, cancels>>

ToolReturns ==
    /\ \/ turn.phase = "mcp"
       \/ turn.phase = "sync" /\ future = "done"
       \/ turn.phase = "bash" /\ proc.shell = "exited" /\ ~proc.pipes
    /\ turn' = [turn EXCEPT !.phase = "post"]
    /\ UNCHANGED <<calls, hook, delta, used, history, executor, proc, cancels>>

(* The handlers after the tool may change what it said, not that it did.   *)
PostDone ==
    /\ turn.phase = "post" /\ HooksDone
    /\ Answer
    /\ UNCHANGED <<used, history, executor, proc, cancels>>

-----------------------------------------------------------------------------
(* The worker threads: _BoundedDaemonExecutor *)

Mine(job) == job \notin Others

OtherSubmits(o) ==
    /\ Len(pool.jobs) < MaxPending
    /\ o \notin Range(pool.jobs) \cup {pool.busy}
    /\ pool' = [pool EXCEPT !.jobs = Append(@, o)]
    /\ UNCHANGED <<turn, calls, hook, delta, used, history, future, proc, cancels>>

(* Mutant: the worker does not ask whether the job was cancelled. *)
NeverDone(job) == FALSE

(* future.done() before the operation starts. *)
Forgotten(job) == Mine(job) /\ future = "cancelled"

WorkerTakes ==
    /\ pool.busy = None /\ pool.jobs # << >>
    /\ LET job == Head(pool.jobs) IN
       /\ pool' = [jobs |-> Tail(pool.jobs),
                   busy |-> IF Forgotten(job) THEN None ELSE job]
       /\ ran' = IF Mine(job) /\ ~Forgotten(job) THEN ran \cup {job} ELSE ran
    /\ UNCHANGED <<turn, calls, hook, delta, used, shown, intents, vetoed, future, proc, cancels>>

WorkerFinishes ==
    /\ pool.busy # None
    /\ pool' = [pool EXCEPT !.busy = None]
    /\ future' = IF Mine(pool.busy) /\ future = "pending" THEN "done" ELSE future
    /\ UNCHANGED <<turn, calls, hook, delta, used, history, proc, cancels>>

(* After a cancellation the turn waits for the job, further cancellations  *)
(* notwithstanding, until a deadline passes; a job that has not started by *)
(* then never will.                                                        *)
Settle ==
    /\ turn.phase = "settling"
    /\ future' = IF future = "pending" THEN "cancelled" ELSE future
    /\ turn' = Leaves("cancelled")
    /\ UNCHANGED <<calls, hook, delta, used, history, pool, proc, cancels>>

-----------------------------------------------------------------------------
(* The shell: _execute_bash and _terminate_process *)

ShellExits ==
    /\ proc.shell = "running"
    /\ proc' = [proc EXCEPT !.shell = "exited"]
    /\ UNCHANGED <<turn, calls, hook, delta, used, history, executor, cancels>>

PipesClose ==
    /\ proc.pipes
    /\ proc' = [proc EXCEPT !.pipes = FALSE]
    /\ UNCHANGED <<turn, calls, hook, delta, used, history, executor, cancels>>

(* What a termination is followed by: the answer that the command timed    *)
(* out, or the end of the turn.                                            *)
AfterTermination(why) ==
    IF why = "timeout" THEN [turn EXCEPT !.phase = "post"] ELSE Leaves("cancelled")

(* SIGTERM to the group; a shell that has exited is left at that, with     *)
(* whatever holds its pipes.                                               *)
Terminate(why) ==
    /\ proc' = [proc EXCEPT !.why = why]
    /\ turn' = IF proc.shell = "exited" THEN AfterTermination(why)
               ELSE [turn EXCEPT !.phase = "terminating"]

BashTimesOut ==
    /\ turn.phase = "bash"
    /\ Terminate("timeout")
    /\ UNCHANGED <<calls, hook, delta, used, history, executor, cancels>>

KillGroup == proc' = [proc EXCEPT !.shell = "exited", !.pipes = FALSE]

(* Two seconds later, SIGKILL. *)
KillShell ==
    /\ turn.phase = "terminating" /\ proc.shell = "running"
    /\ KillGroup
    /\ turn' = AfterTermination(proc.why)
    /\ UNCHANGED <<calls, hook, delta, used, history, executor, cancels>>

ShellTerminated ==
    /\ turn.phase = "terminating" /\ proc.shell = "exited"
    /\ turn' = AfterTermination(proc.why)
    /\ UNCHANGED <<calls, hook, delta, used, history, executor, proc, cancels>>

-----------------------------------------------------------------------------
(* Cancellation and the end *)

(* Most awaits just end.  Waiting for a thread turns into settling, which  *)
(* another cancellation does not shorten; waiting for a command turns into *)
(* its termination, which another cancellation does abandon.               *)
Cancel ==
    /\ cancels < MaxCancels
    /\ turn.phase \notin {"over", "top", "preflight", "launch"}
    /\ cancels' = cancels + 1
    /\ CASE turn.phase \in {"sync", "settling"} ->
              turn' = [turn EXCEPT !.phase = "settling"] /\ UNCHANGED proc
         [] turn.phase = "bash"   -> Terminate("cancel")
         [] turn.phase \in {"prompt", "closing"} ->
              turn' = [turn EXCEPT !.phase = "over", !.verdict = "cancelled"] /\ UNCHANGED proc
         [] OTHER -> turn' = Leaves("cancelled") /\ UNCHANGED proc
    /\ UNCHANGED <<calls, hook, delta, used, history, executor>>

Closed ==
    /\ turn.phase = "closing"
    /\ turn' = [turn EXCEPT !.phase = "over"]
    /\ UNCHANGED <<calls, hook, delta, used, history, executor, proc, cancels>>

-----------------------------------------------------------------------------
Model == StreamText \/ RetryCall \/ NextStep
         \/ (\E kind \in {"transient", "pairing", "other"} : CallFails(kind))
         \/ (\E r \in Responses : CallAnswers(r))

Hooks == PromptPasses \/ HookRuns

Tools == Refuse \/ Preflight \/ HookDenied \/ CountAndJournal \/ Submit \/ Spawn
         \/ CallServer \/ ToolRaises \/ ToolReturns \/ PostDone

Outside == WorkerTakes \/ WorkerFinishes \/ ShellExits \/ PipesClose
           \/ \E o \in Others : OtherSubmits(o)

(* The deadlines, and the client that closes: what ends by itself.         *)
Deadlines == Settle \/ BashTimesOut \/ KillShell \/ ShellTerminated \/ Closed

Next == Model \/ Hooks \/ Tools \/ Outside \/ Deadlines \/ Cancel

Spec == Init /\ [][Next]_vars

-----------------------------------------------------------------------------
(* Properties *)

TypeOK ==
    /\ turn.step \in 0..MaxSteps /\ turn.attempt \in 1..(MaxRetries + 1)
    /\ turn.conts \in 0..MaxContinuations
    /\ turn.verdict \in {"none", "answered", "failed", "max_steps", "cancelled", "blocked"}
    /\ future \in {"none", "pending", "done", "cancelled"}
    /\ Len(pool.jobs) <= MaxPending
    /\ cancels \in 0..MaxCancels

(* Every call the model makes is answered once, in order, right after the  *)
(* message that makes it, and nothing else is an answer; what the turn     *)
(* commits ends with the answer to the user, with no call left open        *)
(* (append_canonical in all the branches of the loop).                     *)
DeltaIsPaired ==
    /\ \A k \in DOMAIN delta :
         IF delta[k].role = "assistant"
         THEN \A j \in DOMAIN delta[k].ids :
                IF k + j \in DOMAIN delta THEN delta[k + j] = Result(delta[k].ids[j])
                ELSE delta[k].ids[j] \in {calls[i].id : i \in DOMAIN calls}
         ELSE \E a \in 1..(k - 1) : delta[a].role = "assistant" /\ k - a \in DOMAIN delta[a].ids
    /\ turn.verdict = "answered" => calls = << >> /\ Last(delta) = Assistant(<< >>)

(* Nothing takes effect that was not journaled first, or that a check, a   *)
(* limit or a handler refused; in particular a handler that fails closed   *)
(* has the last word (_run_handlers, the preflight in the loop).           *)
EffectsAreSanctioned ==
    /\ ran \subseteq intents
    /\ ran \cap vetoed = {}

(* Text the consumer of the stream has seen is never withdrawn by another  *)
(* attempt at the same answer (emitted_output, partial_output).            *)
NothingShownTwice ==
    \A a, b \in shown : a[1] = b[1] => a = b

(* A turn that is over has no shell running, unless it was cancelled a     *)
(* second time, or cancelled after the command had timed out, in the two   *)
(* seconds SIGTERM was given (_terminate_process).                         *)
ShellIsStopped ==
    turn.phase = "over" /\ proc.shell = "running"
       => cancels >= (IF proc.why = "timeout" THEN 1 ELSE 2)

(* A synchronous tool that had not started when the turn gave up on it     *)
(* never does (_execute_sync_tool, _worker).                               *)
GivenUpIsGivenUp == [][future = "cancelled" => ran' = ran]_vars

(* What the turn keeps, shows and leaves running is in order at every      *)
(* await (tool_loop.enhanced_chat_with_tools).                             *)
TurnIsSound == TypeOK /\ DeltaIsPaired /\ NothingShownTwice /\ ShellIsStopped

(* A cancelled turn ends, however long its tool takes, unless the client   *)
(* never closes.  A turn that is over stays so.                            *)
CancelledTurnEnds == <>[](cancels > 0 => turn.phase = "over")

=============================================================================
