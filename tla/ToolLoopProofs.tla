---------------------------- MODULE ToolLoopProofs ----------------------------
(***************************************************************************)
(* What a turn keeps, shows, does and leaves running is in order for all   *)
(* responses, hooks and tools, and every number of steps, retries, jobs    *)
(* and cancellations.                                                      *)
(***************************************************************************)
EXTENDS OneTurn, TLAPS

-----------------------------------------------------------------------------
(* The inductive invariant *)

Ids == Nat \X Nat
Calls == [id : Ids, kind : STRING]
Messages == [role : {"assistant", "tool"}, ids : Seq(Ids)]

Waits == {"sync", "settling"}

(* The phases in which a call of the model is handled, and all of them.    *)
Handling == {"preflight", "pre", "launch", "bash", "terminating", "mcp", "post"} \cup Waits
Phases == {"prompt", "top", "calling", "backoff", "closing", "over"} \cup Handling

Verdicts == {"none", "answered", "failed", "max_steps", "cancelled", "blocked"}

Turns == [phase : Phases, step : 0..MaxSteps, attempt : 1..(MaxRetries + 1),
          forced : BOOLEAN, repaired : BOOLEAN, emitted : BOOLEAN,
          conts : 0..MaxContinuations, verdict : Verdicts]

Types ==
    /\ turn \in Turns
    /\ calls \in Seq(Calls)
    /\ delta \in Seq(Messages)
    /\ shown \subseteq Nat \X BOOLEAN \X Nat
    /\ intents \subseteq Ids /\ vetoed \subseteq Ids
    /\ future \in {"none", "pending", "done", "cancelled"}
    /\ pool.jobs \in Seq(Ids \cup Others) /\ Len(pool.jobs) <= MaxPending
    /\ pool = [jobs |-> pool.jobs, busy |-> pool.busy]
    /\ proc \in [shell : {"none", "running", "exited"}, pipes : BOOLEAN,
                 why : {"none", "timeout", "cancel"}]
    /\ cancels \in 0..MaxCancels

(* What each place in the loop implies.                                    *)
Places ==
    /\ turn.verdict # "none" <=> turn.phase \in {"closing", "over"}
    /\ calls # << >> => turn.phase \in Handling \cup {"closing", "over"}
    /\ turn.phase \in Handling => calls # << >>
    /\ turn.forced => turn.phase \in {"calling", "backoff"}
    /\ turn.phase = "backoff" => ~turn.emitted /\ turn.attempt <= MaxRetries
    /\ future = "cancelled" => turn.phase \in {"closing", "over"}

(* Message k waits for the answer to its call j: it is the next but so     *)
(* many to be handled.                                                     *)
Waiting(k, j) ==
    /\ k + j - Len(delta) \in DOMAIN calls
    /\ delta[k].ids[j] = calls[k + j - Len(delta)].id

Answered(k, j) == delta[k + j] = Result(delta[k].ids[j])

Owns(a, k) == delta[a].role = "assistant" /\ k - a \in DOMAIN delta[a].ids

(* The calls still to be handled are the last ones of a message whose      *)
(* other calls have their answers behind it.                               *)
Paired ==
    /\ \A k \in DOMAIN delta : delta[k].role = "assistant" =>
          \A j \in DOMAIN delta[k].ids :
             IF k + j \in DOMAIN delta THEN Answered(k, j) ELSE Waiting(k, j)
    /\ \A k \in DOMAIN delta : delta[k].role = "tool" => \E a \in 1..(k - 1) : Owns(a, k)
    /\ \A n \in DOMAIN calls : \E a \in DOMAIN delta : Owns(a, Len(delta) + n)
    /\ turn.verdict = "answered" => calls = << >> /\ Last(delta) = Assistant(<< >>)

(* No call has the name of another, and those of the step that goes on     *)
(* have no name that was used.                                             *)
Fresh ==
    /\ \A i \in DOMAIN calls : calls[i].id[1] = turn.step
    /\ \A i, j \in DOMAIN calls : calls[i].id = calls[j].id => i = j
    /\ \A id \in intents \cup vetoed : id[1] <= turn.step
    /\ turn.phase \in {"calling", "backoff"} /\ ~turn.forced =>
          \A id \in intents \cup vetoed : id[1] < turn.step

(* A call is journaled or refused in its turn, and not both: a refusal of  *)
(* a handler is what the loop will find when all handlers have run.        *)
Sanctioned ==
    /\ \A i \in DOMAIN calls :
          i > 1 \/ turn.phase = "preflight" => calls[i].id \notin intents \cup vetoed
    /\ turn.phase = "pre" => Current.id \notin intents
    /\ turn.phase = "pre" /\ Current.id \in vetoed => hook.over /\ hook.out.decision = "deny"
    /\ turn.phase = "launch" => Current.id \in intents
    /\ \A i \in DOMAIN pool.jobs : pool.jobs[i] \in Others \cup intents
    /\ ran \subseteq intents
    /\ intents \cap vetoed = {}

(* What was shown of the step that goes on was shown by this attempt.      *)
Shown ==
    /\ \A a \in shown : a[1] <= turn.step
    /\ turn.phase \in {"calling", "backoff"} /\ ~turn.forced =>
          \A a \in shown : a[1] = turn.step => turn.emitted /\ a = Attempt
    /\ NothingShownTwice

(* A shell runs while the turn waits for it, or was abandoned.             *)
Enough == cancels >= (IF proc.why = "timeout" THEN 1 ELSE 2)

Shell ==
    /\ proc.shell = "running" =>
          \/ turn.phase \in {"bash", "terminating"}
          \/ turn.phase \in {"closing", "over"} /\ Enough
    /\ turn.phase = "terminating" => proc.why \in {"timeout", "cancel"}
    /\ turn.phase = "terminating" /\ proc.why = "cancel" => cancels >= 1

IInv == Types /\ Places /\ Paired /\ Fresh /\ Sanctioned /\ Shown /\ Shell

-----------------------------------------------------------------------------
(* The initial state *)

LEMMA InitHolds == Init => IInv
<1> SUFFICES ASSUME Init PROVE IInv
  OBVIOUS
<1> USE LoopAssumption DEF Init
<1>1. Types
  BY DEF Types, Turns, Phases, Verdicts, Handling, Waits, NoProcess
<1>2. Places /\ Paired /\ Fresh
  BY DEF Places, Handling, Waits, Paired, Fresh
<1>3. Sanctioned /\ Shown /\ Shell
  BY DEF Sanctioned, Shown, NothingShownTwice, Shell, NoProcess
<1> QED
  BY <1>1, <1>2, <1>3 DEF IInv

-----------------------------------------------------------------------------
(* Types *)

(* The calls of a response, as the turn names them.                        *)
LEMMA NamedCalls ==
  ASSUME Types, NEW r \in Responses
  PROVE  /\ Named(r) \in Seq(Calls)
         /\ Len(Named(r)) = Len(r.calls)
         /\ \A i \in DOMAIN Named(r) : Named(r)[i].id = <<turn.step, i>>
<1>1. r.calls \in Seq(STRING) /\ turn.step \in Nat
  BY LoopAssumption DEF Types, Turns
<1>2. \A i \in DOMAIN r.calls : Call(turn.step, i, r.calls[i]) \in Calls
  BY <1>1 DEF Call, Calls, Ids
<1>3. \A i \in DOMAIN r.calls : Call(turn.step, i, r.calls[i]).id = <<turn.step, i>>
  BY DEF Call
<1>4. /\ Named(r) = [i \in 1..Len(r.calls) |-> Call(turn.step, i, r.calls[i])]
      /\ Len(r.calls) \in Nat /\ DOMAIN r.calls = 1..Len(r.calls)
  BY <1>1 DEF Named
<1>5. Named(r) \in Seq(Calls)
  BY <1>2, <1>4
<1>6. Len(Named(r)) = Len(r.calls) /\ DOMAIN Named(r) = DOMAIN r.calls
  BY <1>4
<1>7. \A i \in DOMAIN r.calls : Named(r)[i].id = <<turn.step, i>>
  BY <1>3, <1>4
<1> QED
  BY <1>5, <1>6, <1>7

(* The messages a turn writes. *)
LEMMA Written ==
  /\ \A cs \in Seq(Calls) :
        /\ Assistant(cs) \in Messages
        /\ Assistant(cs).role = "assistant" /\ DOMAIN Assistant(cs).ids = DOMAIN cs
        /\ \A i \in DOMAIN cs : Assistant(cs).ids[i] = cs[i].id
        /\ AllRefused(cs) \in Seq(Messages)
        /\ Len(AllRefused(cs)) = Len(cs)
  /\ \A id \in Ids : /\ Result(id) \in Messages
                     /\ Result(id).role = "tool"
<1>1. ASSUME NEW cs \in Seq(Calls)
      PROVE  /\ Assistant(cs) \in Messages
             /\ Assistant(cs).role = "assistant" /\ DOMAIN Assistant(cs).ids = DOMAIN cs
             /\ \A i \in DOMAIN cs : Assistant(cs).ids[i] = cs[i].id
             /\ AllRefused(cs) \in Seq(Messages)
             /\ Len(AllRefused(cs)) = Len(cs)
  <2>1. \A i \in DOMAIN cs : cs[i].id \in Ids
    <3> TAKE i \in DOMAIN cs
    <3>1. cs[i] \in Calls
      OBVIOUS
    <3> QED
      BY <3>1 DEF Calls
  <2>2. [i \in DOMAIN cs |-> cs[i].id] \in Seq(Ids)
    BY <2>1
  <2>3. \A i \in DOMAIN cs : Result(cs[i].id) \in Messages
    BY <2>1 DEF Result, Messages
  <2>4. Assistant(cs) \in Messages
    BY <2>2 DEF Assistant, Messages
  <2>5. /\ Assistant(cs).role = "assistant"
        /\ Assistant(cs).ids = [i \in DOMAIN cs |-> cs[i].id]
    BY DEF Assistant
  <2>6. AllRefused(cs) \in Seq(Messages) /\ Len(AllRefused(cs)) = Len(cs)
    BY <2>3 DEF AllRefused
  <2> QED
    BY <2>4, <2>5, <2>6
<1>2. \A id \in Ids : Result(id) \in Messages /\ Result(id).role = "tool"
  BY DEF Result, Messages
<1> QED
  BY <1>1, <1>2

LEMMA CurrentIsFirst ==
  ASSUME Types, calls # << >>
  PROVE  /\ Current = calls[1] /\ Current.id \in Ids
         /\ Len(calls) \in Nat \ {0} /\ 1 \in DOMAIN calls
         /\ Tail(calls) \in Seq(Calls)
         /\ Len(Tail(calls)) = Len(calls) - 1
         /\ \A i \in DOMAIN Tail(calls) : i + 1 \in DOMAIN calls /\ Tail(calls)[i] = calls[i + 1]
<1>1. calls \in Seq(Calls)
  BY DEF Types
<1>2. Len(calls) \in Nat \ {0} /\ Head(calls) = calls[1] /\ calls[1] \in Calls
  BY <1>1
<1>3. calls[1].id \in Ids
  BY <1>2 DEF Calls
<1> QED
  BY <1>1, <1>2, <1>3 DEF Current

LEMMA Bounds ==
  /\ MaxSteps \in Nat \ {0} /\ BashLimit \in Nat \ {0} /\ MaxPending \in Nat \ {0}
  /\ MaxRetries \in Nat /\ MaxContinuations \in Nat /\ MaxCancels \in Nat
  /\ 1 \in 1..(MaxRetries + 1)
<1>1. /\ MaxSteps \in Nat \ {0} /\ BashLimit \in Nat \ {0} /\ MaxPending \in Nat \ {0}
      /\ MaxRetries \in Nat /\ MaxContinuations \in Nat /\ MaxCancels \in Nat
  BY LoopAssumption
<1> QED
  BY <1>1

(* A turn that only changes its phase.                                     *)
LEMMA PhaseOf ==
  ASSUME Types, NEW phase \in Phases
  PROVE  /\ [turn EXCEPT !.phase = phase] \in Turns
         /\ [turn EXCEPT !.phase = phase].phase = phase
         /\ [turn EXCEPT !.phase = phase].step = turn.step
         /\ [turn EXCEPT !.phase = phase].verdict = turn.verdict
BY DEF Types, Turns

LEMMA LeftTurn ==
  ASSUME Types, NEW verdict \in Verdicts
  PROVE  /\ Leaves(verdict) \in Turns
         /\ Leaves(verdict).phase = "closing" /\ Leaves(verdict).verdict = verdict
         /\ Leaves(verdict).step = turn.step /\ ~Leaves(verdict).forced
<1>1. "closing" \in Phases
  BY DEF Phases
<1>2. turn \in Turns
  BY DEF Types
<1>3. Leaves(verdict) = [phase |-> "closing", step |-> turn.step, attempt |-> 1,
                        forced |-> FALSE, repaired |-> FALSE, emitted |-> FALSE,
                        conts |-> turn.conts, verdict |-> verdict]
  <2>1. PICK r1 \in Turns : r1 = [turn EXCEPT !.phase = "closing", !.verdict = verdict]
    BY <1>1, <1>2 DEF Turns
  <2>2. PICK r2 \in Turns : r2 = [r1 EXCEPT !.attempt = 1, !.forced = FALSE]
    BY <2>1, Bounds DEF Turns
  <2>3. Leaves(verdict) = [r2 EXCEPT !.repaired = FALSE, !.emitted = FALSE]
    BY <1>2, <2>1, <2>2 DEF Turns, Leaves
  <2> QED
    BY <1>2, <2>1, <2>2, <2>3 DEF Turns
<1> QED
  BY <1>1, <1>2, <1>3, Bounds DEF Turns

(* What the phases after a call's answer and after a termination are.      *)
LEMMA AnsweredTurn ==
  ASSUME Types, calls # << >>, Answer
  PROVE  /\ turn' \in Turns /\ turn' = [turn EXCEPT !.phase = turn'.phase]
         /\ turn'.phase = IF Tail(calls) = << >> THEN "top" ELSE "preflight"
         /\ calls' = Tail(calls) /\ delta' = Append(delta, Result(Current.id))
         /\ calls' \in Seq(Calls) /\ delta' \in Seq(Messages)
<1>1. Len(calls) = 1 <=> Tail(calls) = << >>
  <2>1. Len(calls) = 1 <=> Len(Tail(calls)) = 0
    BY CurrentIsFirst
  <2>2. Len(Tail(calls)) = 0 <=> Tail(calls) = << >>
    BY CurrentIsFirst
  <2> QED
    BY <2>1, <2>2
<1>2. turn' = [turn EXCEPT !.phase = IF Tail(calls) = << >> THEN "top" ELSE "preflight"]
  BY <1>1 DEF Answer
<1>3. /\ turn' \in Turns /\ turn' = [turn EXCEPT !.phase = turn'.phase]
      /\ turn'.phase = IF Tail(calls) = << >> THEN "top" ELSE "preflight"
  BY <1>2 DEF Types, Turns, Phases, Handling
<1>4. delta' \in Seq(Messages)
  BY CurrentIsFirst, Written DEF Answer, Types
<1> QED
  BY <1>3, <1>4, CurrentIsFirst DEF Answer

LEMMA TerminatedTurn ==
  ASSUME Types, NEW why \in {"timeout", "cancel"}
  PROVE  /\ AfterTermination(why) \in Turns
         /\ AfterTermination(why).step = turn.step
         /\ why = "timeout" => AfterTermination(why) = [turn EXCEPT !.phase = "post"]
         /\ why = "cancel" => AfterTermination(why) = Leaves("cancelled")
<1>1. [turn EXCEPT !.phase = "post"] \in Turns /\ [turn EXCEPT !.phase = "post"].step = turn.step
  BY DEF Types, Turns, Phases, Handling
<1> QED
  BY <1>1, LeftTurn DEF AfterTermination, Verdicts

LEMMA TypesKept ==
  ASSUME Types, Places, Shell, Next
  PROVE  Types'
<1> USE LoopAssumption DEF Types
<1>1. CASE StreamText \/ RetryCall \/ NextStep
  <2>1. turn' \in Turns
    <3>1. CASE StreamText
      BY <1>1, <3>1 DEF StreamText, Turns
    <3>2. CASE RetryCall
      <4>1. turn' = [turn EXCEPT !.phase = "calling", !.attempt = turn.attempt + 1]
        BY <3>2 DEF RetryCall
      <4>2. turn.attempt + 1 \in 1..(MaxRetries + 1) /\ "calling" \in Phases
        BY <3>2, Bounds DEF RetryCall, Places, Turns, Phases
      <4> QED
        BY <4>1, <4>2 DEF Turns
    <3>3. CASE NextStep
      <4>1. CASE turn.step = MaxSteps
        BY <3>3, <4>1, LeftTurn DEF NextStep, Verdicts
      <4>2. CASE turn.step # MaxSteps
        <5>1. turn' = [phase |-> "calling", step |-> turn.step + 1, attempt |-> 1,
                       forced |-> turn.forced, repaired |-> FALSE, emitted |-> FALSE,
                       conts |-> turn.conts, verdict |-> turn.verdict]
          BY <3>3, <4>2 DEF NextStep, Turns
        <5>2. turn.step + 1 \in 0..MaxSteps /\ "calling" \in Phases
          BY <4>2, Bounds DEF Turns, Phases
        <5> QED
          BY <5>1, <5>2, Bounds DEF Turns
      <4> QED
        BY <4>1, <4>2
    <3> QED
      BY <1>1, <3>1, <3>2, <3>3
  <2>2. shown' \subseteq Nat \X BOOLEAN \X Nat
    BY <1>1 DEF StreamText, RetryCall, NextStep, Attempt, Turns, history
  <2> QED
    BY <1>1, <2>1, <2>2 DEF StreamText, RetryCall, NextStep, history, executor
<1>2. ASSUME NEW kind \in {"transient", "pairing", "other"}, CallFails(kind)
      PROVE  Types'
  <2>1. turn' \in Turns
    <3>1. [turn EXCEPT !.repaired = TRUE, !.attempt = 1] \in Turns
      BY Bounds DEF Turns
    <3>2. [turn EXCEPT !.phase = "backoff"] \in Turns
      BY PhaseOf DEF Phases
    <3>3. Leaves("failed") \in Turns
      BY LeftTurn DEF Verdicts
    <3> QED
      BY <1>2, <3>1, <3>2, <3>3 DEF CallFails
  <2> QED
    BY <1>2, <2>1 DEF CallFails, history, executor
<1>3. ASSUME NEW r \in Responses, CallAnswers(r)
      PROVE  Types'
  <2>1. turn' \in Turns
    <3>1. [turn EXCEPT !.forced = TRUE, !.attempt = 1, !.emitted = FALSE] \in Turns
      BY Bounds DEF Turns
    <3>2. [turn EXCEPT !.phase = "preflight"] \in Turns
      BY PhaseOf DEF Phases, Handling
    <3>3. turn.conts < MaxContinuations => [turn EXCEPT !.phase = "top", !.conts = @ + 1] \in Turns
      <4>1. turn.conts < MaxContinuations => turn.conts + 1 \in 0..MaxContinuations
        BY Bounds DEF Turns
      <4> QED
        BY <4>1 DEF Turns, Phases
    <3>4. Leaves("failed") \in Turns /\ Leaves("answered") \in Turns
      BY LeftTurn DEF Verdicts
    <3> QED
      BY <1>3, <3>1, <3>2, <3>3, <3>4 DEF CallAnswers
  <2>2. Named(r) \in Seq(Calls) /\ \A i \in DOMAIN Named(r) : Named(r)[i].id \in Ids
    <3>1. Named(r) \in Seq(Calls) /\ \A i \in DOMAIN Named(r) : Named(r)[i] \in Calls
      BY NamedCalls
    <3> QED
      BY <3>1 DEF Calls
  <2>3. calls' \in Seq(Calls)
    BY <1>3, <2>2 DEF CallAnswers
  <2>4. delta' \in Seq(Messages)
    <3>1. /\ Assistant(Named(r)) \in Messages /\ AllRefused(Named(r)) \in Seq(Messages)
      BY <2>2, Written
    <3>2. Assistant(<< >>) \in Messages
      BY Written, << >> \in Seq(Calls)
    <3>3. Append(delta, Assistant(Named(r))) \in Seq(Messages)
      BY <3>1
    <3>4. Append(delta, Assistant(<< >>)) \in Seq(Messages)
      BY <3>2
    <3>5. delta \o <<Assistant(Named(r))>> \o AllRefused(Named(r)) \in Seq(Messages)
      BY <3>1
    <3> QED
      BY <1>3, <3>3, <3>4, <3>5 DEF CallAnswers
  <2>5. vetoed' \subseteq Ids
    <3>1. {Named(r)[i].id : i \in DOMAIN Named(r)} \subseteq Ids
      BY <2>2
    <3> QED
      BY <1>3, <3>1 DEF CallAnswers
  <2> QED
    BY <1>3, <2>1, <2>3, <2>4, <2>5 DEF CallAnswers, executor
<1>4. CASE PromptPasses \/ Preflight \/ Closed
  <2>1. turn' \in Turns
    <3>1. \A p \in {"top", "pre", "over"} : [turn EXCEPT !.phase = p] \in Turns
      BY PhaseOf DEF Phases, Handling
    <3>2. [turn EXCEPT !.phase = "over", !.verdict = "blocked"] \in Turns
      BY DEF Turns, Phases, Verdicts
    <3> QED
      BY <1>4, <3>1, <3>2 DEF PromptPasses, Preflight, Closed
  <2> QED
    BY <1>4, <2>1 DEF PromptPasses, Preflight, Closed, history, executor
<1>5. CASE HookRuns
  <2>1. turn.phase = "pre" => Current.id \in Ids
    BY CurrentIsFirst DEF Places, Handling
  <2>2. vetoed' \subseteq Ids
    BY <1>5, <2>1 DEF HookRuns
  <2> QED
    BY <1>5, <2>2 DEF HookRuns, executor
<1>6. CASE Refuse \/ HookDenied \/ ToolRaises \/ PostDone
  <2>1. Answer /\ calls # << >> /\ Current.id \in Ids
    BY <1>6, CurrentIsFirst DEF Refuse, HookDenied, ToolRaises, PostDone, Places, Handling
  <2>2. vetoed' \subseteq Ids
    BY <1>6, <2>1 DEF Refuse, HookDenied, ToolRaises, PostDone, history
  <2>3. UNCHANGED <<shown, intents, executor, proc, cancels>>
    BY <1>6 DEF Refuse, HookDenied, ToolRaises, PostDone, history
  <2> QED
    BY <2>1, <2>2, <2>3, AnsweredTurn DEF executor
<1>7. CASE CountAndJournal
  <2>1. turn' \in Turns
    BY <1>7, LeftTurn DEF CountAndJournal, Turns, Phases, Verdicts, Handling
  <2>2. intents' \subseteq Ids
    BY <1>7, CurrentIsFirst DEF CountAndJournal, Places, Handling
  <2> QED
    BY <1>7, <2>1, <2>2 DEF CountAndJournal, executor
<1>8. CASE Submit
  <2>1. turn' \in Turns
    BY <1>8 DEF Submit, Turns, Phases, Handling, Waits
  <2>2. Current.id \in Ids
    BY <1>8, CurrentIsFirst DEF Submit, Places, Handling
  <2>3. CASE UNCHANGED executor
    BY <1>8, <2>1, <2>3 DEF Submit, history, executor
  <2>4. CASE /\ Len(pool.jobs) < MaxPending /\ future' = "pending"
             /\ pool' = [pool EXCEPT !.jobs = Append(@, Current.id)]
    <3>1. /\ pool'.jobs = Append(pool.jobs, Current.id) /\ pool'.busy = pool.busy
          /\ pool' = [jobs |-> pool'.jobs, busy |-> pool'.busy]
      BY <2>4
    <3>2. pool'.jobs \in Seq(Ids \cup Others) /\ Len(pool'.jobs) <= MaxPending
      BY <2>4, <3>1, <2>2
    <3> QED
      BY <1>8, <2>1, <2>4, <3>1, <3>2 DEF Submit, history
  <2> QED
    BY <1>8, <2>3, <2>4 DEF Submit
<1>9. CASE Spawn \/ CallServer \/ ToolReturns
  <2>1. turn' \in Turns
    BY <1>9 DEF Spawn, CallServer, ToolReturns, Turns, Phases, Handling
  <2>2. proc' \in [shell : {"none", "running", "exited"}, pipes : BOOLEAN,
                   why : {"none", "timeout", "cancel"}]
    BY <1>9 DEF Spawn, CallServer, ToolReturns
  <2> QED
    BY <1>9, <2>1, <2>2 DEF Spawn, CallServer, ToolReturns, history, executor
<1>10. CASE WorkerTakes
  <2>1. pool'.jobs = Tail(pool.jobs) /\ pool' = [jobs |-> pool'.jobs, busy |-> pool'.busy]
    BY <1>10 DEF WorkerTakes
  <2>2. pool'.jobs \in Seq(Ids \cup Others) /\ Len(pool'.jobs) <= MaxPending
    BY <1>10, <2>1 DEF WorkerTakes
  <2> QED
    BY <1>10, <2>1, <2>2 DEF WorkerTakes
<1>11. CASE WorkerFinishes
  <2>1. pool'.jobs = pool.jobs /\ pool' = [jobs |-> pool'.jobs, busy |-> pool'.busy]
    BY <1>11 DEF WorkerFinishes
  <2> QED
    BY <1>11, <2>1 DEF WorkerFinishes, history
<1>12. ASSUME NEW o \in Others, OtherSubmits(o)
       PROVE  Types'
  <2>1. /\ pool'.jobs = Append(pool.jobs, o)
        /\ pool' = [jobs |-> pool'.jobs, busy |-> pool'.busy]
    BY <1>12 DEF OtherSubmits
  <2>2. pool'.jobs \in Seq(Ids \cup Others) /\ Len(pool'.jobs) <= MaxPending
    BY <1>12, <2>1 DEF OtherSubmits
  <2> QED
    BY <1>12, <2>1, <2>2 DEF OtherSubmits, history
<1>13. CASE ShellExits \/ PipesClose
  BY <1>13 DEF ShellExits, PipesClose, history, executor
<1>14. CASE Settle
  BY <1>14, LeftTurn DEF Settle, history, Verdicts
<1>15. CASE BashTimesOut
  <2>1. turn' \in Turns
    BY <1>15, TerminatedTurn DEF BashTimesOut, Terminate, Turns, Phases, Handling
  <2> QED
    BY <1>15, <2>1 DEF BashTimesOut, Terminate, history, executor
<1>16. CASE KillShell \/ ShellTerminated
  <2>1. turn' \in Turns
    BY <1>16, TerminatedTurn DEF KillShell, ShellTerminated, Shell
  <2> QED
    BY <1>16, <2>1 DEF KillShell, KillGroup, ShellTerminated, history, executor
<1>17. CASE Cancel
  <2>1. cancels' \in 0..MaxCancels
    BY <1>17 DEF Cancel
  <2>2. UNCHANGED <<calls, delta, history, executor>>
    BY <1>17 DEF Cancel
  <2>3. CASE turn.phase = "bash"
    <3>1. Terminate("cancel")
      BY <1>17, <2>3 DEF Cancel
    <3>2. turn' \in Turns
      BY <3>1, TerminatedTurn DEF Terminate, Turns, Phases, Handling
    <3> QED
      BY <3>1, <3>2, <2>1, <2>2 DEF Terminate, history, executor
  <2>4. CASE turn.phase # "bash"
    <3>1. turn' \in Turns /\ UNCHANGED proc
      <4>1. [turn EXCEPT !.phase = "settling"] \in Turns
        BY PhaseOf DEF Phases, Handling, Waits
      <4>2. [turn EXCEPT !.phase = "over", !.verdict = "cancelled"] \in Turns
        BY DEF Turns, Phases, Verdicts
      <4>3. Leaves("cancelled") \in Turns
        BY LeftTurn DEF Verdicts
      <4> QED
        BY <1>17, <2>4, <4>1, <4>2, <4>3 DEF Cancel
    <3> QED
      BY <3>1, <2>1, <2>2 DEF history, executor
  <2> QED
    BY <2>3, <2>4
<1> QED
  BY <1>1, <1>2, <1>3, <1>4, <1>5, <1>6, <1>7, <1>8, <1>9, <1>10, <1>11, <1>12, <1>13, <1>14,
     <1>15, <1>16, <1>17 DEF Next, Model, Hooks, Tools, Outside, Deadlines

-----------------------------------------------------------------------------
(* The invariant is kept, part by part *)

(* Where a step of the turn leads, when it only changes the phase. *)
LEMMA Moved ==
  ASSUME Types, NEW phase \in Phases, turn' = [turn EXCEPT !.phase = phase]
  PROVE  /\ turn'.phase = phase /\ turn'.verdict = turn.verdict /\ turn'.step = turn.step
         /\ turn'.forced = turn.forced /\ turn'.emitted = turn.emitted
         /\ turn'.attempt = turn.attempt /\ turn'.repaired = turn.repaired
BY DEF Types, Turns

LEMMA PlacesKept ==
  ASSUME Types, Places, Shell, Next
  PROVE  Places'
<1> USE DEF Places, Handling, Waits
<1>1. CASE StreamText \/ RetryCall \/ NextStep
  <2>1. CASE StreamText
    BY <2>1 DEF StreamText, Types, Turns, executor
  <2>2. CASE RetryCall
    BY <2>2 DEF RetryCall, Types, Turns, executor
  <2>3. CASE NextStep
    <3>1. CASE turn.step = MaxSteps
      BY <2>3, <3>1, LeftTurn DEF NextStep, Types, Verdicts, executor
    <3>2. CASE turn.step # MaxSteps
      BY <2>3, <3>2 DEF NextStep, Types, Turns, executor
    <3> QED
      BY <3>1, <3>2
  <2> QED
    BY <1>1, <2>1, <2>2, <2>3
<1>2. ASSUME NEW kind \in {"transient", "pairing", "other"}, CallFails(kind)
      PROVE  Places'
  <2>1. CASE turn' = Leaves("failed")
    BY <1>2, <2>1, LeftTurn DEF CallFails, Types, Verdicts, executor
  <2>2. CASE Retriable(kind) /\ turn' = [turn EXCEPT !.phase = "backoff"]
    BY <1>2, <2>2, Moved DEF CallFails, Retriable, Phases, Types, executor
  <2>3. CASE turn' = [turn EXCEPT !.repaired = TRUE, !.attempt = 1]
    BY <1>2, <2>3 DEF CallFails, Types, Turns, executor
  <2> QED
    BY <1>2, <2>1, <2>2, <2>3 DEF CallFails
<1>3. ASSUME NEW r \in Responses, CallAnswers(r)
      PROVE  Places'
  <2>1. turn.phase = "calling" /\ calls = << >> /\ UNCHANGED future
    BY <1>3 DEF CallAnswers, executor
  <2>2. CASE \/ turn' = Leaves("failed") /\ UNCHANGED calls
             \/ turn' = Leaves("answered") /\ UNCHANGED calls
    BY <2>1, <2>2, LeftTurn DEF Types, Verdicts
  <2>3. CASE /\ turn' = [turn EXCEPT !.forced = TRUE, !.attempt = 1, !.emitted = FALSE]
             /\ UNCHANGED calls
    BY <2>1, <2>3 DEF Types, Turns
  <2>4. CASE /\ turn' = [turn EXCEPT !.phase = "preflight"] /\ calls' = Named(r)
             /\ r.calls # << >> /\ ~turn.forced
    <3>1. Named(r) # << >>
      <4>1. r.calls \in Seq(STRING)
        BY LoopAssumption
      <4>2. Len(r.calls) # 0
        BY <2>4, <4>1
      <4> QED
        BY <4>2, NamedCalls
    <3> QED
      BY <2>1, <2>4, <3>1, Moved DEF Phases
  <2>5. CASE /\ turn' = [turn EXCEPT !.phase = "top", !.conts = @ + 1] /\ UNCHANGED calls
             /\ ~turn.forced
    BY <2>1, <2>5 DEF Types, Turns
  <2> QED
    BY <1>3, <2>2, <2>3, <2>4, <2>5 DEF CallAnswers
<1>4. CASE PromptPasses
  <2>1. CASE turn' = [turn EXCEPT !.phase = "top"]
    BY <1>4, <2>1, Moved DEF PromptPasses, Phases, executor
  <2>2. CASE turn' = [turn EXCEPT !.phase = "over", !.verdict = "blocked"]
    BY <1>4, <2>2 DEF PromptPasses, Types, Turns, executor
  <2> QED
    BY <1>4, <2>1, <2>2 DEF PromptPasses
<1>5. CASE Preflight \/ ToolReturns \/ Spawn \/ CallServer
  <2>1. /\ turn.phase \in Handling /\ calls # << >> /\ UNCHANGED <<calls, future>>
        /\ \E p \in {"pre", "post", "bash", "mcp"} : turn' = [turn EXCEPT !.phase = p]
    BY <1>5 DEF Preflight, ToolReturns, Spawn, CallServer, executor
  <2> QED
    BY <2>1, Moved DEF Phases
<1>6. CASE Refuse \/ HookDenied \/ ToolRaises \/ PostDone
  <2>1. Answer /\ turn.phase \in Handling /\ calls # << >> /\ UNCHANGED future
    BY <1>6 DEF Refuse, HookDenied, ToolRaises, PostDone, executor
  <2>2. turn' = [turn EXCEPT !.phase = turn'.phase] /\ turn'.phase \in {"top", "preflight"}
    BY <2>1, AnsweredTurn
  <2>3. /\ turn'.verdict = turn.verdict /\ turn'.forced = turn.forced
    BY <2>2, Moved DEF Phases
  <2> QED
    BY <2>1, <2>2, <2>3, AnsweredTurn
<1>7. CASE CountAndJournal
  <2>1. turn.phase = "pre" /\ calls # << >> /\ UNCHANGED <<calls, future>>
    BY <1>7 DEF CountAndJournal, executor
  <2>2. CASE turn' = [turn EXCEPT !.phase = "launch"]
    BY <2>1, <2>2, Moved DEF Phases
  <2>3. CASE turn' = Leaves("failed")
    BY <2>1, <2>3, LeftTurn DEF Verdicts
  <2> QED
    BY <1>7, <2>2, <2>3 DEF CountAndJournal
<1>8. CASE Submit
  <2>1. turn.phase = "launch" /\ calls # << >> /\ UNCHANGED calls
    BY <1>8 DEF Submit
  <2>2. \E p \in {"sync", "post"} : turn' = [turn EXCEPT !.phase = p]
    BY <1>8 DEF Submit
  <2>3. future' \in {"pending", future}
    BY <1>8 DEF Submit, executor
  <2> QED
    BY <2>1, <2>2, <2>3, Moved DEF Phases
<1>9. CASE WorkerTakes \/ WorkerFinishes \/ ShellExits \/ PipesClose \/ HookRuns
  BY <1>9 DEF WorkerTakes, WorkerFinishes, ShellExits, PipesClose, HookRuns, executor
<1>10. ASSUME NEW o \in Others, OtherSubmits(o)
       PROVE  Places'
  BY <1>10 DEF OtherSubmits
<1>11. CASE Settle
  BY <1>11, LeftTurn DEF Settle, Verdicts
<1>12. ASSUME NEW why \in {"timeout", "cancel"}, Terminate(why), turn.phase = "bash",
              UNCHANGED <<calls, executor>>
       PROVE  Places'
  <2>1. calls # << >> /\ UNCHANGED <<calls, future>>
    BY <1>12 DEF executor
  <2>2. CASE \E p \in {"terminating", "post"} : turn' = [turn EXCEPT !.phase = p]
    BY <1>12, <2>1, <2>2, Moved DEF Phases
  <2>3. CASE turn' = Leaves("cancelled")
    BY <1>12, <2>1, <2>3, LeftTurn DEF Verdicts
  <2> QED
    BY <1>12, <2>2, <2>3, TerminatedTurn DEF Terminate
<1>13. CASE KillShell \/ ShellTerminated
  <2>1. /\ turn.phase = "terminating" /\ calls # << >> /\ UNCHANGED <<calls, future>>
        /\ proc.why \in {"timeout", "cancel"} /\ turn' = AfterTermination(proc.why)
    BY <1>13 DEF KillShell, ShellTerminated, executor, Shell
  <2>2. CASE turn' = [turn EXCEPT !.phase = "post"]
    BY <2>1, <2>2, Moved DEF Phases
  <2>3. CASE turn' = Leaves("cancelled")
    BY <2>1, <2>3, LeftTurn DEF Verdicts
  <2> QED
    BY <2>1, <2>2, <2>3, TerminatedTurn
<1>14. CASE Closed
  BY <1>14, Moved DEF Closed, Phases, executor
<1>15. CASE Cancel
  <2>1. CASE turn.phase \in Waits
    BY <1>15, <2>1, Moved DEF Cancel, Phases, executor
  <2>2. CASE turn.phase = "bash"
    BY <1>15, <2>2, <1>12 DEF Cancel
  <2>3. CASE turn.phase \in {"prompt", "closing"}
    <3>1. turn' = [turn EXCEPT !.phase = "over", !.verdict = "cancelled"]
      BY <1>15, <2>3 DEF Cancel
    <3>2. turn'.phase = "over" /\ turn'.verdict = "cancelled" /\ turn'.forced = turn.forced
      BY <3>1 DEF Types, Turns
    <3> QED
      BY <1>15, <2>3, <3>2 DEF Cancel, executor
  <2>4. CASE turn.phase \notin Waits \cup {"bash", "prompt", "closing"}
    <3>1. turn' = Leaves("cancelled") /\ UNCHANGED <<calls, future>>
      BY <1>15, <2>4 DEF Cancel, executor
    <3> QED
      BY <3>1, LeftTurn DEF Verdicts
  <2> QED
    BY <2>1, <2>2, <2>3, <2>4
<1>16. CASE BashTimesOut
  BY <1>16, <1>12 DEF BashTimesOut
<1> QED
  BY <1>1, <1>2, <1>3, <1>4, <1>5, <1>6, <1>7, <1>8, <1>9, <1>10, <1>11, <1>13, <1>14,
     <1>15, <1>16 DEF Next, Model, Hooks, Tools, Outside, Deadlines

(* What a termination of the shell and a cancellation make of the turn.    *)
LEMMA Terminations ==
  ASSUME Types, Shell, BashTimesOut \/ KillShell \/ ShellTerminated
  PROVE  turn'.step = turn.step /\ turn'.phase \in {"terminating", "post", "closing"}
<1>1. \/ turn' = [turn EXCEPT !.phase = "terminating"]
      \/ turn' = [turn EXCEPT !.phase = "post"] \/ turn' = Leaves("cancelled")
  BY TerminatedTurn DEF BashTimesOut, Terminate, KillShell, ShellTerminated, Shell
<1>2. CASE turn' = [turn EXCEPT !.phase = "terminating"]
  BY <1>2 DEF Types, Turns
<1>3. CASE turn' = [turn EXCEPT !.phase = "post"]
  BY <1>3 DEF Types, Turns
<1>4. CASE turn' = Leaves("cancelled")
  BY <1>4, LeftTurn DEF Verdicts
<1> QED
  BY <1>1, <1>2, <1>3, <1>4

LEMMA Cancellations ==
  ASSUME Types, Cancel
  PROVE  turn'.step = turn.step /\ turn'.phase \in {"settling", "terminating", "closing", "over"}
<1>1. \/ turn' = [turn EXCEPT !.phase = "settling"]
      \/ turn' = [turn EXCEPT !.phase = "terminating"]
      \/ turn' = Leaves("cancelled")
      \/ turn' = [turn EXCEPT !.phase = "over", !.verdict = "cancelled"]
  BY TerminatedTurn DEF Cancel, Terminate
<1>2. CASE turn' = [turn EXCEPT !.phase = "settling"]
  BY <1>2 DEF Types, Turns
<1>3. CASE turn' = [turn EXCEPT !.phase = "terminating"]
  BY <1>3 DEF Types, Turns
<1>4. CASE turn' = Leaves("cancelled")
  BY <1>4, LeftTurn DEF Verdicts
<1>5. CASE turn' = [turn EXCEPT !.phase = "over", !.verdict = "cancelled"]
  BY <1>5 DEF Types, Turns
<1> QED
  BY <1>1, <1>2, <1>3, <1>4, <1>5

LEMMA PairedAsBefore ==
  ASSUME Types, Paired, UNCHANGED <<calls, delta>>,
         turn'.verdict = "answered" => turn.verdict = "answered"
  PROVE  Paired'
BY DEF Paired, Waiting, Answered, Owns

(* The messages of a turn have roles and the ids of calls.                 *)
LEMMA MessageShape ==
  ASSUME Types, NEW k \in DOMAIN delta
  PROVE  /\ delta[k] \in Messages /\ k \in 1..Len(delta) /\ Len(delta) \in Nat
         /\ delta[k].role \in {"assistant", "tool"}
         /\ delta[k].ids \in Seq(Ids) /\ DOMAIN delta[k].ids = 1..Len(delta[k].ids)
         /\ Len(delta[k].ids) \in Nat
<1>1. delta \in Seq(Messages)
  BY DEF Types
<1>2. delta[k] \in Messages /\ k \in 1..Len(delta) /\ Len(delta) \in Nat
  BY <1>1
<1>3. delta[k].role \in {"assistant", "tool"} /\ delta[k].ids \in Seq(Ids)
  BY <1>2 DEF Messages
<1> QED
  BY <1>2, <1>3

(* An answer goes behind the answers to the calls before it.               *)
LEMMA AnswerPairs ==
  ASSUME Types, Types', Paired, calls # << >>, Answer, turn.verdict = "none"
  PROVE  Paired'
<1> DEFINE L == Len(delta)
<1>1. /\ delta' = Append(delta, Result(calls[1].id)) /\ calls' = Tail(calls)
      /\ turn'.verdict = "none"
  BY AnsweredTurn, CurrentIsFirst DEF Types, Turns
<1>2. /\ L \in Nat /\ Len(delta') = L + 1 /\ DOMAIN delta = 1..L /\ DOMAIN delta' = 1..(L + 1)
      /\ \A k \in DOMAIN delta : delta'[k] = delta[k]
      /\ delta'[L + 1] = Result(calls[1].id)
  BY <1>1 DEF Types
<1>3. Result(calls[1].id).role = "tool"
  BY DEF Result
<1>4. /\ Len(calls) \in Nat \ {0} /\ DOMAIN calls = 1..Len(calls)
      /\ DOMAIN calls' = 1..(Len(calls) - 1)
      /\ \A i \in DOMAIN calls' : calls'[i] = calls[i + 1]
  BY <1>1, CurrentIsFirst DEF Types
<1>5. ASSUME NEW k \in DOMAIN delta', delta'[k].role = "assistant",
             NEW j \in DOMAIN delta'[k].ids
      PROVE  IF k + j \in DOMAIN delta' THEN Answered(k, j)' ELSE Waiting(k, j)'
  <2>1. k \in DOMAIN delta /\ delta'[k] = delta[k] /\ j \in Nat \ {0} /\ k \in Nat \ {0}
    <3>1. k \in DOMAIN delta /\ delta'[k] = delta[k]
      BY <1>2, <1>3, <1>5
    <3> QED
      BY <3>1, <1>5, MessageShape
  <2>2. IF k + j \in DOMAIN delta THEN Answered(k, j) ELSE Waiting(k, j)
    BY <1>5, <2>1 DEF Paired
  <2>3. CASE k + j \in DOMAIN delta
    BY <1>2, <2>1, <2>2, <2>3 DEF Answered
  <2>4. CASE k + j = L + 1
    <3>1. delta[k].ids[j] = calls[1].id
      BY <1>2, <2>1, <2>2, <2>4 DEF Waiting
    <3> QED
      BY <1>2, <2>1, <2>4, <3>1 DEF Answered
  <2>5. CASE k + j > L + 1
    <3>1. k + j - L \in DOMAIN calls /\ delta[k].ids[j] = calls[k + j - L].id
      BY <1>2, <2>1, <2>2, <2>5 DEF Waiting
    <3>2. PICK m \in Nat : m = k + j - (L + 1)
      BY <1>2, <2>1, <2>5
    <3>3. m \in DOMAIN calls' /\ m + 1 = k + j - L /\ m = k + j - Len(delta')
      BY <1>2, <1>4, <2>1, <2>5, <3>1, <3>2
    <3>4. calls'[m] = calls[k + j - L]
      BY <1>4, <3>3
    <3>5. k + j \notin DOMAIN delta'
      BY <1>2, <2>5
    <3> QED
      BY <2>1, <3>1, <3>3, <3>4, <3>5 DEF Waiting
  <2> QED
    BY <1>2, <2>1, <2>3, <2>4, <2>5
<1>6. ASSUME NEW k \in DOMAIN delta', delta'[k].role = "tool"
      PROVE  \E a \in 1..(k - 1) : Owns(a, k)'
  <2>1. CASE k \in DOMAIN delta
    <3>1. PICK a \in 1..(k - 1) : Owns(a, k)
      BY <1>2, <1>6, <2>1 DEF Paired
    <3>2. a \in DOMAIN delta
      BY <1>2, <2>1
    <3> QED
      BY <1>2, <3>1, <3>2 DEF Owns
  <2>2. CASE k = L + 1
    <3>0. PICK m \in DOMAIN calls : m = 1
      BY <1>4
    <3>1. PICK a \in DOMAIN delta : Owns(a, L + m)
      BY <3>0 DEF Paired
    <3>2. a \in 1..(k - 1)
      BY <1>2, <2>2
    <3> QED
      BY <1>2, <2>2, <3>0, <3>1, <3>2 DEF Owns
  <2> QED
    BY <1>2, <2>1, <2>2
<1>7. ASSUME NEW n \in DOMAIN calls'
      PROVE  \E a \in DOMAIN delta' : Owns(a, Len(delta) + n)'
  <2>1. PICK m \in DOMAIN calls : m = n + 1
    BY <1>4
  <2>2. PICK a \in DOMAIN delta : Owns(a, L + m)
    BY <2>1 DEF Paired
  <2>3. L + m = Len(delta') + n
    BY <1>2, <1>4, <2>1
  <2> QED
    BY <1>2, <2>2, <2>3 DEF Owns
<1> QED
  BY <1>1, <1>5, <1>6, <1>7 DEF Paired

(* A message that asks for calls goes behind messages that are answered.   *)
LEMMA AskPairs ==
  ASSUME Types, Types', Paired, calls = << >>, NEW cs \in Seq(Calls),
         turn'.verdict = "answered" => cs = << >>,
         \/ delta' = Append(delta, Assistant(cs)) /\ calls' = cs
         \/ delta' = delta \o <<Assistant(cs)>> \o AllRefused(cs) /\ calls' = << >>
            /\ turn'.verdict # "answered"
  PROVE  Paired'
<1> DEFINE L == Len(delta)
           n == Len(cs)
<1>1. /\ Assistant(cs) \in Messages /\ AllRefused(cs) \in Seq(Messages)
      /\ Assistant(cs).role = "assistant" /\ DOMAIN Assistant(cs).ids = 1..n /\ n \in Nat
      /\ \A j \in 1..n : Assistant(cs).ids[j] = cs[j].id
      /\ Len(AllRefused(cs)) = n /\ DOMAIN cs = 1..n
  BY Written
<1> DEFINE Asked == delta' = Append(delta, Assistant(cs)) /\ calls' = cs
           Refused == /\ delta' = delta \o <<Assistant(cs)>> \o AllRefused(cs) /\ calls' = << >>
                      /\ turn'.verdict # "answered"
<1>2. /\ L \in Nat /\ DOMAIN delta = 1..L
      /\ \A k \in DOMAIN delta : delta'[k] = delta[k] /\ k \in DOMAIN delta'
      /\ L + 1 \in DOMAIN delta' /\ delta'[L + 1] = Assistant(cs)
  <2>1. delta \in Seq(Messages)
    BY DEF Types
  <2>2. CASE Asked
    BY <1>1, <2>1, <2>2
  <2>3. CASE Refused
    <3>0. delta \o <<Assistant(cs)>> \in Seq(Messages)
      <4>1. Assistant(cs) \in Messages
        BY <1>1
      <4> QED
        BY <2>1, <4>1
    <3>1. PICK d \in Seq(Messages) : d = delta \o <<Assistant(cs)>>
      BY <3>0
    <3>2. /\ Len(d) = L + 1 /\ d[L + 1] = Assistant(cs)
          /\ \A k \in DOMAIN delta : d[k] = delta[k] /\ k \in DOMAIN d
      BY <1>1, <2>1, <3>1
    <3>3. delta' = d \o AllRefused(cs)
      BY <2>3, <3>1
    <3>4. \A k \in DOMAIN d : delta'[k] = d[k] /\ k \in DOMAIN delta'
      BY <1>1, <3>1, <3>3
    <3> QED
      BY <2>1, <3>1, <3>2, <3>4
  <2> QED
    BY <2>2, <2>3
<1>3. \/ Len(delta') = L + 1 /\ calls' = cs
      \/ /\ Len(delta') = L + 1 + n /\ calls' = << >>
         /\ \A j \in 1..n : delta'[L + 1 + j] = AllRefused(cs)[j]
         /\ turn'.verdict # "answered"
  <2>1. delta \in Seq(Messages)
    BY DEF Types
  <2>2. CASE Asked
    BY <1>1, <2>1, <2>2
  <2>3. CASE Refused
    <3>0. delta \o <<Assistant(cs)>> \in Seq(Messages)
      <4>1. Assistant(cs) \in Messages
        BY <1>1
      <4> QED
        BY <2>1, <4>1
    <3>1. PICK d \in Seq(Messages) : d = delta \o <<Assistant(cs)>>
      BY <3>0
    <3>2. Len(d) = L + 1
      BY <1>1, <2>1, <3>1
    <3>3. delta' = d \o AllRefused(cs)
      BY <2>3, <3>1
    <3>4. Len(delta') = Len(d) + Len(AllRefused(cs)) /\ n = Len(AllRefused(cs))
      <4>1. AllRefused(cs) \in Seq(Messages) /\ n = Len(AllRefused(cs)) /\ d \in Seq(Messages)
        BY <1>1, <3>1
      <4> QED
        BY <3>3, <4>1
    <3>5. \A j \in 1..n : delta'[Len(d) + j] = AllRefused(cs)[j]
      BY <1>1, <3>1, <3>3
    <3> QED
      BY <2>3, <3>2, <3>4, <3>5
  <2> QED
    BY <2>2, <2>3
<1>4. \A j \in 1..n : AllRefused(cs)[j] = Result(cs[j].id) /\ Result(cs[j].id).role = "tool"
  BY <1>1 DEF AllRefused, Result
<1>5. DOMAIN delta' = 1..Len(delta') /\ Len(delta') \in Nat
  BY DEF Types
<1>6. ASSUME NEW k \in DOMAIN delta, delta[k].role = "assistant", NEW j \in DOMAIN delta[k].ids
      PROVE  k + j \in DOMAIN delta /\ Answered(k, j)
  BY <1>6 DEF Paired, Waiting
<1>7. ASSUME NEW k \in DOMAIN delta', delta'[k].role = "assistant",
             NEW j \in DOMAIN delta'[k].ids
      PROVE  IF k + j \in DOMAIN delta' THEN Answered(k, j)' ELSE Waiting(k, j)'
  <2>1. CASE k \in DOMAIN delta
    <3>1. k + j \in DOMAIN delta /\ Answered(k, j) /\ delta'[k] = delta[k]
      BY <1>2, <1>6, <1>7, <2>1
    <3> QED
      BY <1>2, <3>1 DEF Answered
  <2>2. CASE k = L + 1
    <3>1. j \in 1..n /\ delta'[k].ids[j] = cs[j].id
      BY <1>1, <1>2, <1>7, <2>2
    <3>2. CASE Len(delta') = L + 1 /\ calls' = cs
      <4>1. k + j \notin DOMAIN delta' /\ k + j - Len(delta') = j
        BY <1>2, <1>5, <2>2, <3>1, <3>2
      <4> QED
        BY <1>1, <3>1, <3>2, <4>1 DEF Waiting
    <3>3. CASE /\ Len(delta') = L + 1 + n
               /\ \A i \in 1..n : delta'[L + 1 + i] = AllRefused(cs)[i]
      <4>1. k + j \in DOMAIN delta' /\ k + j = L + 1 + j
        BY <1>1, <1>2, <1>5, <2>2, <3>1, <3>3
      <4> QED
        BY <1>4, <2>2, <3>1, <3>3, <4>1 DEF Answered
    <3> QED
      BY <1>3, <3>2, <3>3
  <2>3. CASE k \notin DOMAIN delta /\ k # L + 1
    <3>1. /\ Len(delta') = L + 1 + n
          /\ \A i \in 1..n : delta'[L + 1 + i] = AllRefused(cs)[i]
      <4>1. k \in 1..Len(delta') /\ k \notin 1..L /\ k # L + 1
        BY <1>2, <1>5, <2>3
      <4>2. Len(delta') # L + 1
        BY <1>2, <4>1
      <4> QED
        BY <1>3, <4>2
    <3>2. PICK i \in 1..n : k = L + 1 + i
      <4>1. k \in Nat /\ k > L + 1 /\ k <= L + 1 + n
        BY <1>2, <1>5, <2>3, <3>1
      <4>2. k - (L + 1) \in 1..n /\ k = L + 1 + (k - (L + 1))
        BY <4>1, <1>1, <1>2
      <4> QED
        BY <4>2
    <3> QED
      BY <1>4, <1>7, <3>1, <3>2
  <2> QED
    BY <2>1, <2>2, <2>3
<1>8. ASSUME NEW k \in DOMAIN delta', delta'[k].role = "tool"
      PROVE  \E a \in 1..(k - 1) : Owns(a, k)'
  <2>1. CASE k \in DOMAIN delta
    <3>1. PICK a \in 1..(k - 1) : Owns(a, k)
      BY <1>2, <1>8, <2>1 DEF Paired
    <3>2. a \in DOMAIN delta
      BY <1>2, <2>1
    <3> QED
      BY <1>2, <3>1, <3>2 DEF Owns
  <2>2. CASE k \notin DOMAIN delta
    <3>1. k \in Nat /\ k > L /\ k # L + 1 /\ k <= Len(delta')
      <4>1. k \in 1..Len(delta') /\ k \notin 1..L
        BY <1>2, <1>5, <2>2
      <4>2. k # L + 1
        BY <1>1, <1>2, <1>8
      <4>3. L \in Nat /\ Len(delta') \in Nat
        BY <1>2, <1>5
      <4> QED
        BY <4>1, <4>2, <4>3
    <3>2. Len(delta') = L + 1 + n
      BY <1>2, <1>3, <3>1
    <3>3. k - (L + 1) \in 1..n /\ L + 1 \in 1..(k - 1)
      BY <1>1, <1>2, <3>1, <3>2
    <3> QED
      BY <1>1, <1>2, <3>3 DEF Owns
  <2> QED
    BY <2>1, <2>2
<1>9. ASSUME NEW m \in DOMAIN calls'
      PROVE  \E a \in DOMAIN delta' : Owns(a, Len(delta) + m)'
  <2>1. Len(delta') = L + 1 /\ calls' = cs /\ m \in 1..n
    BY <1>1, <1>3
  <2>2. Len(delta') + m - (L + 1) = m
    BY <1>1, <1>2, <2>1
  <2> QED
    BY <1>1, <1>2, <2>1, <2>2 DEF Owns
<1>10. turn'.verdict = "answered" => calls' = << >> /\ Last(delta)' = Assistant(<< >>)
  <2>1. ASSUME turn'.verdict = "answered"
        PROVE  calls' = << >> /\ Last(delta)' = Assistant(<< >>)
    <3>1. cs = << >> /\ Len(delta') = L + 1 /\ calls' = cs
      BY <1>3, <2>1, <1>1
    <3> QED
      BY <1>2, <3>1 DEF Last
  <2> QED
    BY <2>1
<1> QED
  BY <1>7, <1>8, <1>9, <1>10 DEF Paired

LEMMA PairedKept ==
  ASSUME Types, Types', Places, Paired, Shell, Next
  PROVE  Paired'
<1>1. CASE UNCHANGED <<calls, delta>> /\ turn'.verdict # "answered"
  BY <1>1, PairedAsBefore
<1>2. CASE UNCHANGED <<calls, delta, turn>>
  BY <1>2, PairedAsBefore
<1>3. ASSUME NEW r \in Responses, CallAnswers(r)
      PROVE  Paired'
  <2>1. turn.phase = "calling" /\ calls = << >> /\ turn.verdict = "none"
    BY <1>3 DEF CallAnswers, Places, Handling, Waits
  <2>2. Named(r) \in Seq(Calls)
    BY NamedCalls
  <2>3. CASE turn' = Leaves("failed") /\ UNCHANGED <<calls, delta>>
    BY <1>1, <2>3, LeftTurn DEF Verdicts
  <2>4. CASE /\ turn' = [turn EXCEPT !.forced = TRUE, !.attempt = 1, !.emitted = FALSE]
             /\ delta' = delta \o <<Assistant(Named(r))>> \o AllRefused(Named(r))
             /\ UNCHANGED calls
    <3>1. turn'.verdict = "none"
      BY <2>1, <2>4 DEF Types, Turns
    <3> QED
      BY <2>1, <2>2, <2>4, <3>1, AskPairs
  <2>5. CASE /\ turn' = [turn EXCEPT !.phase = "preflight"]
             /\ delta' = Append(delta, Assistant(Named(r))) /\ calls' = Named(r)
    <3>1. turn'.verdict = "none"
      BY <2>1, <2>5 DEF Types, Turns
    <3> QED
      BY <2>1, <2>2, <2>5, <3>1, AskPairs
  <2>6. CASE turn' = [turn EXCEPT !.phase = "top", !.conts = @ + 1] /\ UNCHANGED <<calls, delta>>
    <3>1. turn'.verdict = "none"
      BY <2>1, <2>6 DEF Types, Turns
    <3> QED
      BY <1>1, <2>6, <3>1
  <2>7. CASE delta' = Append(delta, Assistant(<< >>)) /\ UNCHANGED calls
    <3>1. << >> \in Seq(Calls)
      OBVIOUS
    <3> QED
      BY <2>1, <2>7, <3>1, AskPairs
  <2> QED
    BY <1>3, <2>3, <2>4, <2>5, <2>6, <2>7 DEF CallAnswers
<1>4. CASE Refuse \/ HookDenied \/ ToolRaises \/ PostDone
  <2>1. Answer /\ calls # << >> /\ turn.verdict = "none"
    BY <1>4 DEF Refuse, HookDenied, ToolRaises, PostDone, Places, Handling, Waits
  <2> QED
    BY <2>1, AnswerPairs
<1>5. CASE Closed
  <2>1. turn'.verdict = turn.verdict /\ UNCHANGED <<calls, delta>>
    BY <1>5 DEF Closed, Types, Turns
  <2> QED
    BY <2>1, PairedAsBefore
<1>6. CASE \/ StreamText \/ RetryCall \/ NextStep \/ PromptPasses \/ Preflight \/ Submit
           \/ Spawn \/ CallServer \/ ToolReturns
  <2>1. UNCHANGED <<calls, delta>> /\ turn.verdict = "none"
    BY <1>6 DEF StreamText, RetryCall, NextStep, PromptPasses, Preflight, Submit, Spawn,
       CallServer, ToolReturns, Places
  <2>2. turn'.verdict # "answered"
    <3>1. CASE NextStep
      <4>1. CASE turn' = Leaves("max_steps")
        BY <4>1, LeftTurn DEF Verdicts
      <4>2. CASE turn.step # MaxSteps
        BY <2>1, <3>1, <4>2 DEF NextStep, Types, Turns
      <4> QED
        BY <3>1, <4>1, <4>2 DEF NextStep
    <3>2. CASE ~NextStep
      BY <1>6, <2>1, <3>2 DEF StreamText, RetryCall, PromptPasses, Preflight, Submit, Spawn,
         CallServer, ToolReturns, Types, Turns
    <3> QED
      BY <3>1, <3>2
  <2> QED
    BY <1>1, <2>1, <2>2
<1>7. ASSUME NEW kind \in {"transient", "pairing", "other"}, CallFails(kind)
      PROVE  Paired'
  <2>1. UNCHANGED <<calls, delta>> /\ turn.verdict = "none"
    BY <1>7 DEF CallFails, Places
  <2>2. turn'.verdict # "answered"
    <3>1. CASE turn' = Leaves("failed")
      BY <3>1, LeftTurn DEF Verdicts
    <3>2. CASE turn' # Leaves("failed")
      BY <1>7, <2>1, <3>2 DEF CallFails, Types, Turns
    <3> QED
      BY <3>1, <3>2
  <2> QED
    BY <1>1, <2>1, <2>2
<1>8. CASE CountAndJournal
  <2>1. UNCHANGED <<calls, delta>> /\ turn.verdict = "none"
    BY <1>8 DEF CountAndJournal, Places
  <2>2. turn'.verdict # "answered"
    BY <1>8, <2>1, LeftTurn DEF CountAndJournal, Verdicts, Types, Turns
  <2> QED
    BY <1>1, <2>1, <2>2
<1>9. CASE WorkerTakes \/ WorkerFinishes \/ ShellExits \/ PipesClose \/ HookRuns
  BY <1>9, <1>2 DEF WorkerTakes, WorkerFinishes, ShellExits, PipesClose, HookRuns
<1>10. ASSUME NEW o \in Others, OtherSubmits(o)
       PROVE  Paired'
  BY <1>10, <1>2 DEF OtherSubmits
<1>11. CASE Settle
  <2>1. UNCHANGED <<calls, delta>> /\ turn' = Leaves("cancelled")
    BY <1>11 DEF Settle
  <2> QED
    BY <1>1, <2>1, LeftTurn DEF Verdicts
<1>12. CASE BashTimesOut \/ KillShell \/ ShellTerminated
  <2>1. UNCHANGED <<calls, delta>> /\ turn.verdict = "none"
    BY <1>12 DEF BashTimesOut, KillShell, ShellTerminated, Places
  <2>2. \/ turn' = [turn EXCEPT !.phase = "terminating"]
        \/ turn' = [turn EXCEPT !.phase = "post"] \/ turn' = Leaves("cancelled")
    BY <1>12, TerminatedTurn DEF BashTimesOut, Terminate, KillShell, ShellTerminated, Shell
  <2>3. turn'.verdict # "answered"
    BY <2>1, <2>2, LeftTurn DEF Types, Turns, Verdicts
  <2> QED
    BY <1>1, <2>1, <2>3
<1>13. CASE Cancel
  <2>1. UNCHANGED <<calls, delta>>
    BY <1>13 DEF Cancel
  <2>2. \/ turn.phase \in Handling /\ turn' = [turn EXCEPT !.phase = "settling"]
        \/ turn.phase \in Handling /\ turn' = [turn EXCEPT !.phase = "terminating"]
        \/ turn' = Leaves("cancelled")
        \/ turn' = [turn EXCEPT !.phase = "over", !.verdict = "cancelled"]
    BY <1>13, TerminatedTurn DEF Cancel, Terminate, Handling, Waits
  <2>3. turn.phase \in Handling => turn.verdict = "none"
    BY DEF Places, Handling, Waits
  <2>4. turn'.verdict # "answered"
    BY <2>2, <2>3, LeftTurn DEF Types, Turns, Verdicts
  <2> QED
    BY <1>1, <2>1, <2>4
<1> QED
  BY <1>3, <1>4, <1>5, <1>6, <1>7, <1>8, <1>9, <1>10, <1>11, <1>12, <1>13
     DEF Next, Model, Hooks, Tools, Outside, Deadlines

(* Names stay fresh as long as the step and what is used and asked do, or  *)
(* the step goes on to the next.                                           *)
LEMMA FreshAsBefore ==
  ASSUME Types, Types', Fresh, UNCHANGED <<calls, intents, vetoed>>, turn'.step = turn.step,
         (turn'.phase \in {"calling", "backoff"} /\ ~turn'.forced)
            => turn.phase \in {"calling", "backoff"} /\ ~turn.forced
  PROVE  Fresh'
BY DEF Fresh

LEMMA FreshWhenUsed ==
  ASSUME Types, Types', Fresh, turn'.step = turn.step,
         turn'.phase \notin {"calling", "backoff"},
         calls' = calls \/ (calls # << >> /\ calls' = Tail(calls)),
         \A id \in intents' \cup vetoed' :
            id \in intents \cup vetoed \/ (calls # << >> /\ id = calls[1].id)
  PROVE  Fresh'
<1>1. CASE calls' = calls
  <2>1. calls # << >> => 1 \in DOMAIN calls
    BY CurrentIsFirst
  <2>2. \A id \in intents' \cup vetoed' : id[1] <= turn.step
    <3>1. calls # << >> => calls[1].id[1] = turn.step
      BY <2>1 DEF Fresh
    <3>2. turn.step \in Nat
      BY DEF Types, Turns
    <3> QED
      BY <3>1, <3>2 DEF Fresh
  <2> QED
    BY <1>1, <2>2 DEF Fresh
<1>2. CASE calls # << >> /\ calls' = Tail(calls)
  <2>1. /\ 1 \in DOMAIN calls
        /\ \A i \in DOMAIN calls' : i \in Nat /\ i + 1 \in DOMAIN calls /\ calls'[i] = calls[i + 1]
    <3>1. \A i \in DOMAIN calls' : i \in Nat
      BY DEF Types
    <3> QED
      BY <1>2, <3>1, CurrentIsFirst
  <2>2. \A id \in intents' \cup vetoed' : id[1] <= turn.step
    <3>1. calls[1].id[1] = turn.step
      BY <2>1 DEF Fresh
    <3>2. turn.step \in Nat
      BY DEF Types, Turns
    <3> QED
      BY <3>1, <3>2 DEF Fresh
  <2>3. \A i \in DOMAIN calls' : calls'[i].id[1] = turn.step
    <3> TAKE i \in DOMAIN calls'
    <3>1. PICK k \in DOMAIN calls : calls'[i] = calls[k]
      BY <2>1
    <3> QED
      BY <3>1 DEF Fresh
  <2>4. \A i, j \in DOMAIN calls' : calls'[i].id = calls'[j].id => i = j
    <3> SUFFICES ASSUME NEW i \in DOMAIN calls', NEW j \in DOMAIN calls',
                        calls'[i].id = calls'[j].id
                 PROVE  i = j
      OBVIOUS
    <3>1. PICK k \in DOMAIN calls, m \in DOMAIN calls :
             k = i + 1 /\ m = j + 1 /\ calls[k].id = calls[m].id
      BY <2>1
    <3>2. k = m
      BY <3>1 DEF Fresh
    <3> QED
      BY <2>1, <3>1, <3>2
  <2> QED
    BY <2>2, <2>3, <2>4 DEF Fresh
<1> QED
  BY <1>1, <1>2

LEMMA FreshKept ==
  ASSUME Types, Types', Places, Fresh, Shell, Next
  PROVE  Fresh'
<1>1. CASE NextStep
  <2>1. /\ turn.phase = "top" /\ calls = << >> /\ UNCHANGED <<calls, intents, vetoed>>
        /\ ~turn.forced
    BY <1>1 DEF NextStep, Places, Handling, Waits, history
  <2>2. CASE turn.step = MaxSteps
    <3>1. turn' = Leaves("max_steps")
      BY <1>1, <2>2 DEF NextStep
    <3> QED
      BY <2>1, <3>1, LeftTurn, FreshAsBefore DEF Verdicts
  <2>3. CASE turn.step # MaxSteps
    <3>1. turn'.step = turn.step + 1 /\ turn.step \in Nat
      BY <1>1, <2>3 DEF NextStep, Types, Turns
    <3>2. \A id \in Ids : id[1] \in Nat
      BY DEF Ids
    <3>3. \A id \in intents' \cup vetoed' : id[1] < turn'.step
      BY <2>1, <3>1, <3>2 DEF Fresh, Types
    <3>4. \A id \in intents' \cup vetoed' : id[1] <= turn'.step
      BY <3>1, <3>2, <3>3 DEF Types
    <3> QED
      BY <2>1, <3>3, <3>4 DEF Fresh
  <2> QED
    BY <2>2, <2>3
<1>2. ASSUME NEW r \in Responses, CallAnswers(r)
      PROVE  Fresh'
  <2>1. turn.phase = "calling" /\ calls = << >> /\ UNCHANGED intents /\ turn.step \in Nat
    BY <1>2 DEF CallAnswers, Places, Handling, Waits, Types, Turns
  <2>2. CASE UNCHANGED <<calls, vetoed>> /\ turn'.step = turn.step
             /\ turn'.phase \notin {"calling", "backoff"}
    BY <2>1, <2>2, FreshAsBefore
  <2>3. CASE /\ turn' = [turn EXCEPT !.forced = TRUE, !.attempt = 1, !.emitted = FALSE]
             /\ vetoed' = vetoed \cup {Named(r)[i].id : i \in DOMAIN Named(r)}
             /\ UNCHANGED calls
    <3>1. turn'.forced /\ turn'.step = turn.step
      BY <2>3 DEF Types, Turns
    <3>2. \A i \in DOMAIN Named(r) : Named(r)[i].id[1] = turn.step
      BY NamedCalls
    <3>3. \A id \in vetoed' : id[1] <= turn.step
      BY <2>1, <2>3, <3>2 DEF Fresh
    <3> QED
      BY <2>1, <2>3, <3>1, <3>3 DEF Fresh
  <2>4. CASE turn' = [turn EXCEPT !.phase = "preflight"] /\ calls' = Named(r) /\ UNCHANGED vetoed
    <3>1. turn'.phase = "preflight" /\ turn'.step = turn.step
      BY <2>4 DEF Types, Turns
    <3>2. \A i \in DOMAIN Named(r) : Named(r)[i].id = <<turn.step, i>>
      BY NamedCalls
    <3>3. \A i \in DOMAIN calls' : calls'[i].id[1] = turn'.step
      BY <2>4, <3>1, <3>2
    <3>4. \A i, j \in DOMAIN calls' : calls'[i].id = calls'[j].id => i = j
      BY <2>4, <3>2
    <3> QED
      BY <2>1, <2>4, <3>1, <3>3, <3>4 DEF Fresh
  <2>5. \/ UNCHANGED <<calls, vetoed>> /\ turn' \in {Leaves("failed"), Leaves("answered")}
        \/ UNCHANGED <<calls, vetoed>> /\ turn' = [turn EXCEPT !.phase = "top", !.conts = @ + 1]
        \/ /\ turn' = [turn EXCEPT !.forced = TRUE, !.attempt = 1, !.emitted = FALSE]
           /\ vetoed' = vetoed \cup {Named(r)[i].id : i \in DOMAIN Named(r)}
           /\ UNCHANGED calls
        \/ turn' = [turn EXCEPT !.phase = "preflight"] /\ calls' = Named(r) /\ UNCHANGED vetoed
    BY <1>2 DEF CallAnswers
  <2>6. \A v \in {"failed", "answered"} :
           Leaves(v).step = turn.step /\ Leaves(v).phase = "closing"
    BY LeftTurn DEF Verdicts
  <2>7. /\ [turn EXCEPT !.phase = "top", !.conts = @ + 1].step = turn.step
        /\ [turn EXCEPT !.phase = "top", !.conts = @ + 1].phase = "top"
    BY DEF Types, Turns
  <2> QED
    BY <2>2, <2>3, <2>4, <2>5, <2>6, <2>7
<1>3. CASE Refuse \/ HookDenied \/ ToolRaises \/ PostDone
  <2>1. Answer /\ calls # << >> /\ UNCHANGED intents
    BY <1>3 DEF Refuse, HookDenied, ToolRaises, PostDone, Places, Handling, Waits, history
  <2>2. calls' = Tail(calls) /\ turn'.phase \in {"top", "preflight"} /\ turn'.step = turn.step
    <3>1. turn'.phase \in {"top", "preflight"} /\ turn' = [turn EXCEPT !.phase = turn'.phase]
      BY <2>1, AnsweredTurn
    <3>2. turn'.phase \in Phases
      BY <3>1 DEF Phases, Handling
    <3> QED
      BY <2>1, <3>1, <3>2, Moved, AnsweredTurn
  <2>3. vetoed' = vetoed \/ vetoed' = vetoed \cup {calls[1].id}
    BY <1>3, <2>1, CurrentIsFirst DEF Refuse, HookDenied, ToolRaises, PostDone, history
  <2>4. \A id \in intents' \cup vetoed' :
            id \in intents \cup vetoed \/ (calls # << >> /\ id = calls[1].id)
    BY <2>1, <2>3
  <2> QED
    BY <2>1, <2>2, <2>4, FreshWhenUsed
<1>4. CASE HookRuns
  <2>1. turn' = turn /\ UNCHANGED <<calls, intents>> /\ turn.phase \in {"prompt", "pre", "post"}
    BY <1>4 DEF HookRuns
  <2>2. vetoed' = vetoed \/ (calls # << >> /\ vetoed' = vetoed \cup {calls[1].id})
    <3>1. turn.phase = "pre" => calls # << >> /\ Current = calls[1]
      BY CurrentIsFirst DEF Places, Handling
    <3>2. vetoed' = vetoed \/ (turn.phase = "pre" /\ vetoed' = vetoed \cup {Current.id})
      <4>1. PICK raw \in Raws :
               vetoed' = IF /\ turn.phase = "pre"
                            /\ RunHandler(Handlers[hook.next], raw).decision = "deny"
                         THEN vetoed \cup {Current.id} ELSE vetoed
        BY <1>4 DEF HookRuns
      <4> QED
        BY <4>1
    <3> QED
      BY <3>1, <3>2
  <2>3. \A id \in intents' \cup vetoed' :
            id \in intents \cup vetoed \/ (calls # << >> /\ id = calls[1].id)
    BY <2>1, <2>2
  <2> QED
    BY <2>1, <2>3, FreshWhenUsed
<1>5. CASE CountAndJournal
  <2>1. UNCHANGED <<calls, vetoed>> /\ calls # << >>
    BY <1>5 DEF CountAndJournal, Places, Handling
  <2>2. intents' = intents \/ intents' = intents \cup {calls[1].id}
    BY <1>5, <2>1, CurrentIsFirst DEF CountAndJournal
  <2>3. turn' = [turn EXCEPT !.phase = "launch"] \/ turn' = Leaves("failed")
    BY <1>5 DEF CountAndJournal
  <2>4. turn'.phase \in {"launch", "closing"} /\ turn'.step = turn.step
    <3>1. CASE turn' = [turn EXCEPT !.phase = "launch"]
      BY <3>1 DEF Types, Turns
    <3>2. CASE turn' = Leaves("failed")
      BY <3>2, LeftTurn DEF Verdicts
    <3> QED
      BY <2>3, <3>1, <3>2
  <2>5. \A id \in intents' \cup vetoed' :
            id \in intents \cup vetoed \/ (calls # << >> /\ id = calls[1].id)
    BY <2>1, <2>2
  <2> QED
    BY <2>1, <2>4, <2>5, FreshWhenUsed
<1>6. CASE StreamText \/ RetryCall
  BY <1>6, FreshAsBefore DEF StreamText, RetryCall, Types, Turns, history
<1>7. ASSUME NEW kind \in {"transient", "pairing", "other"}, CallFails(kind)
      PROVE  Fresh'
  <2>1. turn.phase = "calling" /\ UNCHANGED <<calls, intents, vetoed>>
    BY <1>7 DEF CallFails, history
  <2>2. \/ turn' = [turn EXCEPT !.phase = "backoff"]
        \/ turn' = [turn EXCEPT !.repaired = TRUE, !.attempt = 1]
        \/ turn' = Leaves("failed")
    BY <1>7 DEF CallFails
  <2>3. turn'.step = turn.step /\ (turn'.phase = "closing" \/ turn'.forced = turn.forced)
    <3>1. CASE turn' = [turn EXCEPT !.phase = "backoff"]
      BY <3>1 DEF Types, Turns
    <3>2. CASE turn' = [turn EXCEPT !.repaired = TRUE, !.attempt = 1]
      BY <3>2 DEF Types, Turns
    <3>3. CASE turn' = Leaves("failed")
      BY <3>3, LeftTurn DEF Verdicts
    <3> QED
      BY <2>2, <3>1, <3>2, <3>3
  <2> QED
    BY <2>1, <2>3, FreshAsBefore
<1>8. CASE PromptPasses \/ Preflight \/ Submit \/ Spawn \/ CallServer \/ ToolReturns
  <2>1. UNCHANGED <<calls, intents, vetoed>>
    BY <1>8 DEF PromptPasses, Preflight, Submit, Spawn, CallServer, ToolReturns, history
  <2>2. turn'.step = turn.step /\ turn'.phase \notin {"calling", "backoff"}
    BY <1>8 DEF PromptPasses, Preflight, Submit, Spawn, CallServer, ToolReturns, Types, Turns
  <2> QED
    BY <2>1, <2>2, FreshAsBefore
<1>9. CASE WorkerTakes \/ WorkerFinishes \/ ShellExits \/ PipesClose
  BY <1>9, FreshAsBefore DEF WorkerTakes, WorkerFinishes, ShellExits, PipesClose, history
<1>10. ASSUME NEW o \in Others, OtherSubmits(o)
       PROVE  Fresh'
  BY <1>10, FreshAsBefore DEF OtherSubmits, history
<1>11. CASE Settle \/ Closed
  <2>1. UNCHANGED <<calls, intents, vetoed>>
    BY <1>11 DEF Settle, Closed, history
  <2>2. turn'.step = turn.step /\ turn'.phase \in {"closing", "over"}
    BY <1>11, LeftTurn DEF Settle, Closed, Types, Turns, Verdicts
  <2> QED
    BY <2>1, <2>2, FreshAsBefore
<1>12. CASE BashTimesOut \/ KillShell \/ ShellTerminated
  <2>1. UNCHANGED <<calls, intents, vetoed>>
    BY <1>12 DEF BashTimesOut, KillShell, ShellTerminated, history
  <2>2. turn'.step = turn.step /\ turn'.phase \notin {"calling", "backoff"}
    BY <1>12, Terminations
  <2> QED
    BY <2>1, <2>2, FreshAsBefore
<1>13. CASE Cancel
  <2>1. UNCHANGED <<calls, intents, vetoed>>
    BY <1>13 DEF Cancel, history
  <2>2. turn'.step = turn.step /\ turn'.phase \notin {"calling", "backoff"}
    BY <1>13, Cancellations
  <2> QED
    BY <2>1, <2>2, FreshAsBefore
<1> QED
  BY <1>1, <1>2, <1>3, <1>4, <1>5, <1>6, <1>7, <1>8, <1>9, <1>10, <1>11, <1>12, <1>13
     DEF Next, Model, Hooks, Tools, Outside, Deadlines

(* The phases that claim nothing of the call that is handled. *)
LEMMA SanctionedAsBefore ==
  ASSUME Types, Sanctioned, UNCHANGED <<calls, intents, ran, vetoed, pool>>,
         \/ turn'.phase \notin {"preflight", "pre", "launch"}
         \/ UNCHANGED <<turn, hook>>
  PROVE  Sanctioned'
BY DEF Sanctioned, Current

LEMMA Denial ==
  ASSUME NEW target, NEW source, source.decision = "deny"
  PROVE  IsLastWord(source) /\ MergeOutputs(target, source).decision = "deny"
BY DEF IsLastWord, MergeOutputs, Output

LEMMA SanctionedKept ==
  ASSUME Types, Types', Places, Fresh, Sanctioned, Shell, Next
  PROVE  Sanctioned'
<1>1. ASSUME NEW r \in Responses, CallAnswers(r)
      PROVE  Sanctioned'
  <2>1. /\ turn.phase = "calling" /\ calls = << >> /\ turn.step \in Nat
        /\ UNCHANGED <<intents, ran, pool>>
    BY <1>1 DEF CallAnswers, Places, Handling, Waits, Types, Turns, executor
  <2>2. /\ \A i \in DOMAIN Named(r) : Named(r)[i].id[1] = turn.step
        /\ \A id \in Ids : id[1] \in Nat
    BY NamedCalls DEF Ids
  <2>3. CASE turn' = Leaves("failed") /\ UNCHANGED <<calls, vetoed>>
    BY <2>1, <2>3, LeftTurn, SanctionedAsBefore DEF Verdicts
  <2>4. CASE turn' = Leaves("answered") /\ UNCHANGED <<calls, vetoed>>
    BY <2>1, <2>4, LeftTurn, SanctionedAsBefore DEF Verdicts
  <2>5. CASE turn' = [turn EXCEPT !.phase = "top", !.conts = @ + 1] /\ UNCHANGED <<calls, vetoed>>
    <3>1. turn'.phase = "top"
      BY <2>5 DEF Types, Turns
    <3> QED
      BY <2>1, <2>5, <3>1, SanctionedAsBefore
  <2>6. CASE /\ turn' = [turn EXCEPT !.forced = TRUE, !.attempt = 1, !.emitted = FALSE]
             /\ vetoed' = vetoed \cup {Named(r)[i].id : i \in DOMAIN Named(r)}
             /\ UNCHANGED calls /\ ~turn.forced
    <3>1. turn'.phase = "calling"
      BY <2>1, <2>6 DEF Types, Turns
    <3>2. \A id \in intents : id[1] < turn.step /\ id[1] \in Nat
      BY <2>1, <2>2, <2>6 DEF Fresh, Types
    <3>3. intents' \cap vetoed' = {}
      BY <2>1, <2>2, <2>6, <3>2 DEF Sanctioned
    <3>4. calls' = << >>
      BY <2>1, <2>6
    <3> QED
      BY <2>1, <3>1, <3>3, <3>4 DEF Sanctioned
  <2>7. CASE /\ turn' = [turn EXCEPT !.phase = "preflight"]
             /\ calls' = Named(r) /\ UNCHANGED vetoed /\ ~turn.forced
    <3>1. turn'.phase = "preflight"
      BY <2>7 DEF Types, Turns
    <3>2. \A id \in intents \cup vetoed : id[1] < turn.step /\ id[1] \in Nat
      BY <2>1, <2>2, <2>7 DEF Fresh, Types
    <3>3. \A i \in DOMAIN calls' : calls'[i].id \notin intents' \cup vetoed'
      BY <2>1, <2>2, <2>7, <3>2
    <3> QED
      BY <2>1, <2>7, <3>1, <3>3 DEF Sanctioned
  <2> QED
    BY <1>1, <2>3, <2>4, <2>5, <2>6, <2>7 DEF CallAnswers
<1>2. CASE HookRuns
  <2>1. /\ UNCHANGED <<turn, calls, intents, ran, pool>> /\ ~hook.over
        /\ turn.phase \in {"prompt", "pre", "post"} /\ Current' = Current
    BY <1>2 DEF HookRuns, executor, Current
  <2>2. PICK out : /\ hook' = [next |-> hook.next + 1, out |-> MergeOutputs(hook.out, out),
                               over |-> IsLastWord(out)]
                   /\ vetoed' = IF turn.phase = "pre" /\ out.decision = "deny"
                                THEN vetoed \cup {Current.id} ELSE vetoed
    BY <1>2 DEF HookRuns
  <2>3. CASE turn.phase = "pre" /\ out.decision = "deny"
    <3>1. hook'.over /\ hook'.out.decision = "deny"
      BY <2>2, <2>3, Denial
    <3>2. calls # << >>
      BY <2>3 DEF Places, Handling
    <3>3. vetoed' = vetoed \cup {Current.id} /\ Current = calls[1] /\ 1 \in DOMAIN calls
      BY <2>2, <2>3, <3>2, CurrentIsFirst
    <3>4. \A i \in DOMAIN calls : i > 1 => calls[i].id # Current.id
      BY <3>3 DEF Fresh
    <3>5. intents' \cap vetoed' = {}
      BY <2>1, <2>3, <3>3 DEF Sanctioned
    <3>6. \A i \in DOMAIN calls' : i > 1 => calls'[i].id \notin intents' \cup vetoed'
      BY <2>1, <3>3, <3>4 DEF Sanctioned
    <3> QED
      BY <2>1, <2>3, <3>1, <3>5, <3>6 DEF Sanctioned
  <2>4. CASE ~(turn.phase = "pre" /\ out.decision = "deny")
    <3>1. vetoed' = vetoed
      BY <2>2, <2>4
    <3>2. turn.phase = "pre" => Current.id \notin vetoed
      BY <2>1 DEF Sanctioned
    <3> QED
      BY <2>1, <3>1, <3>2 DEF Sanctioned
  <2> QED
    BY <2>3, <2>4
<1>3. CASE Refuse \/ HookDenied \/ ToolRaises \/ PostDone
  <2>1. /\ Answer /\ calls # << >> /\ UNCHANGED <<intents, ran, pool>>
    BY <1>3 DEF Refuse, HookDenied, ToolRaises, PostDone, Places, Handling, Waits, history,
       executor
  <2>2. \/ vetoed' = vetoed
        \/ turn.phase = "preflight" /\ vetoed' = vetoed \cup {Current.id}
    BY <1>3 DEF Refuse, HookDenied, ToolRaises, PostDone, history
  <2>3. /\ Current = calls[1] /\ 1 \in DOMAIN calls /\ calls' = Tail(calls)
        /\ turn'.phase \in {"top", "preflight"}
    BY <2>1, CurrentIsFirst, AnsweredTurn
  <2>4. intents' \cap vetoed' = {}
    BY <2>1, <2>2, <2>3 DEF Sanctioned
  <2>5. ASSUME NEW i \in DOMAIN calls'
        PROVE  calls'[i].id \notin intents' \cup vetoed'
    <3>1. i \in Nat \ {0}
      BY <2>1, <2>3, CurrentIsFirst DEF Types
    <3>2. PICK k \in DOMAIN calls : k = i + 1 /\ calls'[i] = calls[k]
      BY <2>1, <2>3, CurrentIsFirst
    <3>3. k > 1 /\ calls[k].id # calls[1].id
      BY <2>3, <3>1, <3>2 DEF Fresh
    <3> QED
      BY <2>1, <2>2, <2>3, <3>2, <3>3 DEF Sanctioned
  <2> QED
    BY <2>1, <2>3, <2>4, <2>5 DEF Sanctioned
<1>4. CASE Preflight
  <2>1. /\ turn'.phase = "pre" /\ turn.phase = "preflight" /\ calls # << >>
        /\ UNCHANGED <<calls, intents, ran, vetoed, pool>>
    BY <1>4 DEF Preflight, history, executor, Types, Turns, Places, Handling
  <2>2. Current = calls[1] /\ 1 \in DOMAIN calls /\ Current' = Current
    BY <2>1, CurrentIsFirst DEF Current
  <2> QED
    BY <2>1, <2>2 DEF Sanctioned
<1>5. CASE CountAndJournal
  <2>1. /\ turn.phase = "pre" /\ calls # << >> /\ UNCHANGED <<calls, ran, vetoed, pool>>
        /\ HooksDone /\ hook.out.decision # "deny"
    BY <1>5 DEF CountAndJournal, executor, Places, Handling, Allowed
  <2>2. Current = calls[1] /\ 1 \in DOMAIN calls /\ Current' = Current
    BY <2>1, CurrentIsFirst DEF Current
  <2>3. CASE turn' = Leaves("failed") /\ UNCHANGED intents
    BY <2>1, <2>3, LeftTurn, SanctionedAsBefore DEF Verdicts
  <2>4. CASE turn' = [turn EXCEPT !.phase = "launch"] /\ intents' = intents \cup {Current.id}
    <3>1. turn'.phase = "launch"
      BY <2>4 DEF Types, Turns
    <3>2. Current.id \notin vetoed
      BY <2>1 DEF Sanctioned
    <3>3. \A i \in DOMAIN calls : i > 1 => calls[i].id # Current.id
      BY <2>2 DEF Fresh
    <3>4. \A i \in DOMAIN calls' : i > 1 => calls'[i].id \notin intents' \cup vetoed'
      BY <2>1, <2>4, <3>3 DEF Sanctioned
    <3>5. intents' \cap vetoed' = {} /\ ran' \subseteq intents'
      BY <2>1, <2>4, <3>2 DEF Sanctioned
    <3>6. \A i \in DOMAIN pool'.jobs : pool'.jobs[i] \in Others \cup intents'
      BY <2>1, <2>4 DEF Sanctioned
    <3> QED
      BY <2>2, <2>4, <3>1, <3>4, <3>5, <3>6 DEF Sanctioned
  <2> QED
    BY <1>5, <2>3, <2>4 DEF CountAndJournal
<1>6. CASE Submit
  <2>1. turn.phase = "launch" /\ UNCHANGED <<calls, intents, ran, vetoed>>
    BY <1>6 DEF Submit, history
  <2>2. turn'.phase \in {"sync", "post"}
    BY <1>6 DEF Submit, Types, Turns
  <2>3. \A i \in DOMAIN pool'.jobs : pool'.jobs[i] \in Others \cup intents
    <3>1. CASE UNCHANGED pool
      BY <3>1 DEF Sanctioned
    <3>2. CASE pool' = [pool EXCEPT !.jobs = Append(@, Current.id)]
      <4>1. pool'.jobs = Append(pool.jobs, Current.id) /\ pool.jobs \in Seq(Ids \cup Others)
        BY <3>2 DEF Types
      <4>2. Current.id \in intents
        BY <2>1 DEF Sanctioned
      <4> QED
        BY <4>1, <4>2 DEF Sanctioned
    <3> QED
      BY <1>6, <3>1, <3>2 DEF Submit, executor
  <2> QED
    BY <2>1, <2>2, <2>3 DEF Sanctioned
<1>7. CASE Spawn \/ CallServer
  <2>1. /\ turn.phase = "launch" /\ UNCHANGED <<calls, intents, vetoed, pool>>
        /\ ran' = ran \cup {Current.id} /\ turn'.phase \in {"bash", "mcp"}
    BY <1>7 DEF Spawn, CallServer, executor, Types, Turns
  <2> QED
    BY <2>1 DEF Sanctioned
<1>8. CASE WorkerTakes
  <2>1. /\ UNCHANGED <<turn, calls, hook, intents, vetoed>> /\ pool.jobs # << >>
        /\ pool'.jobs = Tail(pool.jobs) /\ pool.jobs \in Seq(Ids \cup Others)
        /\ Current' = Current
    BY <1>8 DEF WorkerTakes, Types, Current
  <2>2. ran' = ran \/ (Head(pool.jobs) \notin Others /\ ran' = ran \cup {Head(pool.jobs)})
    BY <1>8 DEF WorkerTakes, Mine
  <2>3. Head(pool.jobs) \in Others \cup intents
    BY <2>1 DEF Sanctioned
  <2>4. \A i \in DOMAIN pool'.jobs : pool'.jobs[i] \in Others \cup intents
    BY <2>1 DEF Sanctioned
  <2> QED
    BY <2>1, <2>2, <2>3, <2>4 DEF Sanctioned
<1>9. CASE WorkerFinishes
  <2>1. pool'.jobs = pool.jobs /\ UNCHANGED <<turn, calls, hook, intents, vetoed, ran>>
    BY <1>9 DEF WorkerFinishes, history, Types
  <2> QED
    BY <2>1 DEF Sanctioned, Current
<1>10. ASSUME NEW o \in Others, OtherSubmits(o)
       PROVE  Sanctioned'
  <2>1. /\ pool'.jobs = Append(pool.jobs, o) /\ pool.jobs \in Seq(Ids \cup Others)
        /\ UNCHANGED <<turn, calls, hook, intents, vetoed, ran>>
    BY <1>10 DEF OtherSubmits, history, Types
  <2>2. \A i \in DOMAIN pool'.jobs : pool'.jobs[i] \in Others \cup intents
    BY <2>1 DEF Sanctioned
  <2> QED
    BY <2>1, <2>2 DEF Sanctioned, Current
<1>11. ASSUME NEW kind \in {"transient", "pairing", "other"}, CallFails(kind)
       PROVE  Sanctioned'
  <2>1. UNCHANGED <<calls, intents, ran, vetoed, pool, hook>>
    BY <1>11 DEF CallFails, history, executor
  <2>2. CASE turn' = [turn EXCEPT !.phase = "backoff"]
    BY <2>1, <2>2, Moved, SanctionedAsBefore DEF Phases
  <2>3. CASE turn' = Leaves("failed")
    BY <2>1, <2>3, LeftTurn, SanctionedAsBefore DEF Verdicts
  <2>4. CASE turn' = [turn EXCEPT !.repaired = TRUE, !.attempt = 1]
    <3>1. turn'.phase = "calling"
      BY <1>11, <2>4 DEF CallFails, Types, Turns
    <3> QED
      BY <2>1, <3>1, SanctionedAsBefore
  <2> QED
    BY <1>11, <2>2, <2>3, <2>4 DEF CallFails
<1>12. CASE StreamText \/ RetryCall \/ PromptPasses \/ ToolReturns
  <2>1. UNCHANGED <<calls, intents, ran, vetoed, pool>>
    BY <1>12 DEF StreamText, RetryCall, PromptPasses, ToolReturns, history, executor
  <2>2. turn'.phase \in {"calling", "top", "over", "post"}
    BY <1>12 DEF StreamText, RetryCall, PromptPasses, ToolReturns, Types, Turns
  <2> QED
    BY <2>1, <2>2, SanctionedAsBefore
<1>13. CASE NextStep
  <2>1. UNCHANGED <<calls, intents, ran, vetoed, pool>>
    BY <1>13 DEF NextStep, history, executor
  <2>2. CASE turn.step = MaxSteps
    BY <1>13, <2>1, <2>2, LeftTurn, SanctionedAsBefore DEF NextStep, Verdicts
  <2>3. CASE turn.step # MaxSteps
    <3>1. turn'.phase = "calling"
      BY <1>13, <2>3 DEF NextStep, Types, Turns
    <3> QED
      BY <2>1, <3>1, SanctionedAsBefore
  <2> QED
    BY <2>2, <2>3
<1>14. CASE ShellExits \/ PipesClose
  BY <1>14, SanctionedAsBefore DEF ShellExits, PipesClose, history, executor
<1>15. CASE Settle \/ Closed
  <2>1. UNCHANGED <<calls, intents, ran, vetoed, pool>>
    BY <1>15 DEF Settle, Closed, history, executor
  <2>2. turn'.phase \in {"closing", "over"}
    BY <1>15, LeftTurn DEF Settle, Closed, Types, Turns, Verdicts
  <2> QED
    BY <2>1, <2>2, SanctionedAsBefore
<1>16. CASE BashTimesOut \/ KillShell \/ ShellTerminated
  <2>1. UNCHANGED <<calls, intents, ran, vetoed, pool>>
    BY <1>16 DEF BashTimesOut, KillShell, ShellTerminated, history, executor
  <2>2. turn'.phase \in {"terminating", "post", "closing"}
    BY <1>16, Terminations
  <2> QED
    BY <2>1, <2>2, SanctionedAsBefore
<1>17. CASE Cancel
  <2>1. UNCHANGED <<calls, intents, ran, vetoed, pool>>
    BY <1>17 DEF Cancel, history, executor
  <2>2. turn'.phase \in {"settling", "terminating", "closing", "over"}
    BY <1>17, Cancellations
  <2> QED
    BY <2>1, <2>2, SanctionedAsBefore
<1> QED
  BY <1>1, <1>2, <1>3, <1>4, <1>5, <1>6, <1>7, <1>8, <1>9, <1>10, <1>11, <1>12, <1>13, <1>14,
     <1>15, <1>16, <1>17 DEF Next, Model, Hooks, Tools, Outside, Deadlines

(* Outside a call to the model nothing is claimed of its attempts.         *)
LEMMA ShownAsBefore ==
  ASSUME Types, Shown, UNCHANGED shown, turn'.step = turn.step,
         UNCHANGED turn \/ turn'.phase \notin {"calling", "backoff"} \/ turn'.forced
  PROVE  Shown'
BY DEF Shown, NothingShownTwice, Attempt

LEMMA ShownKept ==
  ASSUME Types, Types', Places, Shown, Shell, Next
  PROVE  Shown'
<1>0. turn.step \in Nat /\ \A a \in shown : a[1] \in Nat
  BY DEF Types, Turns
<1>1. CASE StreamText
  <2>1. /\ turn.phase = "calling" /\ ~turn.forced /\ shown' = shown \cup {Attempt}
        /\ turn'.emitted /\ turn'.phase = turn.phase /\ turn'.forced = turn.forced
        /\ turn'.step = turn.step /\ Attempt' = Attempt
    BY <1>1 DEF StreamText, Types, Turns, Attempt
  <2>2. Attempt[1] = turn.step
    BY DEF Attempt
  <2>3. \A a \in shown' : a[1] <= turn.step /\ (a[1] = turn.step => a = Attempt)
    BY <1>0, <2>1, <2>2 DEF Shown
  <2>4. NothingShownTwice'
    BY <2>1, <2>2, <2>3 DEF Shown, NothingShownTwice
  <2> QED
    BY <2>1, <2>3, <2>4 DEF Shown
<1>2. CASE RetryCall
  <2>1. /\ turn.phase = "backoff" /\ UNCHANGED shown /\ turn'.step = turn.step
        /\ turn'.forced = turn.forced /\ ~turn.emitted
    BY <1>2 DEF RetryCall, Types, Turns, history, Places
  <2> QED
    BY <2>1 DEF Shown, NothingShownTwice
<1>3. CASE NextStep
  <2>1. turn.phase = "top" /\ UNCHANGED shown
    BY <1>3 DEF NextStep, history
  <2>2. CASE turn.step = MaxSteps
    BY <1>3, <2>1, <2>2, LeftTurn, ShownAsBefore DEF NextStep, Verdicts
  <2>3. CASE turn.step # MaxSteps
    <3>1. turn'.step = turn.step + 1
      BY <1>3, <2>3 DEF NextStep, Types, Turns
    <3>2. \A a \in shown' : a[1] <= turn'.step /\ a[1] # turn'.step
      BY <1>0, <2>1, <3>1 DEF Shown
    <3> QED
      BY <2>1, <3>2 DEF Shown, NothingShownTwice
  <2> QED
    BY <2>2, <2>3
<1>4. ASSUME NEW kind \in {"transient", "pairing", "other"}, CallFails(kind)
      PROVE  Shown'
  <2>1. turn.phase = "calling" /\ UNCHANGED shown
    BY <1>4 DEF CallFails, history
  <2>2. CASE turn' = Leaves("failed")
    BY <2>1, <2>2, LeftTurn, ShownAsBefore DEF Verdicts
  <2>3. CASE ~turn.emitted /\ turn' = [turn EXCEPT !.phase = "backoff"]
    <3>1. turn'.step = turn.step /\ turn'.forced = turn.forced
      BY <2>3 DEF Types, Turns
    <3> QED
      BY <2>1, <2>3, <3>1 DEF Shown, NothingShownTwice
  <2>4. CASE ~turn.emitted /\ turn' = [turn EXCEPT !.repaired = TRUE, !.attempt = 1]
    <3>1. turn'.step = turn.step /\ turn'.forced = turn.forced
      BY <2>4 DEF Types, Turns
    <3> QED
      BY <2>1, <2>4, <3>1 DEF Shown, NothingShownTwice
  <2> QED
    BY <1>4, <2>2, <2>3, <2>4 DEF CallFails, Retriable
<1>5. ASSUME NEW r \in Responses, CallAnswers(r)
      PROVE  Shown'
  <2>1. UNCHANGED shown
    BY <1>5 DEF CallAnswers
  <2>2. CASE turn' = Leaves("failed") \/ turn' = Leaves("answered")
    BY <2>1, <2>2, LeftTurn, ShownAsBefore DEF Verdicts
  <2>3. CASE turn' = [turn EXCEPT !.forced = TRUE, !.attempt = 1, !.emitted = FALSE]
    <3>1. turn'.step = turn.step /\ turn'.forced
      BY <2>3 DEF Types, Turns
    <3> QED
      BY <2>1, <3>1, ShownAsBefore
  <2>4. CASE turn' = [turn EXCEPT !.phase = "preflight"]
    BY <2>1, <2>4, Moved, ShownAsBefore DEF Phases, Handling
  <2>5. CASE turn' = [turn EXCEPT !.phase = "top", !.conts = @ + 1]
    <3>1. turn'.step = turn.step /\ turn'.phase = "top"
      BY <2>5 DEF Types, Turns
    <3> QED
      BY <2>1, <3>1, ShownAsBefore
  <2> QED
    BY <1>5, <2>2, <2>3, <2>4, <2>5 DEF CallAnswers
<1>6. CASE Refuse \/ HookDenied \/ ToolRaises \/ PostDone
  <2>1. /\ Answer /\ calls # << >> /\ UNCHANGED shown
    BY <1>6 DEF Refuse, HookDenied, ToolRaises, PostDone, Places, Handling, Waits, history
  <2>2. turn' = [turn EXCEPT !.phase = turn'.phase] /\ turn'.phase \in {"top", "preflight"}
    BY <2>1, AnsweredTurn
  <2>3. turn'.step = turn.step
    BY <2>2 DEF Types, Turns
  <2> QED
    BY <2>1, <2>2, <2>3, ShownAsBefore
<1>7. CASE CountAndJournal
  <2>1. turn' = [turn EXCEPT !.phase = "launch"] \/ turn' = Leaves("failed")
    BY <1>7 DEF CountAndJournal
  <2>2. turn'.step = turn.step /\ turn'.phase \in {"launch", "closing"}
    <3>1. CASE turn' = [turn EXCEPT !.phase = "launch"]
      BY <3>1 DEF Types, Turns
    <3>2. CASE turn' = Leaves("failed")
      BY <3>2, LeftTurn DEF Verdicts
    <3> QED
      BY <2>1, <3>1, <3>2
  <2> QED
    BY <1>7, <2>2, ShownAsBefore DEF CountAndJournal
<1>8. CASE PromptPasses \/ Preflight \/ Submit \/ Spawn \/ CallServer \/ ToolReturns
  <2>1. UNCHANGED shown
    BY <1>8 DEF PromptPasses, Preflight, Submit, Spawn, CallServer, ToolReturns, history
  <2>2. turn'.step = turn.step /\ turn'.phase \notin {"calling", "backoff"}
    BY <1>8 DEF PromptPasses, Preflight, Submit, Spawn, CallServer, ToolReturns, Types, Turns
  <2> QED
    BY <2>1, <2>2, ShownAsBefore
<1>9. CASE WorkerTakes \/ WorkerFinishes \/ ShellExits \/ PipesClose \/ HookRuns
  BY <1>9, ShownAsBefore DEF WorkerTakes, WorkerFinishes, ShellExits, PipesClose, HookRuns,
     history
<1>10. ASSUME NEW o \in Others, OtherSubmits(o)
       PROVE  Shown'
  BY <1>10, ShownAsBefore DEF OtherSubmits, history
<1>11. CASE Settle \/ Closed
  <2>1. turn'.step = turn.step /\ turn'.phase \in {"closing", "over"}
    BY <1>11, LeftTurn DEF Settle, Closed, Types, Turns, Verdicts
  <2> QED
    BY <1>11, <2>1, ShownAsBefore DEF Settle, Closed, history
<1>12. CASE BashTimesOut \/ KillShell \/ ShellTerminated
  BY <1>12, Terminations, ShownAsBefore DEF BashTimesOut, KillShell, ShellTerminated, history
<1>13. CASE Cancel
  BY <1>13, Cancellations, ShownAsBefore DEF Cancel, history
<1> QED
  BY <1>1, <1>2, <1>3, <1>4, <1>5, <1>6, <1>7, <1>8, <1>9, <1>10, <1>11, <1>12, <1>13
     DEF Next, Model, Hooks, Tools, Outside, Deadlines

(* A shell that is none or has exited is of no concern.                    *)
LEMMA QuietShell ==
  ASSUME Types, Types', proc'.shell # "running", turn'.phase # "terminating"
  PROVE  Shell'
BY DEF Shell

LEMMA ShellKept ==
  ASSUME Types, Types', Places, Shell, Next
  PROVE  Shell'
<1>2. ASSUME UNCHANGED <<proc, cancels, turn>>
      PROVE  Shell'
  BY <1>2 DEF Shell, Enough
<1>3. ASSUME turn.phase \notin {"bash", "terminating", "closing", "over"}, UNCHANGED proc,
             turn'.phase # "terminating"
      PROVE  Shell'
  BY <1>3, QuietShell DEF Shell
<1>4. CASE StreamText \/ RetryCall
  <2>1. /\ turn.phase \in {"calling", "backoff"} /\ turn'.phase = "calling" /\ UNCHANGED proc
    BY <1>4 DEF StreamText, RetryCall, Types, Turns
  <2> QED
    BY <1>3, <2>1
<1>5. CASE NextStep
  <2>1. turn.phase = "top" /\ UNCHANGED proc
    BY <1>5 DEF NextStep
  <2>2. turn'.phase \in {"calling", "closing"}
    <3>1. CASE turn.step = MaxSteps
      BY <1>5, <3>1, LeftTurn DEF NextStep, Verdicts
    <3>2. CASE turn.step # MaxSteps
      BY <1>5, <3>2 DEF NextStep, Types, Turns
    <3> QED
      BY <3>1, <3>2
  <2> QED
    BY <1>3, <2>1, <2>2
<1>6. ASSUME NEW kind \in {"transient", "pairing", "other"}, CallFails(kind)
      PROVE  Shell'
  <2>1. turn.phase = "calling" /\ UNCHANGED proc
    BY <1>6 DEF CallFails
  <2>2. turn'.phase # "terminating"
    <3>1. CASE turn' = Leaves("failed")
      BY <3>1, LeftTurn DEF Verdicts
    <3>2. CASE turn' # Leaves("failed")
      BY <1>6, <2>1, <3>2 DEF CallFails, Types, Turns
    <3> QED
      BY <3>1, <3>2
  <2> QED
    BY <1>3, <2>1, <2>2
<1>7. ASSUME NEW r \in Responses, CallAnswers(r)
      PROVE  Shell'
  <2>1. turn.phase = "calling" /\ UNCHANGED proc
    BY <1>7 DEF CallAnswers
  <2>2. turn'.phase # "terminating"
    <3>1. CASE turn' \in {Leaves("failed"), Leaves("answered")}
      BY <3>1, LeftTurn DEF Verdicts
    <3>2. CASE turn' \notin {Leaves("failed"), Leaves("answered")}
      <4>1. \/ turn' = [turn EXCEPT !.forced = TRUE, !.attempt = 1, !.emitted = FALSE]
            \/ turn' = [turn EXCEPT !.phase = "preflight"]
            \/ turn' = [turn EXCEPT !.phase = "top", !.conts = @ + 1]
        BY <1>7, <3>2 DEF CallAnswers
      <4> QED
        BY <2>1, <4>1 DEF Types, Turns
    <3> QED
      BY <3>1, <3>2
  <2> QED
    BY <1>3, <2>1, <2>2
<1>8. CASE Refuse \/ HookDenied \/ ToolRaises \/ PostDone
  <2>1. /\ Answer /\ calls # << >> /\ UNCHANGED proc
        /\ turn.phase \in {"preflight", "pre", "launch", "mcp", "post"}
    BY <1>8 DEF Refuse, HookDenied, ToolRaises, PostDone, Places, Handling, Waits
  <2>2. turn'.phase \in {"top", "preflight"}
    BY <2>1, AnsweredTurn
  <2> QED
    BY <1>3, <2>1, <2>2
<1>9. CASE CountAndJournal
  <2>1. turn.phase = "pre" /\ UNCHANGED proc
    BY <1>9 DEF CountAndJournal
  <2>2. turn'.phase \in {"launch", "closing"}
    <3>1. CASE turn' = [turn EXCEPT !.phase = "launch"]
      BY <3>1 DEF Types, Turns
    <3>2. CASE turn' = Leaves("failed")
      BY <3>2, LeftTurn DEF Verdicts
    <3> QED
      BY <1>9, <3>1, <3>2 DEF CountAndJournal
  <2> QED
    BY <1>3, <2>1, <2>2
<1>10. CASE PromptPasses \/ Preflight \/ Submit \/ CallServer
  <2>1. UNCHANGED proc /\ turn.phase \in {"prompt", "preflight", "launch"}
    BY <1>10 DEF PromptPasses, Preflight, Submit, CallServer
  <2>2. turn'.phase # "terminating"
    BY <1>10 DEF PromptPasses, Preflight, Submit, CallServer, Types, Turns
  <2> QED
    BY <1>3, <2>1, <2>2
<1>11. CASE Spawn
  <2>1. turn'.phase = "bash"
    BY <1>11 DEF Spawn, Types, Turns
  <2> QED
    BY <2>1 DEF Shell
<1>12. CASE ToolReturns
  <2>1. turn'.phase = "post" /\ UNCHANGED proc
    BY <1>12 DEF ToolReturns, Types, Turns
  <2>2. proc.shell # "running"
    BY <1>12 DEF ToolReturns, Shell
  <2> QED
    BY <2>1, <2>2, QuietShell
<1>13. CASE WorkerTakes \/ WorkerFinishes \/ HookRuns
  BY <1>13, <1>2 DEF WorkerTakes, WorkerFinishes, HookRuns
<1>14. ASSUME NEW o \in Others, OtherSubmits(o)
       PROVE  Shell'
  BY <1>14, <1>2 DEF OtherSubmits
<1>15. CASE ShellExits \/ PipesClose
  <2>1. /\ proc'.shell = "running" => proc.shell = "running"
        /\ proc'.why = proc.why /\ UNCHANGED <<turn, cancels>>
    BY <1>15 DEF ShellExits, PipesClose, Types
  <2> QED
    BY <2>1 DEF Shell, Enough
<1>16. CASE Settle
  <2>1. turn'.phase = "closing" /\ UNCHANGED proc /\ turn.phase = "settling"
    BY <1>16, LeftTurn DEF Settle, Verdicts
  <2> QED
    BY <1>3, <2>1
<1>17. CASE Closed
  <2>1. turn.phase = "closing" /\ turn'.phase = "over" /\ UNCHANGED <<proc, cancels>>
    BY <1>17 DEF Closed, Types, Turns
  <2> QED
    BY <2>1 DEF Shell, Enough
<1>18. CASE BashTimesOut
  <2>1. /\ proc'.shell = proc.shell /\ proc'.why = "timeout"
        /\ turn' = IF proc.shell = "exited" THEN AfterTermination("timeout")
                   ELSE [turn EXCEPT !.phase = "terminating"]
    BY <1>18 DEF BashTimesOut, Terminate, Types
  <2>2. CASE proc.shell = "exited"
    <3>1. turn'.phase = "post"
      BY <2>1, <2>2, TerminatedTurn DEF Types, Turns
    <3> QED
      BY <2>1, <2>2, <3>1, QuietShell
  <2>3. CASE proc.shell # "exited"
    <3>1. turn'.phase = "terminating"
      BY <2>1, <2>3 DEF Types, Turns
    <3> QED
      BY <2>1, <3>1 DEF Shell
  <2> QED
    BY <2>2, <2>3
<1>19. CASE KillShell \/ ShellTerminated
  <2>1. proc'.shell # "running"
    BY <1>19 DEF KillShell, KillGroup, ShellTerminated, Types
  <2>2. proc.why \in {"timeout", "cancel"} /\ turn' = AfterTermination(proc.why)
    BY <1>19 DEF KillShell, ShellTerminated, Shell
  <2>3. turn'.phase # "terminating"
    <3>1. CASE turn' = Leaves("cancelled")
      BY <3>1, LeftTurn DEF Verdicts
    <3>2. CASE turn' = [turn EXCEPT !.phase = "post"]
      BY <3>2 DEF Types, Turns
    <3> QED
      BY <2>2, <3>1, <3>2, TerminatedTurn
  <2> QED
    BY <2>1, <2>3, QuietShell
<1>20. CASE Cancel
  <2>1. cancels' = cancels + 1 /\ cancels \in Nat
    BY <1>20, Bounds DEF Cancel, Types
  <2>2. CASE turn.phase = "bash"
    <3>1. /\ proc'.shell = proc.shell /\ proc'.why = "cancel"
          /\ turn' = IF proc.shell = "exited" THEN AfterTermination("cancel")
                     ELSE [turn EXCEPT !.phase = "terminating"]
      BY <1>20, <2>2 DEF Cancel, Terminate, Types
    <3>2. CASE proc.shell = "exited"
      <4>1. turn'.phase = "closing"
        BY <3>1, <3>2, TerminatedTurn, LeftTurn DEF Verdicts
      <4> QED
        BY <3>1, <3>2, <4>1, QuietShell
    <3>3. CASE proc.shell # "exited"
      <4>1. turn'.phase = "terminating"
        BY <3>1, <3>3 DEF Types, Turns
      <4> QED
        BY <2>1, <3>1, <4>1 DEF Shell
    <3> QED
      BY <3>2, <3>3
  <2>3. CASE turn.phase = "terminating"
    <3>1. turn'.phase = "closing" /\ UNCHANGED proc
      BY <1>20, <2>3, LeftTurn DEF Cancel, Verdicts
    <3>2. (Enough)'
      BY <2>1, <2>3, <3>1 DEF Shell, Enough
    <3> QED
      BY <3>1, <3>2 DEF Shell
  <2>4. CASE turn.phase = "closing"
    <3>1. turn'.phase = "over" /\ UNCHANGED proc
      BY <1>20, <2>4 DEF Cancel, Types, Turns
    <3>2. Enough => Enough'
      BY <2>1, <3>1 DEF Enough
    <3> QED
      BY <2>4, <3>1, <3>2 DEF Shell
  <2>5. CASE turn.phase \notin {"bash", "terminating", "closing"}
    <3>1. turn.phase # "over" /\ UNCHANGED proc
      BY <1>20, <2>5 DEF Cancel
    <3>2. turn'.phase # "terminating"
      <4>1. CASE turn' = Leaves("cancelled")
        BY <4>1, LeftTurn DEF Verdicts
      <4>2. CASE turn' # Leaves("cancelled")
        BY <1>20, <2>5, <4>2 DEF Cancel, Types, Turns
      <4> QED
        BY <4>1, <4>2
    <3> QED
      BY <1>3, <2>5, <3>1, <3>2
  <2> QED
    BY <2>2, <2>3, <2>4, <2>5
<1> QED
  BY <1>4, <1>5, <1>6, <1>7, <1>8, <1>9, <1>10, <1>11, <1>12, <1>13, <1>14, <1>15, <1>16,
     <1>17, <1>18, <1>19, <1>20 DEF Next, Model, Hooks, Tools, Outside, Deadlines

LEMMA Stutters ==
  ASSUME IInv, UNCHANGED vars
  PROVE  IInv'
<1> USE DEF vars, history, executor
<1>1. Types' /\ Places' /\ Paired'
  BY DEF IInv, Types, Places, Paired, Waiting, Answered, Owns
<1>2. Fresh' /\ Sanctioned' /\ Shown' /\ Shell'
  BY DEF IInv, Fresh, Sanctioned, Current, Shown, NothingShownTwice, Attempt, Shell, Enough
<1> QED
  BY <1>1, <1>2 DEF IInv

-----------------------------------------------------------------------------
(* The theorems *)

(* The invariant holds in every behaviour of the loop. *)
THEOREM Invariance == Spec => []IInv
<1>1. IInv /\ [Next]_vars => IInv'
  <2> SUFFICES ASSUME IInv, [Next]_vars PROVE IInv'
    OBVIOUS
  <2>1. CASE Next
    <3>1. Types /\ Places /\ Paired /\ Fresh /\ Sanctioned /\ Shown /\ Shell
      BY DEF IInv
    <3>2. Types'
      BY <2>1, <3>1, TypesKept
    <3> QED
      BY <2>1, <3>1, <3>2, PlacesKept, PairedKept, FreshKept, SanctionedKept, ShownKept,
         ShellKept DEF IInv
  <2>2. CASE UNCHANGED vars
    BY <2>2, Stutters
  <2> QED
    BY <2>1, <2>2
<1> QED
  BY InitHolds, <1>1, PTL DEF Spec

(* The values of the loop stay in their types and bounds: steps, retries,  *)
(* continuations, queued jobs and cancellations (the loop of               *)
(* enhanced_chat_with_tools, _BoundedDaemonExecutor).                      *)
THEOREM TypeCorrect == Spec => [](Types /\ TypeOK)
<1>1. IInv => Types /\ TypeOK
  BY DEF IInv, Types, TypeOK, Turns, Verdicts
<1> QED
  BY Invariance, <1>1, PTL

(* Every call of the model has its answer, once and in order, behind the   *)
(* message that makes it or is still to be handled, however it ends        *)
(* (append_canonical in every branch of the loop).                         *)
THEOREM AnswersEveryCall == Spec => []DeltaIsPaired
<1>1. IInv => DeltaIsPaired
  <2> SUFFICES ASSUME Types, Paired PROVE DeltaIsPaired
    BY DEF IInv
  <2>1. ASSUME NEW k \in DOMAIN delta, delta[k].role = "assistant", NEW j \in DOMAIN delta[k].ids
        PROVE  IF k + j \in DOMAIN delta THEN delta[k + j] = Result(delta[k].ids[j])
               ELSE delta[k].ids[j] \in {calls[i].id : i \in DOMAIN calls}
    BY <2>1 DEF Paired, Answered, Waiting
  <2>2. ASSUME NEW k \in DOMAIN delta, delta[k].role # "assistant"
        PROVE  \E a \in 1..(k - 1) : delta[a].role = "assistant" /\ k - a \in DOMAIN delta[a].ids
    <3>1. delta[k].role = "tool"
      BY <2>2, MessageShape
    <3> QED
      BY <3>1 DEF Paired, Owns
  <2> QED
    BY <2>1, <2>2 DEF DeltaIsPaired, Paired
<1> QED
  BY Invariance, <1>1, PTL

(* Nothing takes effect that was not journaled first, and nothing that a   *)
(* check, a limit or a handler refused (the preflight in the loop,         *)
(* _run_handlers).                                                         *)
THEOREM SanctionsEffects == Spec => []EffectsAreSanctioned
<1>1. IInv => EffectsAreSanctioned
  BY DEF IInv, Sanctioned, EffectsAreSanctioned
<1> QED
  BY Invariance, <1>1, PTL

(* Of all attempts at an answer, one at most is seen by the consumer of    *)
(* the stream (emitted_output, partial_output).                            *)
THEOREM ShowsOnce == Spec => []NothingShownTwice
<1>1. IInv => NothingShownTwice
  BY DEF IInv, Shown
<1> QED
  BY Invariance, <1>1, PTL

(* A turn that is over has left no shell running, unless another           *)
(* cancellation cut its termination short (_terminate_process).            *)
THEOREM StopsShells == Spec => []ShellIsStopped
<1>1. IInv => ShellIsStopped
  BY DEF IInv, Shell, Enough, ShellIsStopped
<1> QED
  BY Invariance, <1>1, PTL

(* A job that had not started when its turn gave up on it never does       *)
(* (_execute_sync_tool, _worker), nor does anything else of that turn.     *)
THEOREM GivesUpForGood == Spec => GivenUpIsGivenUp
<1>1. IInv /\ [Next]_vars => [future = "cancelled" => ran' = ran]_vars
  <2> SUFFICES ASSUME IInv, Next, future = "cancelled" PROVE ran' = ran
    OBVIOUS
  <2>1. turn.phase \in {"closing", "over"}
    BY DEF IInv, Places
  <2>2. ~Spawn /\ ~CallServer
    BY <2>1 DEF Spawn, CallServer
  <2>3. CASE WorkerTakes
    BY <2>3 DEF WorkerTakes, Forgotten
  <2>4. ASSUME NEW kind, CallFails(kind)
        PROVE  ran' = ran
    BY <2>4 DEF CallFails, history
  <2>5. ASSUME NEW r, CallAnswers(r)
        PROVE  ran' = ran
    BY <2>5 DEF CallAnswers
  <2>6. ASSUME NEW o, OtherSubmits(o)
        PROVE  ran' = ran
    BY <2>6 DEF OtherSubmits, history
  <2>7. CASE Hooks \/ StreamText \/ RetryCall \/ NextStep
    BY <2>7 DEF Hooks, PromptPasses, HookRuns, StreamText, RetryCall, NextStep, history
  <2>8. CASE Refuse \/ Preflight \/ HookDenied \/ CountAndJournal \/ Submit \/ ToolRaises
             \/ ToolReturns \/ PostDone
    BY <2>8 DEF Refuse, Preflight, HookDenied, CountAndJournal, Submit, ToolRaises,
       ToolReturns, PostDone, history
  <2>9. CASE WorkerFinishes \/ ShellExits \/ PipesClose \/ Deadlines \/ Cancel
    BY <2>9 DEF WorkerFinishes, ShellExits, PipesClose, Deadlines, Settle, BashTimesOut,
       KillShell, ShellTerminated, Closed, Cancel, history
  <2> QED
    BY <2>2, <2>3, <2>4, <2>5, <2>6, <2>7, <2>8, <2>9 DEF Next, Model, Tools, Outside
<1> QED
  BY Invariance, <1>1, PTL DEF Spec, GivenUpIsGivenUp

(* What runs beside the stream of another turn is the loop (OneTurn).      *)
LEMMA LoopOfEither == EitherSpec => Spec
<1>1. EitherInit => Init
  BY DEF EitherInit
<1>2. [EitherNext]_allVars => [Next]_vars
  BY DEF EitherNext, InLoop, InStream, allVars, loopVars, vars
<1> QED
  BY <1>1, <1>2, PTL DEF EitherSpec, Spec

(* What a turn keeps, shows, does and leaves running is in order at every  *)
(* await (tool_loop.enhanced_chat_with_tools).                             *)
THEOREM LoopSound == EitherSpec => []LoopIsSound
<1>1. TypeOK /\ DeltaIsPaired /\ NothingShownTwice /\ ShellIsStopped /\ EffectsAreSanctioned
         => LoopIsSound
  BY DEF LoopIsSound, TurnIsSound
<1> QED
  BY LoopOfEither, TypeCorrect, AnswersEveryCall, SanctionsEffects, ShowsOnce, StopsShells,
     <1>1, PTL

=============================================================================
