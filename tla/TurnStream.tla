----------------------------- MODULE TurnStream -----------------------------
(***************************************************************************)
(* One turn and the relays that carry its output to clients: the agent's   *)
(* tool loop publishes text, reasoning and tool events to the turn's       *)
(* handle (TurnHandle._publish in runtime.py), each relay reads a bounded  *)
(* queue of its own, and turn_frames (server/turn_stream.py) turns events  *)
(* into the frames that HTTP and WebSocket clients read.                   *)
(*                                                                         *)
(* A piece of text is a number, handed out in the order in which the model *)
(* produces them, so that a piece that is missing, late or sent twice is   *)
(* told apart from the others; Notice is the text the loop itself appends  *)
(* to an answer that stays cut off.                                        *)
(***************************************************************************)
EXTENDS Naturals, Sequences, SequencesExt

CONSTANTS
    Relays,             \* consumers of the turn's stream
    QueueMax,           \* max_queue_size of a subscription (256)
    MaxSteps,           \* agent_spec.max_steps
    MaxContinuations,   \* MAX_ANSWER_CONTINUATIONS (3)
    MaxPieces           \* bound of the model: pieces of text and reasoning

VARIABLES
    stream,         \* TurnRequest.stream: whether the loop passes stream callbacks
    status,         \* TurnHandle.status
    step,           \* rounds of the tool loop, 0 before the first
    text,           \* content of the response that is arriving
    thought,        \* reasoning of the response that is arriving
    parts,          \* partial_answer_parts
    continuations,  \* answer_continuations
    reasoning,      \* current_turn_reasoning_parts
    answer,         \* TurnResult.value
    pieces,         \* how many pieces the model has produced
    log,            \* history: every event published to the handle
    subscribers,    \* TurnHandle._stream_subscribers
    queue,          \* the queue of each subscription
    pc,             \* where the generator of each relay stands
    todo,           \* frames the relay has made and not handed over yet
    since,          \* history: length of the log when the relay subscribed
    frames          \* history: frames the client has read, pings left out

responseVars == <<step, text, thought, parts, continuations>>
turnVars == <<stream, status, responseVars, reasoning, answer, pieces, log>>
relayVars == <<pc, todo, since, frames>>
vars == <<turnVars, subscribers, queue, relayVars>>

Item(type, content) == [type |-> type, content |-> content]
Notice == 0
Outcomes == {"completed", "failed", "cancelled"}
\* The types a last frame can have: the outcome of the turn, or SLOW_CONSUMER.
Terminal == Outcomes \cup {"overflow"}
\* The types of events that are output; the others are lifecycle.
Outputs == {"chunk", "reasoning", "tool"}

Done == status \in Outcomes
OfType(s, types) == SelectSeq(s, LAMBDA x : x.type \in types)
\* All the text of a sequence of events or frames of the given types.
TextOf(s, types) == FlattenSeq([i \in DOMAIN OfType(s, types) |-> OfType(s, types)[i].content])

-----------------------------------------------------------------------------
(* TurnHandle._publish: a full queue is emptied, told so, and let go. *)

Full(r) == Len(queue[r]) >= QueueMax

Queued(r, e) ==
    IF r \notin subscribers THEN queue[r]
    ELSE IF Full(r) THEN <<Item("overflow", <<>>)>>
    ELSE Append(queue[r], e)

Publish(e) ==
    /\ log' = Append(log, e)
    /\ queue' = [r \in Relays |-> Queued(r, e)]
    /\ subscribers' = {r \in subscribers : ~Full(r)}

Silent == UNCHANGED <<log, queue, subscribers>>

-----------------------------------------------------------------------------
(* The turn. *)

Init ==
    /\ stream \in BOOLEAN
    /\ status = "queued"
    /\ step = 0 /\ continuations = 0 /\ pieces = 0
    /\ text = <<>> /\ thought = <<>> /\ parts = <<>>
    /\ reasoning = <<>> /\ answer = <<>> /\ log = <<>>
    /\ subscribers = {}
    /\ queue = [r \in Relays |-> <<>>]
    /\ pc = [r \in Relays |-> "new"]
    /\ todo = [r \in Relays |-> <<>>]
    /\ since = [r \in Relays |-> 0]
    /\ frames = [r \in Relays |-> <<>>]

\* The worker takes the turn from the queue; the tool loop makes its first call.
Start ==
    /\ status = "queued"
    /\ status' = "running"
    /\ step' = 1
    /\ Publish(Item("running", <<>>))
    /\ UNCHANGED <<stream, text, thought, parts, continuations, reasoning, answer, pieces,
                   relayVars>>

\* The loop is at a call, which the provider is answering.
Calling == status = "running" /\ step <= MaxSteps

\* The response grows by a piece of content; a streamed one is published.
Speak ==
    /\ Calling /\ pieces < MaxPieces
    /\ pieces' = pieces + 1
    /\ text' = Append(text, pieces')
    /\ IF stream THEN Publish(Item("chunk", <<pieces'>>)) ELSE Silent
    /\ UNCHANGED <<stream, status, step, thought, parts, continuations, reasoning, answer,
                   relayVars>>

\* The response grows by a piece of reasoning, on a channel of its own.
Think ==
    /\ Calling /\ pieces < MaxPieces
    /\ pieces' = pieces + 1
    /\ thought' = Append(thought, pieces')
    /\ IF stream THEN Publish(Item("reasoning", <<pieces'>>)) ELSE Silent
    /\ UNCHANGED <<stream, status, step, text, parts, continuations, reasoning, answer,
                   relayVars>>

\* A transient provider error: the call is repeated unless content of this
\* response has been streamed.  Reasoning that has been streamed does not count.
Retry ==
    /\ Calling
    /\ ~(stream /\ text # <<>>)
    /\ text' = <<>> /\ thought' = <<>>
    /\ Silent
    /\ UNCHANGED <<stream, status, step, parts, continuations, reasoning, answer, pieces,
                   relayVars>>

\* The loop goes round: _record_step_reasoning, then the next call; past the
\* last step only the failure is left.
NextStep ==
    /\ Calling
    /\ step' = step + 1
    /\ text' = <<>> /\ thought' = <<>>
    /\ reasoning' = reasoning \o thought
    /\ UNCHANGED <<stream, status, answer, pieces, relayVars>>

\* The response calls tools: its text and the parts before it become history.
\* One event stands for those of all its calls.
CallTools ==
    /\ NextStep
    /\ parts' = <<>>
    /\ Publish(Item("tool", <<>>))
    /\ UNCHANGED continuations

\* The provider cut the response off: it is kept, and the model asked to go on.
Continue ==
    /\ NextStep
    /\ continuations < MaxContinuations
    /\ continuations' = continuations + 1
    /\ parts' = parts \o text
    /\ Silent

\* TurnHandle._finish and SessionRuntime._emit, with no await between them.
Finish(outcome) ==
    /\ status' = outcome
    /\ Publish(Item(outcome, <<>>))
    /\ UNCHANGED <<stream, responseVars, pieces, relayVars>>

Complete(value, trace) ==
    /\ Calling
    /\ answer' = value
    /\ reasoning' = reasoning \o trace
    /\ Finish("completed")

\* A response without tool calls that ended by itself.
Answer == Complete(parts \o text, thought)

\* The last continuation was cut off as well: apply_truncation_notice.  The
\* notice is part of the answer; nothing of it is published to the turn.
AnswerTruncated ==
    /\ continuations = MaxContinuations
    /\ Complete(parts \o text \o <<Notice>>, thought)

\* A tool reached its limit: the final answer comes from one more call, which
\* is made without stream callbacks (a piece of either kind at most, and the
\* notice when it is cut off).
AnswerForced ==
    \E final \in {<<>>, <<pieces + 1>>}, cut \in {<<>>, <<Notice>>}, trace \in {<<>>, <<pieces + 2>>} :
        Complete(final \o cut, thought \o trace)

\* A provider error, the last step used up, the deadline, a commit that fails.
Fail ==
    /\ status = "running"
    /\ Finish("failed")
    /\ UNCHANGED <<answer, reasoning>>

\* cancel_turn, of a queued turn or of the active one.
Cancel ==
    /\ ~Done
    /\ Finish("cancelled")
    /\ UNCHANGED <<answer, reasoning>>

-----------------------------------------------------------------------------
(* A relay: one run of the generator turn_frames.  It goes from one yield to *)
(* the next without giving up control, except to wait for an event.          *)

Open(r) ==
    /\ pc[r] = "new"
    /\ pc' = [pc EXCEPT ![r] = "open"]
    /\ subscribers' = subscribers \cup {r}
    /\ since' = [since EXCEPT ![r] = Len(log)]
    /\ todo' = [todo EXCEPT ![r] = <<Item("start", <<>>)>>]
    /\ UNCHANGED <<turnVars, queue, frames>>

\* The consumer pulls: it is handed the frame the generator has made.
Deliver(r) ==
    /\ pc[r] = "open" /\ todo[r] # <<>>
    /\ frames' = [frames EXCEPT ![r] = Append(@, Head(todo[r]))]
    /\ todo' = [todo EXCEPT ![r] = Tail(@)]
    /\ UNCHANGED <<turnVars, subscribers, queue, pc, since>>

Sent(r, type) == \E i \in DOMAIN frames[r] : frames[r][i].type = type
Concluded(r) == \E i \in DOMAIN frames[r] : frames[r][i].type \in Terminal

\* The outcome's reasoning and answer for a client that has not read any; the
\* trace is what _record_step_reasoning kept.
LateReasoning(r) ==
    IF ~Sent(r, "reasoning") /\ status = "completed" /\ reasoning # <<>>
    THEN <<Item("reasoning", reasoning)>> ELSE <<>>
LateAnswer == IF answer # <<>> THEN <<Item("chunk", answer)>> ELSE <<>>

(* Mutant: The fallback forgets that chunks have been sent. *)
FramesRepeating(r, e) ==
    IF e.type = "completed" THEN LateReasoning(r) \o LateAnswer \o <<e>>
    ELSE IF e.type \in Outputs \cup Terminal THEN <<e>> ELSE <<>>

\* Frames made of one event; lifecycle events other than the last have none.
FramesOf(r, e) ==
    IF e.type = "completed"
    THEN LateReasoning(r) \o (IF Sent(r, "chunk") THEN <<>> ELSE LateAnswer) \o <<e>>
    ELSE IF e.type \in Outputs \cup Terminal THEN <<e>> ELSE <<>>

\* The next turn of the generator's loop.
Resumed(r) == pc[r] \in {"open", "waiting"} /\ todo[r] = <<>> /\ ~Concluded(r)

TakeEvent(r) ==
    /\ Resumed(r) /\ queue[r] # <<>>
    /\ todo' = [todo EXCEPT ![r] = FramesOf(r, Head(queue[r]))]
    /\ queue' = [queue EXCEPT ![r] = Tail(@)]
    /\ pc' = [pc EXCEPT ![r] = "open"]
    /\ UNCHANGED <<turnVars, subscribers, since, frames>>

\* `handle.done and queue.empty()`: a relay that subscribed after the end.
TakeOutcome(r) ==
    /\ Resumed(r) /\ pc[r] = "open" /\ queue[r] = <<>> /\ Done
    /\ todo' = [todo EXCEPT ![r] = LateReasoning(r) \o LateAnswer \o <<Item(status, <<>>)>>]
    /\ UNCHANGED <<turnVars, subscribers, queue, pc, since, frames>>

(* Mutant: The relay waits for an event without having looked whether the turn is over. *)
WaitAnyway(r) ==
    /\ Resumed(r) /\ pc[r] = "open" /\ queue[r] = <<>>
    /\ pc' = [pc EXCEPT ![r] = "waiting"]
    /\ UNCHANGED <<turnVars, subscribers, queue, todo, since, frames>>

\* queue.get() of an empty queue.
Wait(r) ==
    /\ Resumed(r) /\ pc[r] = "open" /\ queue[r] = <<>> /\ ~Done
    /\ pc' = [pc EXCEPT ![r] = "waiting"]
    /\ UNCHANGED <<turnVars, subscribers, queue, todo, since, frames>>

\* The keepalive interval passes without an event: a ping, and round again.
Ping(r) ==
    /\ pc[r] = "waiting" /\ queue[r] = <<>>
    /\ pc' = [pc EXCEPT ![r] = "open"]
    /\ UNCHANGED <<turnVars, subscribers, queue, todo, since, frames>>

Close(r) ==
    /\ pc' = [pc EXCEPT ![r] = "closed"]
    /\ todo' = [todo EXCEPT ![r] = <<>>]
    /\ subscribers' = subscribers \ {r}
    /\ UNCHANGED <<turnVars, queue, since, frames>>

\* The last frame has been handed over: return, and the finally clause.
End(r) == pc[r] = "open" /\ Concluded(r) /\ Close(r)

\* The client goes away: aclose() at a yield, or a cancelled wait.
Disconnect(r) == pc[r] \in {"open", "waiting"} /\ Close(r)

-----------------------------------------------------------------------------

TurnNext ==
    \/ Start \/ Speak \/ Think \/ Retry \/ CallTools \/ Continue
    \/ Answer \/ AnswerTruncated \/ AnswerForced \/ Fail \/ Cancel

Progress(r) == Deliver(r) \/ TakeEvent(r) \/ TakeOutcome(r) \/ Wait(r) \/ End(r)
RelayNext(r) == Open(r) \/ Progress(r) \/ Ping(r) \/ Disconnect(r)

Next == TurnNext \/ \E r \in Relays : RelayNext(r)
Spec == Init /\ [][Next]_vars

-----------------------------------------------------------------------------
(* Properties. *)

(* Every variable has its type; a queue never exceeds its bound, and a relay *)
(* that is not open holds no subscription and no frame.                      *)
TypeOK ==
    /\ stream \in BOOLEAN
    /\ status \in {"queued", "running"} \cup Outcomes
    /\ step \in 0..(MaxSteps + 1)
    /\ continuations \in 0..MaxContinuations
    /\ pieces \in 0..MaxPieces
    /\ \A s \in {text, thought, parts, reasoning, answer} : s \in Seq(Nat)
    /\ subscribers \subseteq Relays
    /\ \A r \in Relays :
         /\ pc[r] \in {"new", "open", "waiting", "closed"}
         /\ since[r] \in 0..Len(log)
         /\ Len(queue[r]) <= QueueMax
         /\ pc[r] \in {"new", "closed"} => r \notin subscribers /\ todo[r] = <<>>

\* The generator has been entered and not left.
Live(r) == pc[r] \in {"open", "waiting"}
Made(r) == frames[r] \o todo[r]
Ended(r) == \E i \in DOMAIN Made(r) : Made(r)[i].type \in Terminal

(* A relay passes on what was published since it subscribed: what its client *)
(* reads is, in order and without a gap, the start of it, and as long as the *)
(* relay is subscribed the rest waits in its queue.                          *)
RelayIsFaithful ==
    \A r \in Relays :
        LET published == OfType(SubSeq(log, since[r] + 1, Len(log)), Outputs)
            read == OfType(Made(r), Outputs)
        IN  Live(r) /\ ~Ended(r) =>
                /\ IsPrefix(read, published)
                /\ r \in subscribers => read \o OfType(queue[r], Outputs) = published

(* A stream ends once, with the outcome the turn really reached or with the  *)
(* report that the client was too slow, and nothing follows its end.         *)
EndsAsTheTurn ==
    \A r \in Relays : \A i \in DOMAIN Made(r) :
        Made(r)[i].type \in Terminal =>
            /\ i = Len(Made(r))
            /\ Made(r)[i].type \in {status, "overflow"}

(* No piece of text reaches a client twice, although the outcome of a turn   *)
(* repeats what has been streamed.                                           *)
NothingTwice ==
    \A r \in Relays : IsInjective(TextOf(Made(r), {"chunk", "reasoning"}))

\* The answer holds text that was published as the turn went, or none.
Published(s) == \A i \in DOMAIN s : \E j \in DOMAIN log : s[i] \in Range(log[j].content)
Completed(r) == \E i \in DOMAIN Made(r) : Made(r)[i].type = "completed"
AnswerRead(r) == IsSuffix(answer, TextOf(Made(r), {"chunk"}))

(* Who reads a stream from its beginning, or opens it after the end, and is  *)
(* told that the turn completed, has read the whole answer: also when it was *)
(* put together from several responses, or not streamed at all.              *)
AnswerArrives ==
    \A r \in Relays :
        /\ Completed(r)
        /\ since[r] = 0 \/ since[r] = Len(log)
        /\ Published(answer) \/ ~Sent(r, "chunk")
        => AnswerRead(r)


(* A relay comes to its end once the turn has, with keepalives or without:   *)
(* no relay waits for an event that will not come.  (A relay opens once, and *)
(* neither turn nor relay comes back from its end.)                          *)
RelayEnds ==
    \A r \in Relays : <>[]~(Live(r) /\ Done)

(* What holds of a stream at every moment. *)
StreamInvariant ==
    TypeOK /\ RelayIsFaithful /\ EndsAsTheTurn /\ NothingTwice /\ AnswerArrives

=============================================================================
