------------------------------ MODULE Context --------------------------------
(***************************************************************************)
(* The messages of a session from turn to turn: what the model is sent in  *)
(* every step of a turn (turn_service.py, tool_loop.py), fitted into a     *)
(* budget that changes with the tools, what is committed, and the          *)
(* checkpoint that takes the place of old turns.                           *)
(*                                                                         *)
(* Beside it a list that anything may be appended to: the lists that the   *)
(* repair of a rejected request is made for.                               *)
(***************************************************************************)
EXTENDS Messages, Integers, SequencesExt, Functions

CONSTANTS
    CallLists,        \* what the model may ask for: sequences of call ids
    Sizes,           \* sizes of the results
    Budgets,         \* input budgets, less the tool schemas
    Threshold,       \* tokens above which old turns are compacted
    Strategies,      \* the strategies of a compactor
    MaxTurns,        \* bound: turns of the session
    MaxSteps,        \* bound: batches of a session
    MaxList          \* bound: length of the list

VARIABLES
    turns,           \* SessionState.turns with their messages
    checkpoint,      \* the context that covers the first turns, and how many
    delta,           \* message_delta of the turn that runs
    messages,        \* what the tool loop sends
    stage,           \* how far the turn is
    list             \* a list of messages from anywhere

contextVars == <<turns, checkpoint, delta, messages, stage, list>>

ContextInit ==
    /\ turns = << >> /\ delta = << >> /\ messages = << >> /\ list = << >>
    /\ checkpoint = [context |-> << >>, covered |-> 0, generation |-> 0]
    /\ stage = "idle"

ModelContext(cp, turn) ==
    cp.context \o FlattenSeq(SubSeq(turns, cp.covered + 1, Len(turns))) \o turn

Begin ==
    /\ stage = "idle" /\ list = << >> /\ Len(turns) < MaxTurns
    /\ delta' = <<User(<<Len(turns) + 1, "user">>)>>
    /\ messages' = ModelContext(checkpoint, delta')
    /\ stage' = "begun"
    /\ UNCHANGED <<turns, checkpoint, list>>

PreserveTurns == IF PreserveLast < 2 THEN 1 ELSE PreserveLast \div 2

(* The turns before the last PreserveTurns become a checkpoint. *)
Compact(strategy, fails) ==
    LET covered == Len(turns) - PreserveTurns
        input == checkpoint.context
                    \o FlattenSeq(SubSeq(turns, checkpoint.covered + 1, covered))
    IN  /\ stage = "begun"
        /\ Tokens(messages) > Threshold /\ covered > checkpoint.covered
        /\ checkpoint' = [context |-> Checkpoint(input, strategy, fails), covered |-> covered,
                           generation |-> checkpoint.generation + 1]
        /\ messages' = ModelContext(checkpoint', delta)
        /\ stage' = "ready"
        /\ UNCHANGED <<turns, delta, list>>

Proceed ==
    /\ stage = "begun"
    /\ Tokens(messages) <= Threshold \/ Len(turns) - PreserveTurns <= checkpoint.covered
    /\ stage' = "ready"
    /\ UNCHANGED <<turns, checkpoint, delta, messages, list>>

Send(budget) ==
    /\ stage = "ready"
    /\ messages' = Fit(messages, budget)
    /\ stage' = "sent"
    /\ UNCHANGED <<turns, checkpoint, delta, list>>

(* The provider rejected the pairing: once more, repaired. *)
SendRepaired(budget) ==
    /\ stage = "sent"
    /\ messages' = Fit(Repair(messages), budget)
    /\ stage' = "resent"
    /\ UNCHANGED <<turns, checkpoint, delta, list>>

Exchange(calls, size) ==
    LET step == Len(SelectSeq(FlattenSeq(turns) \o delta, IsAsk)) + 1
        new  == <<Asks(calls)>>
                \o [i \in DOMAIN calls |->
                       Result(calls[i], size[i], {<<step, calls[i]>>})]
    IN  /\ stage \in {"sent", "resent"} /\ step <= MaxSteps
        /\ delta' = delta \o new
        /\ messages' = messages \o new
        /\ stage' = "ready"
        /\ UNCHANGED <<turns, checkpoint, list>>

Commit ==
    LET turn == Append(delta, Answer(Small, {<<Len(turns) + 1, "answer">>}))
    IN  /\ stage \in {"sent", "resent"}
        /\ CompleteTurn(turn)
        /\ turns' = Append(turns, turn)
        /\ delta' = << >> /\ messages' = << >> /\ stage' = "idle"
        /\ UNCHANGED <<checkpoint, list>>

Piece(calls) ==
    {User("said"), Answer(Small, {"told"}), Asks(calls)}
        \union {Result(id, size, {"found"}) : id \in Range(calls), size \in Sizes}

Grow ==
    /\ turns = << >> /\ delta = << >> /\ Len(list) < MaxList
    /\ \E calls \in CallLists : \E m \in Piece(calls) : list' = Append(list, m)
    /\ UNCHANGED <<turns, checkpoint, delta, messages, stage>>

ContextNext ==
    \/ Begin
    \/ \E s \in Strategies, fails \in BOOLEAN : Compact(s, fails)
    \/ Proceed
    \/ \E b \in Budgets : Send(b)
    \/ \E b \in Budgets : SendRepaired(b)
    \/ \E calls \in CallLists : \E size \in [DOMAIN calls -> Sizes] : Exchange(calls, size)
    \/ Commit
    \/ Grow

-----------------------------------------------------------------------------
(* The session file (session_state.py): one list of messages, and for each *)
(* turn where it begins and ends in it.                                    *)

NoCheckpoint == << >>

MessagesOf(n) == Len(FlattenSeq(SubSeq(turns, 1, n)))

Snapshot ==
    [messages |-> FlattenSeq(turns),
     turns |-> [i \in DOMAIN turns |-> [start |-> MessagesOf(i - 1), end |-> MessagesOf(i)]],
     checkpoint |-> IF checkpoint.covered = 0 THEN NoCheckpoint
                    ELSE <<[context |-> checkpoint.context, turns |-> checkpoint.covered,
                            messages |-> MessagesOf(checkpoint.covered), generation |-> checkpoint.generation]>>]

TurnOf(file, i) == SubSeq(file.messages, file.turns[i].start + 1, file.turns[i].end)

(* validate_session_state: turns follow each other without a gap, each is  *)
(* complete, and they are all there is; a checkpoint ends where a turn does. *)
Valid(file) ==
    LET n == Len(file.turns)
        begins(i) == IF i = 1 THEN 0 ELSE file.turns[i - 1].end
    IN  /\ \A i \in 1..n : LET turn == file.turns[i] IN
              /\ turn.start = begins(i) /\ turn.start < turn.end /\ turn.end <= Len(file.messages)
              /\ CompleteTurn(TurnOf(file, i))
        /\ begins(n + 1) = Len(file.messages)
        /\ \A cp \in Range(file.checkpoint) :
              /\ cp.context # << >> /\ cp.generation >= 1
              /\ cp.turns \in 1..n /\ cp.messages = file.turns[cp.turns].end

(* from_snapshot: what is not valid is not loaded.                         *)
Restored(file) ==
    [turns |-> [i \in DOMAIN file.turns |-> TurnOf(file, i)],
     checkpoint |-> IF file.checkpoint = NoCheckpoint THEN [context |-> << >>, covered |-> 0, generation |-> 0]
                    ELSE LET cp == file.checkpoint[1]
                         IN  [context |-> cp.context, covered |-> cp.turns, generation |-> cp.generation]]

(* SessionState.model_context, which counts messages and not turns.        *)
FileContext(file) ==
    LET cp == Restored(file).checkpoint.context
        from == IF file.checkpoint = NoCheckpoint THEN 0 ELSE file.checkpoint[1].messages
    IN  cp \o SubSeq(file.messages, from + 1, Len(file.messages))

-----------------------------------------------------------------------------
Talk(ms) == SelectSeq(ms, LAMBDA m : ~IsAsk(m) /\ ~IsResult(m))

BatchesOf(ms) == LET all == Batches(ms)
                 IN  [n \in DOMAIN all |-> SubSeq(ms, all[n][1], all[n][2] - 1)]

(* The calls of these batches, which name them. *)
Names(ms) == [n \in DOMAIN BatchesOf(ms) |-> BatchesOf(ms)[n][1].calls]

(* Fitting a paired list keeps it paired, keeps every word of the          *)
(* conversation and the newest exchange of tools, and misses the budget    *)
(* only when nothing else could be left out (context_builder.py:309-360).  *)
FitIsSound(ms, budget) ==
    LET fit == Fit(ms, budget)
    IN  /\ Paired(fit) /\ Talk(fit) = Talk(ms)
        /\ Batches(ms) # << >> => /\ Batches(fit) # << >>
                                  /\ Last(Names(fit)) = Last(Names(ms))
        /\ Tokens(fit) > budget => /\ Len(Batches(fit)) <= 1
                                   /\ \A m \in Range(fit) : IsResult(m) => m.says = {}
        /\ Tokens(ms) <= budget => fit = ms

(* Every request of every step pairs its calls with their results, however *)
(* often the list was trimmed before, and so do the items that the         *)
(* Responses API gets; whatever the next budget is, fitting it is sound.   *)
RequestsAreSound ==
    /\ Paired(messages)
    /\ \A i \in DOMAIN turns : CompleteTurn(turns[i]) /\ Paired(turns[i])
    /\ stage = "ready" => \A b \in Budgets : FitIsSound(messages, b)
    /\ LET items == Converted(messages)
       IN  \A i \in DOMAIN items :
              items[i].kind = "call" =>
                 \E j \in (i + 1)..Len(items) :
                    /\ items[j] = Item("output", items[i].id)
                    /\ \A k \in i..j : items[k].kind \in {"call", "output"}

(* A list from anywhere is repaired into a paired one that keeps all that  *)
(* was said, and a paired list is left as it is (agent.py:99-147); the     *)
(* repaired list can then be fitted.                                       *)
RepairIsExact ==
    /\ Paired(Repair(list))
    /\ SelectSeq(Repair(list), LAMBDA m : ~IsResult(m)) = SelectSeq(list, LAMBDA m : ~IsResult(m))
    /\ Paired(list) <=> Repair(list) = list
    /\ \A b \in Budgets : FitIsSound(Repair(list), b)

(* A checkpoint is one plain assistant message; whatever the strategy, and *)
(* also when the model could not write a summary, it tells the last        *)
(* messages before the turns that stay as they are, the first checkpoint   *)
(* also the last tool results (compaction.py:663-722); the last turns stay.*)
CheckpointsTell ==
    checkpoint.covered > 0 =>
       LET old    == FlattenSeq(SubSeq(turns, 1, checkpoint.covered))
           from   == IF checkpoint.generation = 1 THEN SplitPoint(old) ELSE RecentPoint(old)
       IN  /\ Len(checkpoint.context) = 1
           /\ ~IsAsk(checkpoint.context[1]) /\ checkpoint.context[1].role = "assistant"
           /\ checkpoint.covered + PreserveTurns <= Len(turns)
           /\ Said(SubSeq(old, from, Len(old))) \subseteq Said(checkpoint.context)

(* What is saved between two turns is valid and loads as what it was, for  *)
(* the model too; and a file whose list of messages ends early, anywhere,  *)
(* is not taken for a shorter session (to_snapshot, from_snapshot).        *)
SessionsLoad ==
    stage = "idle" =>
        /\ Valid(Snapshot)
        /\ Restored(Snapshot) = [turns |-> turns, checkpoint |-> checkpoint]
        /\ FileContext(Snapshot) = ModelContext(checkpoint, << >>)
        /\ \A n \in 0..MessagesOf(Len(turns)) - 1 :
              ~Valid([Snapshot EXCEPT !.messages = SubSeq(@, 1, n)])

(* Whatever is sent, repaired or kept is paired and tells what it has to.  *)
ContextsAreSound == RequestsAreSound /\ RepairIsExact /\ CheckpointsTell /\ SessionsLoad

=============================================================================
