------------------------------ MODULE Messages -------------------------------
(***************************************************************************)
(* Lists of chat messages and what the agent does to them before a request *)
(* (agent.py, context_builder.py), when a turn is committed                *)
(* (session_state.py), when old turns become a checkpoint (compaction.py)  *)
(* and for the Responses API (llm.py).                                     *)
(*                                                                         *)
(* A message is a record: its role, the ids of its tool calls, the id of   *)
(* the call a tool result answers, its size in tokens, and says, the set   *)
(* of things that its text tells.  Text itself is not modelled.            *)
(***************************************************************************)
LOCAL INSTANCE Naturals
LOCAL INSTANCE SequencesExt
LOCAL INSTANCE FiniteSetsExt
LOCAL INSTANCE Functions

CONSTANTS
    Large,           \* size of a tool result of more than 1200 characters
    Excerpt,         \* size of its head and tail, still above the limit
    Small,           \* size of any other message, and of a placeholder
    PreserveLast,    \* CompactionConfig.preserve_last
    MaxToolResults,  \* CompactionConfig.max_tool_results
    TargetTokens,    \* SmartCompactor.target_tokens
    NoId             \* the tool_call_id of a message that is no tool result

ASSUME MessageAssumption ==
    /\ {Large, Excerpt, Small, PreserveLast} \subseteq Nat \ {0}
    /\ {MaxToolResults, TargetTokens} \subseteq Nat
    /\ Small < Excerpt /\ Excerpt < Large

Message(role, calls, id, size, says) ==
    [role |-> role, calls |-> calls, id |-> id, size |-> size, says |-> says]

User(what) == Message("user", << >>, NoId, Small, {what})
Answer(size, says) == Message("assistant", << >>, NoId, size, says)
Asks(calls) == Message("assistant", calls, NoId, Small, {})
Result(id, size, says) == Message("tool", << >>, id, size, says)

IsAsk(m) == m.role = "assistant" /\ m.calls # << >>
IsResult(m) == m.role = "tool"

Tokens(ms) == FoldLeft(LAMBDA sum, m : sum + m.size, 0, ms)

Said(ms) == UNION {m.says : m \in Range(ms)}
-----------------------------------------------------------------------------
(* A result for a call that got none. *)
Synthesized(id) == Result(id, Small, {})

Flushed(st) ==
    [done |-> st.done \o [i \in DOMAIN st.pending |-> Synthesized(st.pending[i])],
     pending |-> << >>]

(* A bug: a call that was answered counts as pending still. *)
AnsweredStaysPending(st, m) ==
    IF IsResult(m)
    THEN IF Contains(st.pending, m.id) THEN [st EXCEPT !.done = Append(@, m)] ELSE st
    ELSE [done |-> Append(Flushed(st).done, m), pending |-> m.calls]

RepairOne(st, m) ==
    IF IsResult(m)
    THEN IF Contains(st.pending, m.id)
         THEN [done |-> Append(st.done, m), pending |-> RemoveFirst(st.pending, m.id)]
         ELSE st
    ELSE [done |-> Append(Flushed(st).done, m), pending |-> m.calls]

(* Calls without a result get one, results without a call are dropped. *)
Repair(ms) == Flushed(FoldLeft(RepairOne, [done |-> << >>, pending |-> << >>], ms)).done

(* Reference: every message with n calls is followed by the n results of   *)
(* these calls, in some order, and there is no other result.               *)
Ids(ms) == [i \in DOMAIN ms |-> ms[i].id]
Multiset(s) == [x \in Range(s) |-> Quantify(DOMAIN s, LAMBDA i : s[i] = x)]
Answers(ms, i) == SubSeq(ms, i + 1, i + Len(ms[i].calls))

Paired(ms) ==
    /\ \A i \in DOMAIN ms :
          IsAsk(ms[i]) => /\ i + Len(ms[i].calls) <= Len(ms)
                          /\ \A m \in Range(Answers(ms, i)) : IsResult(m)
                          /\ Multiset(Ids(Answers(ms, i))) = Multiset(ms[i].calls)
    /\ \A j \in DOMAIN ms :
          IsResult(ms[j]) => \E i \in 1..(j - 1) : /\ IsAsk(ms[i])
                                                   /\ j <= i + Len(ms[i].calls)
-----------------------------------------------------------------------------
(* The batches from index i on: <<first, after last>> of each call message *)
(* whose results all follow it.                                            *)
BatchEnd(ms, i) ==
    Min({j \in (i + 1)..(Len(ms) + 1) : j = Len(ms) + 1 \/ ~IsResult(ms[j])})

Batches(ms) ==
    LET starts == {i \in DOMAIN ms :
                      /\ IsAsk(ms[i])
                      /\ Range(ms[i].calls) \subseteq
                            {ms[j].id : j \in (i + 1)..(BatchEnd(ms, i) - 1)}}
    IN  SetToSortSeq({<<i, BatchEnd(ms, i)>> : i \in starts}, LAMBDA x, y : x[1] < y[1])

(* The first k results that are large enough are cut to their excerpt. *)
Shortened(ms, k) ==
    [i \in DOMAIN ms |->
        IF /\ IsResult(ms[i]) /\ ms[i].size > Small
           /\ Quantify(1..i, LAMBDA j : IsResult(ms[j]) /\ ms[j].size > Small) <= k
        THEN [ms[i] EXCEPT !.size = Excerpt] ELSE ms[i]]

(* Without the k batches of all before the newest one, the latest first. *)
WithoutBatches(ms, all, k) ==
    LET gone == UNION {all[n][1]..(all[n][2] - 1) : n \in (Len(all) - k)..(Len(all) - 1)}
    IN  FoldLeftDomain(LAMBDA kept, i : IF i \in gone THEN kept ELSE Append(kept, ms[i]),
                       << >>, ms)

Omitted(ms) ==
    [i \in DOMAIN ms |-> IF IsResult(ms[i]) THEN [ms[i] EXCEPT !.size = Small, !.says = {}]
                         ELSE ms[i]]

(* The list that a request with this budget carries. *)
Fit(ms, budget) ==
    LET large  == Quantify(DOMAIN ms, LAMBDA i : IsResult(ms[i]) /\ ms[i].size > Small)
        short  == {k \in 1..large : Tokens(Shortened(ms, k)) <= budget}
        most   == Shortened(ms, large)
        all    == Batches(ms)
        others == IF all = << >> THEN 0 ELSE Len(all) - 1
        fewer  == {k \in 1..others : Tokens(WithoutBatches(most, all, k)) <= budget}
    IN  CASE Tokens(ms) <= budget -> Repair(ms)
          [] Tokens(ms) > budget /\ short # {} -> Shortened(ms, Min(short))
          [] Tokens(ms) > budget /\ short = {} /\ fewer # {} -> WithoutBatches(most, all, Min(fewer))
          [] OTHER -> Repair(Omitted(WithoutBatches(most, all, others)))
-----------------------------------------------------------------------------
(* A turn that may be committed. *)
CompleteTurn(ms) ==
    /\ Len(ms) >= 2 /\ ms[1].role = "user"
    /\ Last(ms).role = "assistant" /\ Last(ms).calls = << >>
    /\ \A i \in 2..(Len(ms) - 1) :
          \/ /\ IsAsk(ms[i])
             /\ IsInjective(ms[i].calls)
             /\ i + Len(ms[i].calls) < Len(ms)
             /\ \A m \in Range(Answers(ms, i)) : IsResult(m)
             /\ Ids(Answers(ms, i)) = ms[i].calls
          \/ /\ IsResult(ms[i])
             /\ \E j \in 2..(i - 1) : IsAsk(ms[j]) /\ i <= j + Len(ms[j].calls)

(* Where the last PreserveLast messages of the two speakers begin, and     *)
(* where the messages that a compaction preserves begin.                   *)
RecentPoint(ms) ==
    LET talk   == {i \in DOMAIN ms : ms[i].role \in {"user", "assistant"}}
        recent == {i \in talk : Quantify(talk, LAMBDA j : j >= i) = PreserveLast}
    IN  IF recent = {} THEN Len(ms) + 1 ELSE Min(recent)

SplitPoint(ms) ==
    LET first  == RecentPoint(ms)
        tools  == {i \in 1..(first - 1) : /\ IsResult(ms[i])
                                          /\ Quantify(i..(first - 1), LAMBDA j : IsResult(ms[j]))
                                                <= MaxToolResults}
    IN  Min(tools \union {first})

Note == Answer(Small, {})

(* The strategies; a summary tells what the model chose to keep of it. *)
Truncated(ms) ==
    IF Len(ms) <= 4 THEN ms
    ELSE SubSeq(ms, 1, 2) \o <<Note>> \o SubSeq(ms, Len(ms) - 1, Len(ms))

Newest(ms, target) ==
    LET fits == {k \in 0..Len(ms) : Tokens(SubSeq(ms, Len(ms) - k + 1, Len(ms))) <= target}
    IN  SubSeq(ms, Len(ms) - Max(fits) + 1, Len(ms))

Windowed(ms) ==
    LET kept == Newest(ms, TargetTokens) IN IF kept = ms THEN kept ELSE <<Note>> \o kept

Hybrid(ms) ==
    LET kept == Newest(ms, TargetTokens \div 2)
    IN  IF kept = ms THEN kept ELSE <<Note>> \o kept

(* What stands for the messages to compact; the model may fail to answer. *)
Replacement(ms, strategy, fails) ==
    CASE strategy = "truncate" \/ (strategy = "summary" /\ fails) -> Truncated(ms)
      [] strategy = "sliding_window" -> Windowed(ms)
      [] strategy = "hybrid" -> Hybrid(ms)
      [] OTHER -> <<Note>>

Compacted(ms, strategy, fails) ==
    LET cut == SplitPoint(ms)
    IN  IF cut = 1 THEN ms
        ELSE Replacement(SubSeq(ms, 1, cut - 1), strategy, fails) \o SubSeq(ms, cut, Len(ms))

(* One assistant message that no request can reject. *)
Checkpoint(ms, strategy, fails) ==
    LET compacted == Compacted(ms, strategy, fails)
    IN  IF compacted = << >> \/ (Len(compacted) = 1 /\ compacted[1].role = "assistant"
                                                     /\ ~IsAsk(compacted[1]))
        THEN compacted
        ELSE <<Answer(Small + Tokens(compacted), Said(compacted))>>
-----------------------------------------------------------------------------
(* The input items of the Responses API. *)
Item(kind, id) == [kind |-> kind, id |-> id]

Converted(ms) ==
    FlattenSeq([i \in DOMAIN ms |->
        CASE IsResult(ms[i]) -> <<Item("output", ms[i].id)>>
          [] IsAsk(ms[i]) ->
                (IF ms[i].says = {} THEN << >> ELSE <<Item("assistant", NoId)>>)
                \o [c \in DOMAIN ms[i].calls |-> Item("call", ms[i].calls[c])]
          [] OTHER -> <<Item(ms[i].role, NoId)>>])
=============================================================================
