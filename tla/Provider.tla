------------------------------ MODULE Provider -------------------------------
(***************************************************************************)
(* One request to a model provider (llm.py): the check of its size, the    *)
(* stream of chunks that answers it, in the form of Chat Completions or of *)
(* the Responses API, the split of reasoning from what the user sees, and  *)
(* the response that is put together, or the error that is raised.         *)
(*                                                                         *)
(* Text is a sequence of symbols; the tags are made of symbols that occur  *)
(* elsewhere too, so that a chunk may end anywhere in a tag.               *)
(***************************************************************************)
EXTENDS Integers, SequencesExt, FiniteSetsExt

CONSTANTS
    Open, Close,     \* the tags <think> and </think>
    Pieces,          \* what the content is put together from
    MaxPieces,       \* bound: pieces of a content
    MaxChunk,        \* bound: symbols of a chunk
    Arguments,       \* bound: deltas of the arguments of a call
    Asked,           \* the calls of the answer, by index
    Window,          \* context window of the model
    Limits,          \* output limits that are known, and Unknown
    Inputs,          \* sizes of a request
    DefaultLimit,    \* DEFAULT_OUTPUT_LIMIT
    Errors,          \* chains of exceptions, records [status, about]
    MaxCauses,       \* how many exceptions of a chain are looked at: 8
    Unknown

ASSUME ProviderAssumption ==
    /\ {Window, DefaultLimit, Arguments, MaxPieces} \subseteq Nat /\ MaxCauses \in Nat \ {0}
    /\ Open # << >> /\ Close # << >> /\ Open # Close

VARIABLES
    request,         \* how it is made: api, folded, streamed, tokens, limit, cap
    text,            \* the content the provider sends
    sent,            \* how much of everything it has sent
    splitter,        \* what is held back, and whether it is inside a tag
    seen,            \* history: what the two callbacks were given
    got,             \* what has been accumulated
    ended            \* how the request ended

providerVars == <<request, text, sent, splitter, seen, got, ended>>

Texts == {FlattenSeq(p) : p \in UNION {[1..n -> Pieces] : n \in 0..MaxPieces}}
-----------------------------------------------------------------------------
(* Indexes at which a tag begins. *)
At(s, tag) == {i \in 1..(Len(s) - Len(tag) + 1) : SubSeq(s, i, i + Len(tag) - 1) = tag}

From(s, i) == SubSeq(s, i, Len(s))

(* A bug: every chunk is given away whole. *)
HoldsNothing(s, tag) == 0

(* The longest end of s that could still grow into the tag. *)
Held(s, tag) ==
    Max({n \in 0..(Len(tag) - 1) :
            n <= Len(s) /\ From(s, Len(s) - n + 1) = SubSeq(tag, 1, n)})

(* What a splitter that holds buf gives away, and what it then holds. *)
RECURSIVE Feed(_, _, _, _)
Feed(buf, inside, visible, hidden) ==
    LET tag  == IF inside THEN Close ELSE Open
        stop == IF At(buf, tag) = {} THEN Len(buf) - Held(buf, tag)
                ELSE Min(At(buf, tag)) - 1
        out  == SubSeq(buf, 1, stop)
        v    == IF inside THEN visible ELSE visible \o out
        h    == IF inside THEN hidden \o out ELSE hidden
    IN  IF buf = << >> \/ At(buf, tag) = {}
        THEN [visible |-> v, hidden |-> h, held |-> From(buf, stop + 1), inside |-> inside]
        ELSE Feed(From(buf, stop + Len(tag) + 1), ~inside, v, h)

(* The content without its closed tags, and what they enclosed. *)
RECURSIVE Extract(_)
Extract(s) ==
    LET open  == At(s, Open)
        close == {j \in At(s, Close) : j >= Min(open) + Len(Open)}
    IN  IF open = {} \/ close = {} THEN [visible |-> s, hidden |-> << >>]
        ELSE LET rest == Extract(From(s, Min(close) + Len(Close)))
             IN  [visible |-> SubSeq(s, 1, Min(open) - 1) \o rest.visible,
                  hidden  |-> SubSeq(s, Min(open) + Len(Open), Min(close) - 1) \o rest.hidden]

(* The content and the thinking of a response. *)
SplitContent(content, reasoning, folds) ==
    LET x == Extract(content)
    IN  IF reasoning # << >> /\ x.visible = << >> /\ folds
        THEN [content |-> reasoning, thinking |-> x.hidden]
        ELSE [content |-> x.visible, thinking |-> reasoning \o x.hidden]
-----------------------------------------------------------------------------
(* A bug: the room is that of a request without a cap. *)
ReservesDefault(r) == DefaultLimit

(* The cap a request carries: a known limit, one that was asked for, or    *)
(* none; the room that is kept for the output all the same.                *)
Reserve(r) ==
    LET wanted == IF r.cap # Unknown THEN r.cap
                  ELSE IF r.limit # Unknown THEN r.limit ELSE DefaultLimit
    IN  IF wanted < Window THEN wanted ELSE Window

CapSent(r) == IF r.cap # Unknown THEN r.cap ELSE r.limit

Overflows(r) == r.tokens > Window - Reserve(r)

Requests ==
    [api : {"chat", "responses"}, folded : BOOLEAN, tokens : Inputs,
     limit : Limits, cap : Limits]

Nothing == [text |-> 0, reasoning |-> 0, calls |-> [i \in Asked |-> 0], finish |-> Unknown]

(* Bound: the longer texts are those of the protocol whose text has tags.   *)
ProviderInit ==
    /\ request \in Requests
    /\ text \in Texts
    /\ text # << >> => request.cap = Unknown /\ request.limit = Unknown
    /\ Len(text) > Len(Close) => request.api = "chat"
    /\ sent = Nothing
    /\ splitter = [held |-> << >>, inside |-> FALSE]
    /\ seen = [visible |-> << >>, hidden |-> << >>]
    /\ got = [content |-> << >>, reasoning |-> << >>,
              calls |-> [i \in Asked |-> << >>], finish |-> Unknown]
    /\ ended = [how |-> "open"]

(* The class of a chain of exceptions: by the first status in it, or by    *)
(* the name or type of any of them, in this order.  Whatever lies deeper   *)
(* than MaxCauses does not count.                                          *)
Walked(chain) == SubSeq(chain, 1, Min({Len(chain), MaxCauses}))

Status(chain) ==
    LET with == {i \in DOMAIN chain : chain[i].status # Unknown}
    IN  IF with = {} THEN 0 ELSE chain[Min(with)].status

Kind(chain) ==
    LET status == Status(Walked(chain))
        about  == {c.about : c \in ToSet(Walked(chain))}
        tests  == << <<"auth", status \in {401, 403} \/ "authentication" \in about>>,
                     <<"rate_limit", status = 429 \/ "rate limit" \in about>>,
                     <<"timeout", "timeout" \in about>>,
                     <<"connection", "connection" \in about>>,
                     <<"server", status >= 500>>,
                     <<"invalid_request", status \in 400..499>>,
                     <<"protocol", "value" \in about>>,
                     <<"unknown", TRUE>> >>
    IN  tests[Min({i \in DOMAIN tests : tests[i][2]})][1]

(* A bug: what the consumer has seen makes no difference. *)
ForgetsOutput(chain, partial) ==
    [how |-> Kind(chain), partial |-> partial,
     retryable |-> Kind(chain) \in {"rate_limit", "timeout", "connection", "server"}]

Classify(chain, partial) ==
    [how |-> Kind(chain), partial |-> partial,
     retryable |-> ~partial /\ Kind(chain) \in {"rate_limit", "timeout", "connection", "server"}]

Streaming == ended.how = "open" /\ ~Overflows(request)

(* The request is known to be too large and is not sent. *)
Reject ==
    /\ ended.how = "open" /\ Overflows(request) /\ sent = Nothing
    /\ ended' = [how |-> "overflow", partial |-> FALSE, retryable |-> FALSE]
    /\ UNCHANGED <<request, text, sent, splitter, seen, got>>

(* Without a splitter content goes through as it is. *)
Splits == request.api = "chat" /\ ~request.folded

(* A chunk with the next n symbols of the content. *)
ContentChunk(n) ==
    LET delta == SubSeq(text, sent.text + 1, sent.text + n)
        fed   == Feed(splitter.held \o delta, splitter.inside, << >>, << >>)
    IN  /\ Streaming /\ got.finish = Unknown
        /\ n \in 1..(Len(text) - sent.text)
        /\ sent' = [sent EXCEPT !.text = @ + n]
        /\ got' = [got EXCEPT !.content = @ \o delta]
        /\ IF Splits
           THEN /\ splitter' = [held |-> fed.held, inside |-> fed.inside]
                /\ seen' = [visible |-> seen.visible \o fed.visible,
                            hidden |-> seen.hidden \o fed.hidden]
           ELSE /\ seen' = [seen EXCEPT !.visible = @ \o delta]
                /\ UNCHANGED splitter
        /\ UNCHANGED <<request, text, ended>>

(* A chunk of reasoning in a field of its own. *)
ReasoningChunk ==
    /\ Streaming /\ got.finish = Unknown /\ sent.reasoning = 0
    /\ sent' = [sent EXCEPT !.reasoning = 1]
    /\ got' = [got EXCEPT !.reasoning = Append(@, "r")]
    /\ seen' = IF request.api = "chat" /\ request.folded THEN seen
               ELSE [seen EXCEPT !.hidden = Append(@, "r")]
    /\ UNCHANGED <<request, text, splitter, ended>>

(* The next delta of a call: its id and name, then its arguments.  The     *)
(* calls are told apart by their index and may be interleaved.             *)
CallChunk(i) ==
    /\ Streaming /\ got.finish = Unknown /\ sent.calls[i] <= Arguments
    /\ sent' = [sent EXCEPT !.calls[i] = @ + 1]
    /\ got' = [got EXCEPT !.calls[i] = Append(@, sent.calls[i])]
    /\ UNCHANGED <<request, text, splitter, seen, ended>>

AllSent ==
    /\ sent.text = Len(text)
    /\ \A i \in Asked : sent.calls[i] \in {0, Arguments + 1}

(* The chunk with the reason; a provider stops at its output limit         *)
(* wherever it is.  Chunks without a choice may still follow.              *)
FinishChunk(reason) ==
    /\ Streaming /\ got.finish = Unknown
    /\ reason = "stop" => AllSent
    /\ sent' = [sent EXCEPT !.finish = reason]
    /\ got' = [got EXCEPT !.finish = reason]
    /\ UNCHANGED <<request, text, splitter, seen, ended>>

Called == {i \in Asked : got.calls[i] # << >>}

Response(content, thinking) ==
    [how |-> "answer", content |-> content, thinking |-> thinking,
     calls |-> [i \in Called |-> got.calls[i]], stop |-> got.finish]

(* The stream is over.  Without a reason nothing of it may be an answer;   *)
(* with one the splitter gives away what it holds.                         *)
ChatEnds ==
    LET shown == IF splitter.inside
                 THEN [seen EXCEPT !.hidden = @ \o splitter.held]
                 ELSE [seen EXCEPT !.visible = @ \o splitter.held]
        folds == request.folded /\ Called = {}
        split == SplitContent(got.content, got.reasoning, folds)
    IN  /\ Streaming /\ request.api = "chat" /\ got.finish # Unknown
        /\ seen' = IF folds /\ got.reasoning # << >> /\ got.content = << >>
                   THEN [shown EXCEPT !.visible = @ \o got.reasoning] ELSE shown
        /\ splitter' = [splitter EXCEPT !.held = << >>]
        /\ ended' = Response(split.content, split.thinking)
        /\ UNCHANGED <<request, text, sent, got>>

(* Only response.completed carries a response; anything else that ends a   *)
(* stream counts as a stream that was cut.                                 *)
ResponsesEnds ==
    /\ Streaming /\ request.api = "responses" /\ got.finish = "stop"
    /\ ended' = Response(got.content, got.reasoning)
    /\ UNCHANGED <<request, text, sent, splitter, seen, got>>

(* Text has reached the consumer. *)
Emitted == seen.visible # << >>

Cut ==
    /\ Streaming
    /\ IF request.api = "chat" THEN got.finish = Unknown ELSE got.finish # "stop"
    /\ ended' = [how |-> "incomplete", partial |-> Emitted, retryable |-> ~Emitted]
    /\ UNCHANGED <<request, text, sent, splitter, seen, got>>

(* The SDK raises, before or after some chunks. *)
Fail(chain) ==
    /\ Streaming
    /\ ended' = Classify(chain, Emitted)
    /\ UNCHANGED <<request, text, sent, splitter, seen, got>>

ProviderNext ==
    \/ Reject
    \/ \E n \in 1..MaxChunk : ContentChunk(n)
    \/ ReasoningChunk
    \/ \E i \in Asked : CallChunk(i)
    \/ \E reason \in {"stop", "length"} : FinishChunk(reason)
    \/ ChatEnds
    \/ ResponsesEnds
    \/ Cut
    \/ \E chain \in Errors : Fail(chain)

-----------------------------------------------------------------------------
(* What is shown of a stream does not depend on where its chunks end: at   *)
(* any time it is what the whole content received so far would show,       *)
(* without an end that may yet become a tag, and nothing is shown twice or *)
(* lost (llm.py:225-255).                                                  *)
ChunksDoNotMatter ==
    (Splits /\ sent.reasoning = 0) =>
       LET whole == Feed(SubSeq(text, 1, sent.text), FALSE, << >>, << >>)
       IN  IF ended.how = "answer"
           THEN /\ whole.inside => seen = [visible |-> whole.visible,
                                           hidden |-> whole.hidden \o whole.held]
                /\ ~whole.inside => seen = [visible |-> whole.visible \o whole.held,
                                            hidden |-> whole.hidden]
           ELSE /\ seen = [visible |-> whole.visible, hidden |-> whole.hidden]
                /\ splitter = [held |-> whole.held, inside |-> whole.inside]

(* When every tag is closed, the answer that is kept is the text that was  *)
(* shown, and the thinking is what was shown as reasoning.                 *)
AnswerIsWhatWasShown ==
    (ended.how = "answer" /\ Splits /\ ~splitter.inside) =>
        /\ ended.content = seen.visible
        /\ Len(ended.thinking) = Len(seen.hidden)

(* An answer was finished by the provider, and one that stopped by itself  *)
(* has every call with its id and its arguments whole and in order; no     *)
(* text of it is lost.  A stream without an end is never an answer.        *)
AnswersAreWhole ==
    /\ ended.how = "answer" =>
          /\ sent.finish = ended.stop /\ ended.stop # Unknown
          /\ ended.stop = "stop" =>
                \A i \in Asked : IF i \in DOMAIN ended.calls
                                 THEN ended.calls[i] = [n \in 1..(Arguments + 1) |-> n - 1]
                                 ELSE sent.calls[i] = 0
          /\ sent.reasoning > 0 =>
                Contains(ended.thinking, "r") \/ Contains(ended.content, "r")
          /\ (request.folded /\ request.api = "chat" /\ DOMAIN ended.calls = {}
                /\ sent.reasoning > 0) => ended.content # << >>
    /\ ended.how = "incomplete" => sent.finish # "stop"

(* A failure after the consumer has seen text is never retried, wrapping   *)
(* an exception in others does not change its class while the chain is     *)
(* walked to its end, and a failure that another attempt cannot mend is    *)
(* not retried (llm.py:139-195).                                           *)
FailuresAreClassified ==
    /\ ended.how \notin {"open", "answer"} =>
          /\ ended.retryable => seen.visible = << >>
          /\ ended.partial <=> seen.visible # << >>
          /\ ended.how \in {"auth", "invalid_request", "protocol", "overflow", "unknown"}
                => ~ended.retryable
    /\ \A chain \in Errors :
          chain[1] = [status |-> Unknown, about |-> "plain"] /\ Len(chain) <= MaxCauses
             => Kind(chain) = Kind(IF Len(chain) = 1 THEN chain ELSE Tail(chain))

(* What is sent has room in the window for the request and for all the     *)
(* output that its cap allows.                                             *)
SentFits ==
    ended.how = "answer" /\ CapSent(request) # Unknown
        => request.tokens + CapSent(request) <= Window
=============================================================================
