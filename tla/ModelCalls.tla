----------------------------- MODULE ModelCalls ------------------------------
(***************************************************************************)
(* What the model is sent, and what is made of what it answers.  The       *)
(* messages of a request are made by Context; Provider sees of them no     *)
(* more than their size, so that the two share no variable.  A behaviour   *)
(* shows one of them.                                                      *)
(***************************************************************************)
EXTENDS Context, Provider

VARIABLE part

vars == <<part, contextVars, providerVars>>

Init ==
    /\ part \in {"context", "provider"}
    /\ ContextInit
    /\ ProviderInit
    /\ part = "context" => /\ text = << >>
                           /\ request = [api |-> "chat", folded |-> FALSE, tokens |-> Min(Inputs),
                                         limit |-> Unknown, cap |-> Unknown]

Messaging == part = "context" /\ ContextNext /\ UNCHANGED <<part, providerVars>>
Calling == part = "provider" /\ ProviderNext /\ UNCHANGED <<part, contextVars>>

Next == Messaging \/ Calling

Spec == Init /\ [][Next]_vars
-----------------------------------------------------------------------------
(* A stream is shown the same however it is cut into chunks, and what is   *)
(* kept of it is what was shown (llm.py, _ThinkTagStreamSplitter).         *)
StreamsAreFaithful == ChunksDoNotMatter /\ AnswerIsWhatWasShown

(* What is taken for an answer was finished by the provider and is whole,  *)
(* and the request left room for it (llm.py, achat).                       *)
AnswersAreSound == AnswersAreWhole /\ SentFits

-----------------------------------------------------------------------------
(* The instance that TLC checks. *)

MCCalls == {<<"a">>, <<"a", "b">>}
MCSizes == {Small, Large}
MCBudgets == {5, 9}
MCStrategies == {"summary", "truncate", "sliding_window", "hybrid"}

MCOpen == <<"<", "t", ">">>
MCClose == <<"<", "/", "t", ">">>
MCPieces == {<<"x">>, <<"<">>, MCOpen, MCClose}

(* One exception of a chain; an error wrapped in others, in both orders.   *)
E(status, about) == [status |-> status, about |-> about]
Plain == E(Unknown, "plain")
MCErrors ==
    {<<Plain>>, <<Plain, E(401, "plain")>>, <<Plain, E(Unknown, "rate limit")>>,
     <<E(503, "plain")>>, <<E(400, "value"), E(429, "plain")>>,
     <<Plain, Plain, E(Unknown, "value")>>, <<Plain, Plain, Plain, E(429, "plain")>>,
     <<E(Unknown, "connection"), E(Unknown, "timeout")>>,
     <<E(Unknown, "authentication"), E(500, "plain")>>}

=============================================================================
