------------------------------ MODULE HttpClient ------------------------------
(***************************************************************************)
(* The client of the REST interface (client/http_client.py).  A request is *)
(* repeated when it times out, when no connection can be made and when the *)
(* answer cannot be read, whether or not the server has carried it out; a  *)
(* prompt is sent once.  Of the server there is what a request changes.    *)
(***************************************************************************)
EXTENDS Naturals, Sequences, FiniteSets, SequencesExt

CONSTANTS
    Names,        \* ids a caller asks for
    Anonymous,    \* no id: the server makes one
    Attempts,     \* retry_attempts
    Stream,       \* the lines of a streamed turn
    MaxRequests,  \* bound: calls of the client
    MaxSlips,     \* bound: requests and answers that get lost
    MaxTurns      \* bound: turns

ASSUME HttpAssumption ==
    /\ Attempts \in Nat \ {0} /\ {MaxRequests, MaxSlips, MaxTurns} \subseteq Nat
    /\ Anonymous \notin Names

VARIABLES
    link,         \* _client: "none" or "open"
    alive,        \* the server's sessions: ids, and numbers where it made the id
    made,         \* history: how many sessions each call has made
    turn,         \* the turn that runs in a session, 0 if none
    turns,        \* how many turns there were
    request,      \* the call of the client
    shown,        \* the chunks of a stream
    result,       \* what the last call got
    struck,       \* history: the turns the call has started or cancelled
    requests, slips

httpVars == <<link, alive, made, turn, turns, request, shown, result, struck, requests, slips>>

Kinds == {"create", "get", "delete", "cancel"}

NoRequest == [kind |-> "none", id |-> Anonymous, tries |-> 0, heard |-> 0, step |-> "idle"]

HttpInit ==
    /\ link = "none" /\ alive = {} /\ made = 0
    /\ turn = [n \in Names |-> 0] /\ turns = 0
    /\ request = NoRequest /\ shown = << >> /\ result = "nothing"
    /\ struck = {} /\ requests = 0 /\ slips = 0

serverVars == <<alive, made, turn, turns, struck>>
callVars == <<request, shown, result, requests>>

-----------------------------------------------------------------------------
(* The connection *)

(* connect() makes the client and asks for the server's health; without an *)
(* answer it is closed again.                                              *)
Dial ==
    /\ request.step = "idle" /\ link = "none"
    /\ \/ link' = "open" /\ UNCHANGED slips
       \/ slips < MaxSlips /\ slips' = slips + 1 /\ UNCHANGED link
    /\ UNCHANGED <<serverVars, callVars>>

-----------------------------------------------------------------------------
(* Calls that are repeated *)

Ask(kind, id) ==
    /\ request.step = "idle" /\ requests < MaxRequests
    /\ requests' = requests + 1
    /\ IF link = "none"
       THEN result' = "not connected" /\ UNCHANGED request
       ELSE /\ request' = [kind |-> kind, id |-> id, tries |-> 1, heard |-> 0, step |-> "send"]
            /\ result' = "nothing"
    /\ shown' = << >> /\ struck' = {} /\ made' = 0
    /\ UNCHANGED <<link, alive, turn, turns, slips>>

(* What the server does with it, and answers.                              *)
Served(kind, id) ==
    CASE kind = "create" /\ id \notin alive -> "ok"
      [] kind = "create" -> "error"
      [] id \notin alive -> "not found"
      [] OTHER -> "ok"

Carried(kind, id) ==
    /\ alive' = CASE kind = "create" /\ id # Anonymous -> alive \cup {id}
                  [] kind = "delete" -> alive \ {id}
                  [] OTHER -> alive
    /\ made' = IF kind = "create" /\ Served(kind, id) = "ok" THEN made + 1 ELSE made
    /\ turn' = IF kind \in {"delete", "cancel"} /\ id \in alive THEN [turn EXCEPT ![id] = 0] ELSE turn
    /\ struck' = IF kind \in {"delete", "cancel"} /\ id \in alive /\ turn[id] # 0
                 THEN struck \cup {turn[id]} ELSE struck

Return(with) ==
    /\ request' = [request EXCEPT !.step = "idle"] /\ result' = with

(* The last attempt raises, every other one is followed by the next.       *)
Again(error) ==
    IF request.tries >= Attempts THEN Return(error)
    ELSE request' = [request EXCEPT !.tries = @ + 1] /\ UNCHANGED result

(* Mutant: a prompt is repeated like everything else. *)
Everything == Kinds \cup {"prompt", "stream"}

Repeated == Kinds

Lost(error) ==
    /\ slips < MaxSlips /\ slips' = slips + 1
    /\ IF request.kind \in Repeated THEN Again(error) ELSE Return(error)

Exchange ==
    /\ request.step = "send" /\ request.kind \in Kinds /\ link = "open"
    /\ \/ /\ Carried(request.kind, request.id)
          /\ \/ Return(Served(request.kind, request.id)) /\ UNCHANGED slips
             \/ Lost("timeout")
       \/ Lost("timeout") /\ UNCHANGED <<alive, made, turn, struck>>
       \/ Lost("no connection") /\ UNCHANGED <<alive, made, turn, struck>>
    /\ UNCHANGED <<link, turns, shown, requests>>

(* close(), and what it does to a call that is under way.                  *)
HangUp ==
    /\ link = "open" /\ link' = "none"
    /\ IF request.step = "idle" THEN UNCHANGED <<request, result>> ELSE Return("error")
    /\ \/ request.step = "send" /\ request.kind \in Kinds /\ Carried(request.kind, request.id)
       \/ UNCHANGED <<alive, made, turn, struck>>
    /\ UNCHANGED <<turns, shown, requests, slips>>

-----------------------------------------------------------------------------
(* Prompts *)

(* The server runs one turn for every prompt that reaches it, when the     *)
(* turns before it have ended.                                             *)
Reach(id) ==
    /\ turns < MaxTurns /\ turns' = turns + 1
    /\ turn' = [turn EXCEPT ![id] = turns + 1]
    /\ struck' = struck \cup {turns + 1}

SendPrompt ==
    /\ request.step = "send" /\ request.kind \in {"prompt", "stream"} /\ link = "open"
    /\ \/ /\ request.id \notin alive
          /\ Return("not found")
          /\ UNCHANGED <<turn, turns, struck, slips>>
       \/ /\ request.id \in alive /\ turn[request.id] = 0 /\ Reach(request.id)
          /\ \/ request' = [request EXCEPT !.step = "wait"] /\ UNCHANGED <<result, slips>>
             \/ Lost("timeout")
       \/ Lost("no connection") /\ UNCHANGED <<turn, turns, struck>>
    /\ UNCHANGED <<link, alive, made, shown, requests>>

(* A whole answer, or a timeout while the turn goes on.                    *)
WholeAnswer ==
    /\ request.step = "wait" /\ request.kind = "prompt"
    /\ \/ /\ link = "open"
          /\ turn' = [turn EXCEPT ![request.id] = 0]
          /\ Return("answer") /\ UNCHANGED slips
       \/ Lost("timeout") /\ UNCHANGED turn
    /\ UNCHANGED <<link, alive, made, turns, shown, struck, requests>>

(* The next line of a stream becomes a chunk; the last says that it is     *)
(* done, and a line of no known type is left out.                          *)
Chunk(line) == IF line = "noise" THEN << >> ELSE <<line>>

Ends(line) == line \in {"complete", "error"}

NextLine ==
    /\ request.step = "wait" /\ request.kind = "stream"
    /\ \/ /\ link = "open" /\ request.heard < Len(Stream)
          /\ shown' = shown \o Chunk(Stream[request.heard + 1])
          /\ IF Ends(Stream[request.heard + 1])
             THEN Return("end") /\ turn' = [turn EXCEPT ![request.id] = 0]
             ELSE request' = [request EXCEPT !.heard = @ + 1] /\ UNCHANGED <<result, turn>>
          /\ UNCHANGED slips
       \/ /\ slips < MaxSlips /\ slips' = slips + 1
          /\ Return("stream failed") /\ UNCHANGED <<shown, turn>>
       \/ /\ request.heard = Len(Stream)
          /\ Return("end") /\ turn' = [turn EXCEPT ![request.id] = 0] /\ UNCHANGED <<shown, slips>>
    /\ UNCHANGED <<link, alive, made, turns, struck, requests>>

(* Others: a turn ends, and another begins.                                *)
TurnPasses ==
    \E n \in alive :
       /\ \/ turn' = [turn EXCEPT ![n] = 0] /\ turn[n] # 0 /\ UNCHANGED turns
          \/ /\ turns < MaxTurns /\ turns' = turns + 1
             /\ turn' = [turn EXCEPT ![n] = turns + 1]
       /\ request.step # "wait"
    /\ UNCHANGED <<link, alive, made, struck, callVars, slips>>

HttpNext ==
    \/ Dial \/ HangUp
    \/ \E kind \in Kinds \cup {"prompt", "stream"}, id \in Names \cup {Anonymous} :
          (id = Anonymous => kind = "create") /\ Ask(kind, id)
    \/ Exchange \/ SendPrompt \/ WholeAnswer \/ NextLine \/ TurnPasses

-----------------------------------------------------------------------------
(* Properties *)

Returned(what) == request.step = "idle" /\ result \in what

(* A call of prompt() starts no more than one turn, whatever gets lost.    *)
PromptedOnce == request.kind \in {"prompt", "stream"} => Cardinality(struck) <= 1

(* However often it is repeated, a call that names its session makes no    *)
(* second one, and a call that was answered did what it says.              *)
RepeatsAreSafe ==
    /\ (request.kind = "create" /\ request.id # Anonymous) => made <= 1
    /\ (request.kind = "create" /\ Returned({"ok"})) => made >= 1
    /\ (request.kind = "delete" /\ Returned({"ok", "not found"})) => request.id \notin alive

(* A stream shows its lines in order, and ends without an error only when  *)
(* all of them, up to the one that says so, have been shown.               *)
StreamIsWhole ==
    LET lines == SelectSeq(Stream, LAMBDA l : l # "noise")
        last  == {i \in DOMAIN lines : Ends(lines[i])}
    IN  /\ IsPrefix(shown, lines)
        /\ Returned({"end"}) => Len(shown) = IF last = {} THEN Len(lines)
                                             ELSE CHOOSE i \in last : \A j \in last : i <= j

HttpIsSound == PromptedOnce /\ RepeatsAreSafe /\ StreamIsWhole

=============================================================================
