---------------------------- MODULE Connections ------------------------------
(***************************************************************************)
(* The WebSocket connections of a session, from the events and answers the *)
(* server sends to the frames a client reads: ConnectionManager,           *)
(* websocket_endpoint and handle_prompt (server/websocket.py), the events  *)
(* broadcast through it (server/event_bridge.py), and WebSocketClient at   *)
(* the other end (client/ws_client.py).                                    *)
(*                                                                         *)
(* Per connection there are the endpoint task that reads requests, at most *)
(* one prompt task, and the writer, the only task that writes the socket.  *)
(* Whoever sends puts a message with a future into the bounded queue of    *)
(* the connection and waits for the future.  The sockets buffer a bounded  *)
(* number of messages and may break at any time.                           *)
(***************************************************************************)
EXTENDS Naturals, Sequences, SequencesExt

CONSTANTS
    Conns,       \* connections to one session; each connects once
    Talkers,     \* bound: the connections whose client does more than read
    Emitters,    \* tasks that each send one event to the session
    MaxQueue,    \* capacity of a connection's send queue (64 in the code)
    MaxWire,     \* bound: messages the two sockets hold
    MaxStream,   \* capacity of a client's stream queue (256 in the code)
    Frames,      \* bound: frames of a prompt, the last one "complete"
    None

ASSUME BoundsAssumption ==
    {MaxQueue, MaxWire, MaxStream, Frames} \subseteq Nat \ {0}

VARIABLES
    session,    \* ConnectionManager._connections[session_id]
    known,      \* the keys of _states
    closed,     \* the connections with _ConnectionState.closed
    sendQueue,  \* _ConnectionState.queue: messages and who waits for them
    writer,     \* the state of the writer task
    current,    \* the message the writer is writing
    future,     \* how the message a task sent last fares
    emitter,    \* the emitters: what they do, and where in the list they are
    endpoint,   \* websocket_endpoint of each connection
    prompt,     \* handle_prompt of each connection: kind, frames sent
    net,        \* whether the socket is up
    inbound,    \* requests on their way to the endpoint
    wire,       \* messages on their way to the client
    client      \* WebSocketClient

connections == <<session, known, closed, sendQueue, writer, current>>
server  == <<connections, future>>
tasks   == <<emitter, endpoint, prompt>>
sockets == <<net, inbound, wire>>
vars    == <<server, tasks, sockets, client>>

(* The tasks that send: emitters, endpoints and prompt tasks. *)
End(c) == <<"endpoint", c>>

Pro(c) == <<"prompt", c>>

Senders == Emitters \cup {End(c) : c \in Conns} \cup {Pro(c) : c \in Conns}

ASSUME TasksAssumption ==
    /\ None \notin Senders
    /\ \A c \in Conns : {End(c), Pro(c)} \cap Emitters = {}

LiveWriter == {"waiting", "writing", "closing", "cancelling"}

Msg(kind, by, n) == [kind |-> kind, by |-> by, n |-> n]

NoMsg == Msg("none", None, 0)

Init ==
    /\ session = << >>
    /\ known = {}
    /\ closed = {}
    /\ sendQueue = [c \in Conns |-> << >>]
    /\ writer = [c \in Conns |-> "none"]
    /\ current = [c \in Conns |-> NoMsg]
    /\ future = [t \in Senders |-> "none"]
    /\ emitter = [e \in Emitters |-> [at |-> "idle", pos |-> 0, due |-> {}]]
    /\ endpoint = [c \in Conns |-> "none"]
    /\ prompt = [c \in Conns |-> [at |-> "none", kind |-> "frames", n |-> 0]]
    /\ net = [c \in Conns |-> "up"]
    /\ inbound = [c \in Conns |-> << >>]
    /\ wire = [c \in Conns |-> << >>]
    /\ client = [c \in Conns |->
                   [loop |-> "none", first |-> "none", ping |-> "none",
                    stream |-> "none", frames |-> << >>, got |-> << >>,
                    overflowed |-> FALSE]]

-----------------------------------------------------------------------------
(* Sending *)

Resolve(ts, how) ==
    [t \in Senders |-> IF t \in ts /\ future[t] = "pending" THEN how ELSE future[t]]

Waiters(c) == {sendQueue[c][i].by : i \in DOMAIN sendQueue[c]}

(* writer.cancel() *)
CancelWriter(c) ==
    writer' = [writer EXCEPT ![c] = IF @ \in LiveWriter THEN "cancelling" ELSE @]

Full(c) == Len(sendQueue[c]) >= MaxQueue

(* send(): a connection that is gone or closed refuses; a full queue makes *)
(* the sender shut the connection down, and wait for its writer.           *)
Send(t, c, kind, n) ==
    \/ /\ c \notin known \/ c \in closed
       /\ future' = [future EXCEPT ![t] = "failed"]
       /\ UNCHANGED <<sendQueue, closed, writer>>
    \/ /\ c \in known /\ c \notin closed
       /\ Full(c)
       /\ future' = [future EXCEPT ![t] = "shutting"]
       /\ closed' = closed \cup {c}
       /\ CancelWriter(c)
       /\ UNCHANGED sendQueue
    \/ /\ c \in known /\ c \notin closed
       /\ ~Full(c)
       /\ future' = [future EXCEPT ![t] = "pending"]
       /\ sendQueue' = [sendQueue EXCEPT ![c] = Append(@, Msg(kind, t, n))]
       /\ UNCHANGED <<closed, writer>>

Resolved(t) == future[t] \in {"none", "sent", "failed"}

(* The end of _shutdown_connection for a slow consumer: the writer is      *)
(* done, what is queued fails, and the socket is closed.                   *)
SlowConsumerShut(t, c) ==
    /\ future[t] = "shutting"
    /\ c \in closed
    /\ writer[c] = "done"
    /\ future' = [Resolve(Waiters(c), "failed") EXCEPT ![t] = "failed"]
    /\ sendQueue' = [sendQueue EXCEPT ![c] = << >>]
    /\ net' = [net EXCEPT ![c] = "down"]
    /\ UNCHANGED <<session, known, closed, writer, current, tasks, inbound, wire, client>>

-----------------------------------------------------------------------------
(* The writer: _write_messages *)

WriterTake(c) ==
    /\ writer[c] = "waiting"
    /\ sendQueue[c] # << >>
    /\ writer' = [writer EXCEPT ![c] = "writing"]
    /\ current' = [current EXCEPT ![c] = Head(sendQueue[c])]
    /\ sendQueue' = [sendQueue EXCEPT ![c] = Tail(@)]
    /\ UNCHANGED <<session, known, closed, future, tasks, sockets, client>>

WriterSent(c) ==
    /\ writer[c] = "writing"
    /\ net[c] = "up"
    /\ Len(wire[c]) < MaxWire
    /\ wire' = [wire EXCEPT ![c] = Append(@, current[c])]
    /\ future' = Resolve({current[c].by}, "sent")
    /\ current' = [current EXCEPT ![c] = NoMsg]
    /\ writer' = [writer EXCEPT ![c] = "waiting"]
    /\ UNCHANGED <<session, known, closed, sendQueue, tasks, net, inbound, client>>

(* The write fails: the sender is told, and the writer closes the socket.  *)
WriterFails(c) ==
    /\ writer[c] = "writing"
    /\ net[c] = "down"
    /\ future' = Resolve({current[c].by}, "failed")
    /\ current' = [current EXCEPT ![c] = NoMsg]
    /\ writer' = [writer EXCEPT ![c] = "closing"]
    /\ UNCHANGED <<session, known, closed, sendQueue, tasks, sockets, client>>

(* Mutant: what is still queued when the writer ends keeps waiting. *)
LeaveQueued(c, how) ==
    /\ future' = Resolve({current[c].by}, how)
    /\ UNCHANGED sendQueue

(* The "finally" of the writer fails what is queued; how the message being *)
(* written ends depends on why the writer stops.                           *)
FailQueued(c, how) ==
    /\ future' = [t \in Senders |->
                    IF future[t] # "pending" THEN future[t]
                    ELSE IF t = current[c].by THEN how
                    ELSE IF t \in Waiters(c) THEN "failed" ELSE "pending"]
    /\ sendQueue' = [sendQueue EXCEPT ![c] = << >>]

WriterClosed(c) ==
    /\ writer[c] = "closing"
    /\ closed' = closed \cup {c}
    /\ FailQueued(c, "failed")
    /\ writer' = [writer EXCEPT ![c] = "done"]
    /\ UNCHANGED <<session, known, current, tasks, sockets, client>>

(* Cancelled in the middle of a message, the writer cancels the future its *)
(* sender waits for, which ends the sender as if it had been cancelled.    *)
WriterCancelled(c) ==
    /\ writer[c] = "cancelling"
    /\ FailQueued(c, "cancelled")
    /\ current' = [current EXCEPT ![c] = NoMsg]
    /\ writer' = [writer EXCEPT ![c] = "done"]
    /\ UNCHANGED <<session, known, closed, tasks, sockets, client>>

-----------------------------------------------------------------------------
(* Events to the session: _broadcast_event and send_to_session *)

(* The emitter takes the list of connections itself, not a copy, and goes  *)
(* from position to position while others change it.  "due" is a history:  *)
(* the connections of the list that are still to come.                     *)
EmitNext(e) ==
    /\ emitter[e].at \in {"idle", "sending"}
    /\ Resolved(e)
    /\ emitter[e].pos < Len(session)
    /\ emitter[e].at = "sending" => emitter[e].pos > 0
    /\ Send(e, session[emitter[e].pos + 1], "event", 0)
    /\ emitter' = [emitter EXCEPT
                      ![e].at = "sending", ![e].pos = @ + 1,
                      ![e].due = (IF emitter[e].at = "idle" THEN Range(session) ELSE @)
                                    \ {session[emitter[e].pos + 1]}]
    /\ UNCHANGED <<session, known, current, endpoint, prompt, sockets, client>>

(* Past the end of the list, or of a list that was emptied and dropped.    *)
AllPassed(e) == emitter[e].pos = 0 \/ emitter[e].pos >= Len(session)

EmitDone(e) ==
    /\ emitter[e].at = "sending"
    /\ Resolved(e)
    /\ AllPassed(e)
    /\ emitter' = [emitter EXCEPT ![e].at = "done"]
    /\ future' = [future EXCEPT ![e] = "none"]
    /\ UNCHANGED <<connections, endpoint, prompt, sockets, client>>

(* _send_message suppresses Exception, and CancelledError is none. *)
EmitAborted(e) ==
    /\ emitter[e].at = "sending"
    /\ future[e] = "cancelled"
    /\ emitter' = [emitter EXCEPT ![e].at = "aborted"]
    /\ future' = [future EXCEPT ![e] = "none"]
    /\ UNCHANGED <<connections, endpoint, prompt, sockets, client>>

-----------------------------------------------------------------------------
(* The endpoint *)

(* connect() queues the "connected" event in the step that registers.      *)
FirstMessage(c) ==
    /\ sendQueue' = [sendQueue EXCEPT ![c] = <<Msg("connected", End(c), 0)>>]
    /\ future' = [future EXCEPT ![End(c)] = "pending"]

Connect(c) ==
    /\ endpoint[c] = "none"
    /\ known' = known \cup {c}
    /\ session' = Append(session, c)
    /\ writer' = [writer EXCEPT ![c] = "waiting"]
    /\ FirstMessage(c)
    /\ endpoint' = [endpoint EXCEPT ![c] = "connecting"]
    /\ client' = [client EXCEPT ![c].loop = "on"]
    /\ UNCHANGED <<closed, current, emitter, prompt, sockets>>

(* connect() passes over a failure; a cancelled future ends the endpoint   *)
(* before its "try", and nobody removes the connection.                    *)
Connected(c) ==
    /\ endpoint[c] = "connecting"
    /\ future[End(c)] \in {"sent", "failed", "cancelled"}
    /\ endpoint' = [endpoint EXCEPT ![c] =
                      IF future[End(c)] = "cancelled" THEN "gone" ELSE "reading"]
    /\ future' = [future EXCEPT ![End(c)] = "none"]
    /\ UNCHANGED <<connections, emitter, prompt, sockets, client>>

ReceivePing(c) ==
    /\ endpoint[c] = "reading"
    /\ inbound[c] # << >> /\ Head(inbound[c]) = "ping"
    /\ inbound' = [inbound EXCEPT ![c] = Tail(@)]
    /\ Send(End(c), c, "pong", 0)
    /\ endpoint' = [endpoint EXCEPT ![c] = "answering"]
    /\ UNCHANGED <<session, known, current, emitter, prompt, net, wire, client>>

PromptDone == [at |-> "done", kind |-> "frames", n |-> 0]

(* The prompt task runs beside the endpoint.  Its prompt leads to a turn   *)
(* whose frames it relays, or to an error frame, or, when the agent was    *)
(* closed in the meantime, to nothing: RuntimeClosedError is a             *)
(* RuntimeError, and that one is taken for a lost connection.              *)
ReceivePrompt(c) ==
    /\ endpoint[c] = "reading"
    /\ inbound[c] # << >> /\ Head(inbound[c]) = "prompt"
    /\ inbound' = [inbound EXCEPT ![c] = Tail(@)]
    /\ \E kind \in {"frames", "error", "silent"} :
         prompt' = [prompt EXCEPT ![c] =
                      IF kind = "silent" THEN PromptDone
                      ELSE [at |-> "running", kind |-> kind, n |-> 0]]
    /\ UNCHANGED <<server, emitter, endpoint, net, wire, client>>

Answered(c) ==
    /\ endpoint[c] = "answering"
    /\ future[End(c)] \in {"sent", "failed", "cancelled"}
    /\ endpoint' = [endpoint EXCEPT ![c] =
                      IF future[End(c)] = "sent" THEN "reading" ELSE "ending"]
    /\ future' = [future EXCEPT ![End(c)] = "none"]
    /\ UNCHANGED <<connections, emitter, prompt, sockets, client>>

(* receive_json raises WebSocketDisconnect. *)
Disconnected(c) ==
    /\ endpoint[c] = "reading"
    /\ net[c] = "down"
    /\ inbound[c] = << >>
    /\ endpoint' = [endpoint EXCEPT ![c] = "ending"]
    /\ UNCHANGED <<server, emitter, prompt, sockets, client>>

(* The prompt task is cancelled and waited for.  If it waits for a message *)
(* its future is gone with it and the writer leaves it alone.              *)
CancelPrompt(c) ==
    /\ endpoint[c] = "ending"
    /\ prompt[c].at = "running"
    /\ prompt' = [prompt EXCEPT ![c] = PromptDone]
    /\ future' = [future EXCEPT ![Pro(c)] = "none"]
    /\ UNCHANGED <<session, known, closed, sendQueue, writer, current, emitter,
                   endpoint, sockets, client>>

(* What a removal does to an emitter on its way through the list: if it    *)
(* has passed that position, the next connection moves up under it and is  *)
(* passed over; an emptied list is dropped.                                *)
Shifted(em, c) ==
    LET i     == IF c \in Range(session)
                 THEN CHOOSE k \in DOMAIN session : session[k] = c ELSE Len(session) + 1
        moved == IF i <= em.pos /\ em.pos < Len(session) THEN {session[em.pos + 1]} ELSE {}
    IN  [em EXCEPT !.due = @ \ (moved \cup {c}),
                   !.pos = IF Range(session) \subseteq {c} THEN 0 ELSE @]

(* disconnect(): out of the list and the states, then                      *)
(* _shutdown_connection.                                                   *)
Disconnect(c) ==
    /\ endpoint[c] = "ending"
    /\ prompt[c].at # "running"
    /\ session' = RemoveFirst(session, c)
    /\ emitter' = [e \in Emitters |->
                     IF emitter[e].at = "sending" THEN Shifted(emitter[e], c)
                                                  ELSE emitter[e]]
    /\ known' = known \ {c}
    /\ closed' = closed \cup {c}
    /\ CancelWriter(c)
    /\ endpoint' = [endpoint EXCEPT ![c] = "leaving"]
    /\ UNCHANGED <<sendQueue, current, future, prompt, sockets, client>>

WriterOver(c) == writer[c] = "done"

Left(c) ==
    /\ endpoint[c] = "leaving"
    /\ WriterOver(c)
    /\ future' = Resolve(Waiters(c), "failed")
    /\ sendQueue' = [sendQueue EXCEPT ![c] = << >>]
    /\ net' = [net EXCEPT ![c] = "down"]
    /\ endpoint' = [endpoint EXCEPT ![c] = "gone"]
    /\ inbound' = [inbound EXCEPT ![c] = << >>]
    /\ UNCHANGED <<session, known, closed, writer, current, emitter, prompt,
                   wire, client>>

-----------------------------------------------------------------------------
(* handle_prompt *)

PromptSends(c) ==
    /\ prompt[c].at = "running"
    /\ future[Pro(c)] \in {"none", "sent"}
    /\ prompt[c].n < (IF prompt[c].kind = "error" THEN 1 ELSE Frames)
    /\ Send(Pro(c), c, IF prompt[c].kind = "error" THEN "error" ELSE "frame",
            prompt[c].n + 1)
    /\ prompt' = [prompt EXCEPT ![c].n = @ + 1]
    /\ UNCHANGED <<session, known, current, emitter, endpoint, sockets, client>>

(* The last frame was sent, or a send failed or was cancelled. *)
PromptEnds(c) ==
    /\ prompt[c].at = "running"
    /\ \/ /\ future[Pro(c)] = "sent"
          /\ prompt[c].n = (IF prompt[c].kind = "error" THEN 1 ELSE Frames)
       \/ future[Pro(c)] \in {"failed", "cancelled"}
    /\ prompt' = [prompt EXCEPT ![c] = PromptDone]
    /\ future' = [future EXCEPT ![Pro(c)] = "none"]
    /\ UNCHANGED <<connections, emitter, endpoint, sockets, client>>

-----------------------------------------------------------------------------
(* The client *)

Live(c) == client[c].loop = "on" /\ net[c] = "up"

(* ping(): the future is registered before the request is sent. *)
ClientPing(c) ==
    /\ c \in Talkers /\ Live(c) /\ client[c].ping = "none" /\ Len(inbound[c]) < MaxWire
    /\ client' = [client EXCEPT ![c].ping = "pending"]
    /\ inbound' = [inbound EXCEPT ![c] = Append(@, "ping")]
    /\ UNCHANGED <<server, tasks, net, wire>>

(* wait_for(future, timeout), and the "finally" that forgets the request.  *)
PingTimeout(c) ==
    /\ client[c].ping = "pending"
    /\ client' = [client EXCEPT ![c].ping = "over"]
    /\ UNCHANGED <<server, tasks, sockets>>

(* prompt_stream(): the queue is registered before the request is sent.    *)
ClientPrompt(c) ==
    /\ c \in Talkers /\ Live(c) /\ client[c].stream = "none" /\ Len(inbound[c]) < MaxWire
    /\ client' = [client EXCEPT ![c].stream = "open"]
    /\ inbound' = [inbound EXCEPT ![c] = Append(@, "prompt")]
    /\ UNCHANGED <<server, tasks, net, wire>>

ErrorFrame == Msg("error", None, 0)

(* An event, or an answer nobody waits for any more.  Of the message queue *)
(* (256 messages, the oldest makes room) only the first is kept: the one   *)
(* connect() takes.                                                        *)
QueueMessage(cl, m) == [cl EXCEPT !.first = IF @ = "none" THEN m.kind ELSE @]

(* Mutant: the oldest frame makes room, as in the message queue.           *)
QueueFrameDroppingOldest(cl, m) ==
    [cl EXCEPT !.frames = Append(IF Len(@) < MaxStream THEN @ ELSE Tail(@), m)]

QueueFrame(cl, m) ==
    IF cl.overflowed THEN cl
    ELSE IF Len(cl.frames) < MaxStream THEN [cl EXCEPT !.frames = Append(@, m)]
    ELSE [cl EXCEPT !.overflowed = TRUE, !.frames = <<ErrorFrame>>]

(* _dispatch_message *)
Dispatch(cl, m) ==
    CASE m.kind = "pong" /\ cl.ping = "pending"   -> [cl EXCEPT !.ping = "over"]
      [] m.kind \in {"frame", "error"} /\ cl.stream = "open" -> QueueFrame(cl, m)
      [] OTHER -> QueueMessage(cl, m)

Receive(c) ==
    /\ client[c].loop = "on"
    /\ wire[c] # << >>
    /\ wire' = [wire EXCEPT ![c] = Tail(@)]
    /\ client' = [client EXCEPT ![c] = IF c \in Talkers THEN Dispatch(@, Head(wire[c])) ELSE @]
    /\ UNCHANGED <<server, tasks, net, inbound>>

(* _fail_streams: every open stream ends with an error, at once. *)
FailStreams(cl) == IF cl.stream = "open" THEN [cl EXCEPT !.frames = <<ErrorFrame>>] ELSE cl

(* The receive loop ends with the connection. *)
LoopEnds(c) ==
    /\ c \in Talkers /\ client[c].loop = "on"
    /\ net[c] = "down" /\ wire[c] = << >>
    /\ client' = [client EXCEPT ![c] = [FailStreams(@) EXCEPT !.loop = "off"]]
    /\ UNCHANGED <<server, tasks, sockets>>

(* The consumer of prompt_stream takes the next frame. *)
StreamTake(c) ==
    /\ client[c].stream = "open"
    /\ client[c].frames # << >>
    /\ LET m == Head(client[c].frames) IN
       client' = [client EXCEPT
                    ![c].frames = Tail(@),
                    ![c].got = IF m.kind = "frame" THEN Append(@, m.n) ELSE @,
                    ![c].stream = IF m.kind = "error" THEN "error"
                                  ELSE IF m.n = Frames THEN "complete" ELSE @]
    /\ UNCHANGED <<server, tasks, sockets>>

(* The socket breaks, or the client closes it. *)
Break(c) ==
    /\ net[c] = "up" /\ endpoint[c] # "none"
    /\ net' = [net EXCEPT ![c] = "down"]
    /\ UNCHANGED <<server, tasks, inbound, wire, client>>

-----------------------------------------------------------------------------
ServerStep ==
    \/ \E e \in Emitters : EmitNext(e) \/ EmitDone(e) \/ EmitAborted(e)
    \/ \E t \in Senders, c \in Conns : SlowConsumerShut(t, c)
    \/ \E c \in Conns :
         \/ WriterTake(c) \/ WriterSent(c) \/ WriterFails(c) \/ WriterClosed(c)
         \/ WriterCancelled(c) \/ Connected(c) \/ ReceivePing(c)
         \/ ReceivePrompt(c) \/ Answered(c) \/ Disconnected(c)
         \/ CancelPrompt(c) \/ Disconnect(c) \/ Left(c)
         \/ PromptSends(c) \/ PromptEnds(c)

ClientStep ==
    \E c \in Conns : Receive(c) \/ LoopEnds(c) \/ StreamTake(c)

Next ==
    \/ ServerStep
    \/ ClientStep
    \/ \E c \in Conns : \/ Connect(c) \/ Break(c) \/ ClientPing(c)
                        \/ PingTimeout(c) \/ ClientPrompt(c)

Spec == Init /\ [][Next]_vars

-----------------------------------------------------------------------------
(* Properties *)

TypeOK ==
    /\ known \subseteq Conns /\ closed \subseteq Conns
    /\ \A i \in DOMAIN session : session[i] \in Conns
    /\ \A c \in Conns :
         /\ Len(sendQueue[c]) <= MaxQueue
         /\ Len(wire[c]) <= MaxWire
         /\ Len(client[c].frames) <= MaxStream
         /\ writer[c] \in {"none", "done"} \cup LiveWriter
    /\ future \in [Senders -> {"none", "pending", "sent", "failed", "shutting", "cancelled"}]

(* Nobody waits for a message no writer will ever send or fail: a pending  *)
(* message is queued, or being written, at a connection whose writer still *)
(* runs or whose shutdown is under way (send, _write_messages,             *)
(* _shutdown_connection).                                                  *)
PromisesAreKept ==
    \A t \in Senders : future[t] = "pending" =>
       \E c \in Conns : /\ t \in Waiters(c) \cup {current[c].by}
                        /\ writer[c] \in LiveWriter

(* What a client reads of a prompt are its frames in order and without a   *)
(* gap, and a stream that ends "complete" has had them all, whatever       *)
(* overflows or breaks on the way (_dispatch_message, prompt_stream); the  *)
(* first message of a connection is "connected", as connect() demands.     *)
StreamIsFaithful ==
    \A c \in Conns :
       LET cl == client[c] IN
       /\ cl.got = [i \in 1..Len(cl.got) |-> i]
       /\ cl.stream = "complete" => Len(cl.got) = Frames
       /\ cl.first \in {"none", "connected"}

(* A connection that is gone leaves nothing behind but what connect() left *)
(* when it was interrupted: no place in the list, no state, no writer.     *)
GoneIsGone ==
    \A c \in Conns : endpoint[c] = "gone" =>
       /\ writer[c] = "done"
       /\ c \in known <=> c \in Range(session)
       /\ c \in known => c \in closed

(* A connection that breaks, lags or closes does not keep an event from    *)
(* the others: a send_to_session that ends has gone to every connection    *)
(* that was in the list, but for those that left it and for one that moved *)
(* up into the place of a connection that left.                            *)
EventsReachAll == \A e \in Emitters : emitter[e].at = "done" => emitter[e].due = {}

(* What holds of a connection at every moment. *)
ConnectionsAreSound == TypeOK /\ PromisesAreKept /\ GoneIsGone

(* What is sent arrives: the events of a session and the frames of a prompt. *)
MessagesArrive == EventsReachAll /\ StreamIsFaithful

-----------------------------------------------------------------------------
(* For TLC: a client makes one request, a ping or a prompt. *)

OneRequest == \A c \in Conns : client[c].ping = "none" \/ client[c].stream = "none"

=============================================================================
