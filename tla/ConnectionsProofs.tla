--------------------------- MODULE ConnectionsProofs ---------------------------
(***************************************************************************)
(* For any number of connections, tasks and frames, and queues of any      *)
(* size: what is sent to a connection is written or refused, and what is   *)
(* written is read in order.                                               *)
(*                                                                         *)
(* That a stream has no gap is not inductive: it needs to be known how the *)
(* frames are spread over the queue, the writer, the socket and the client *)
(* (Flows).  At most one frame is on the server's side (OneAtATime), since *)
(* a prompt waits for what it sent; so a writer that ends leaves no later  *)
(* frame behind the one it loses.                                          *)
(***************************************************************************)
EXTENDS Connections, SequenceTheorems, TLAPS

-----------------------------------------------------------------------------
(* The inductive invariant *)

Kinds == {"none", "connected", "event", "pong", "frame", "error"}

Messages == [kind : Kinds, by : Senders \cup {None}, n : Nat]

Futures == {"none", "pending", "sent", "failed", "shutting", "cancelled"}

Walks == [at : {"idle", "sending", "done", "aborted"}, pos : Nat, due : SUBSET Conns]

Stages == {"none", "connecting", "reading", "answering", "ending", "leaving", "gone"}

Prompts == [at : {"none", "running", "done"}, kind : {"frames", "error"}, n : Nat]

Clients == [loop : {"none", "on", "off"}, first : Kinds, ping : {"none", "pending", "over"},
            stream : {"none", "open", "error", "complete"}, frames : Seq(Messages),
            got : Seq(Nat), overflowed : BOOLEAN]

Types ==
    /\ session \in Seq(Conns) /\ known \subseteq Conns /\ closed \subseteq Conns
    /\ sendQueue \in [Conns -> Seq(Messages)]
    /\ writer \in [Conns -> {"none", "done"} \cup LiveWriter]
    /\ current \in [Conns -> Messages]
    /\ future \in [Senders -> Futures]
    /\ emitter \in [Emitters -> Walks]
    /\ endpoint \in [Conns -> Stages]
    /\ prompt \in [Conns -> Prompts]
    /\ net \in [Conns -> {"up", "down"}]
    /\ inbound \in [Conns -> Seq({"ping", "prompt"})]
    /\ wire \in [Conns -> Seq(Messages)]
    /\ client \in [Conns -> Clients]

Bounded ==
    \A c \in Conns : /\ Len(sendQueue[c]) <= MaxQueue
                     /\ Len(wire[c]) <= MaxWire
                     /\ Len(client[c].frames) <= MaxStream

(* A connection that accepts messages has a writer that takes them; a      *)
(* message is written by a writer that is at it; no writer without a task. *)
Written ==
    \A c \in Conns :
       /\ c \in known \ closed => writer[c] \in {"waiting", "writing", "closing"}
       /\ writer[c] \in {"cancelling", "done"} => c \in closed
       /\ current[c] # NoMsg => writer[c] \in {"writing", "cancelling"}
       /\ endpoint[c] = "none" => writer[c] = "none"

(* The messages on their way to the socket.                                *)
Held(c) == {current[c]} \cup Range(sendQueue[c])

(* The tasks of a connection send to it alone, and are cancelled by its    *)
(* writer alone, when that ends.                                           *)
Placed ==
    \A c \in Conns :
       /\ \A m \in Held(c) : m.by \in {End(c), Pro(c), None} \cup Emitters
       /\ future[End(c)] = "cancelled" => writer[c] = "done"

(* The list has each connection once, from connect() to disconnect().      *)
Listed ==
    /\ \A i, j \in DOMAIN session : session[i] = session[j] => i = j
    /\ \A c \in Conns :
          /\ c \in known <=> c \in Range(session)
          /\ endpoint[c] \in {"none", "leaving"} => c \notin known
          /\ endpoint[c] = "gone" => writer[c] = "done"

(* The connections an emitter has still to come to are ahead of it.        *)
Ahead(em) ==
    /\ \A c \in em.due : \E k \in DOMAIN session : k > em.pos /\ session[k] = c
    /\ em.pos = 0 => em.due = {}

Walking ==
    \A e \in Emitters :
       /\ emitter[e].at = "idle" => emitter[e].pos = 0
       /\ emitter[e].at = "sending" => Ahead(emitter[e])
       /\ emitter[e].at = "done" => emitter[e].due = {}

InFlight(c) == \E m \in Held(c) : m.by = Pro(c)

(* A prompt task has one message on the way, and none when it has heard of *)
(* it.                                                                     *)
Single(c) ==
    /\ \A i, j \in DOMAIN sendQueue[c] :
          sendQueue[c][i].by = Pro(c) /\ sendQueue[c][j].by = Pro(c) => i = j
    /\ current[c].by = Pro(c) =>
          \A i \in DOMAIN sendQueue[c] : sendQueue[c][i].by # Pro(c)

Heard(c) ==
    /\ prompt[c].at = "running" /\ future[Pro(c)] \in {"none", "sent"} => ~InFlight(c)
    /\ prompt[c].at = "none" => ~InFlight(c) /\ future[Pro(c)] = "none"

OneAtATime == \A c \in Conns : Single(c) /\ Heard(c)

(* One prompt is asked for, by a client that talks.                        *)
Requested ==
    \A c \in Conns :
       /\ \A i, j \in DOMAIN inbound[c] :
             inbound[c][i] = "prompt" /\ inbound[c][j] = "prompt" => i = j
       /\ \A i \in DOMAIN inbound[c] :
             inbound[c][i] = "prompt" => prompt[c].at = "none" /\ client[c].stream # "none"
       /\ client[c].stream = "none" => prompt[c].at = "none"
       /\ client[c].stream # "none" => c \in Talkers

IsFrame(m) == m.kind = "frame"

(* The frames on a wire are those from a + 1 to b, in order.               *)
InOrder(w, a, b) ==
    /\ \A i \in DOMAIN w : IsFrame(w[i]) => w[i].n \in (a + 1)..b
    /\ \A i, j \in DOMAIN w : IsFrame(w[i]) /\ IsFrame(w[j]) /\ i < j => w[i].n < w[j].n
    /\ \A n \in (a + 1)..b : \E i \in DOMAIN w : IsFrame(w[i]) /\ w[i].n = n

(* b frames were written, and the next one is on the server's side or not  *)
(* yet sent.                                                               *)
Sends(c, b) ==
    /\ \A m \in Held(c) : IsFrame(m) => m.by = Pro(c) /\ m.n = b + 1
    /\ prompt[c].at = "running" /\ prompt[c].kind = "frames"
          /\ future[Pro(c)] \in {"none", "sent"} => prompt[c].n = b
    /\ prompt[c].at = "none" => b = 0
    /\ prompt[c].at = "running" /\ prompt[c].kind = "frames" =>
          /\ future[Pro(c)] = "pending" => prompt[c].n = b + 1
          /\ \A m \in Held(c) : m.by = Pro(c) => IsFrame(m)

(* a frames were read, and a stream that goes on has had all of them.      *)
Reads(cl, a) ==
    cl.stream = "open" /\ (\A i \in DOMAIN cl.frames : IsFrame(cl.frames[i]))
       => Len(cl.got) + Len(cl.frames) = a

Flows(c, a, b) ==
    a <= b /\ InOrder(wire[c], a, b) /\ Sends(c, b) /\ Reads(client[c], a)

Flowing == \A c \in Conns : \E a, b \in Nat : Flows(c, a, b)

(* What the consumer of a stream has had, and what is there for it.        *)
Consumes(cl) ==
    /\ \A i \in DOMAIN cl.frames : cl.frames[i].kind \in {"frame", "error"}
    /\ cl.stream = "none" => cl.got = << >> /\ cl.frames = << >> /\ ~cl.overflowed
    /\ cl.stream = "open" =>
          \A i \in DOMAIN cl.frames :
             (\A j \in 1..i : IsFrame(cl.frames[j])) => cl.frames[i].n = Len(cl.got) + i
    /\ cl.stream = "open" /\ cl.overflowed => cl.frames = <<ErrorFrame>>
    /\ cl.got = [i \in 1..Len(cl.got) |-> i]
    /\ cl.stream = "complete" => Len(cl.got) = Frames
    /\ cl.first \in {"none", "connected"}

Consuming == \A c \in Conns : Consumes(client[c])

(* Until a client has had its first message, that is the "connected" one.  *)
Greeted ==
    \A c \in Talkers \cap Conns : client[c].first = "none" =>
       /\ wire[c] # << >> => wire[c][1].kind = "connected"
       /\ wire[c] = << >> /\ writer[c] = "writing" => current[c].kind = "connected"
       /\ wire[c] = << >> /\ writer[c] = "waiting" =>
             sendQueue[c] # << >> /\ sendQueue[c][1].kind = "connected"

Server == Bounded /\ Written /\ Placed /\ Listed /\ Walking /\ PromisesAreKept

Stream == OneAtATime /\ Requested /\ Flowing /\ Consuming /\ Greeted

IInv == Types /\ Server /\ Stream

-----------------------------------------------------------------------------
(* The initial state *)

(* The tasks that send are told apart.                                     *)
LEMMA Tasks ==
  /\ None \notin Senders /\ Emitters \subseteq Senders
  /\ \A c \in Conns : /\ End(c) \in Senders /\ Pro(c) \in Senders
                      /\ End(c) \notin Emitters /\ Pro(c) \notin Emitters
                      /\ End(c) # None /\ Pro(c) # None
  /\ \A c, d \in Conns : /\ End(c) = End(d) => c = d
                         /\ Pro(c) = Pro(d) => c = d
                         /\ End(c) # Pro(d)
<1>1. None \notin Senders
  BY TasksAssumption
<1>2. \A c \in Conns : End(c) \in Senders /\ Pro(c) \in Senders
  BY DEF Senders
<1>3. \A c \in Conns : End(c) \notin Emitters /\ Pro(c) \notin Emitters
  BY TasksAssumption
<1>4. \A c, d \in Conns : /\ End(c) = End(d) => c = d
                          /\ Pro(c) = Pro(d) => c = d
                          /\ End(c) # Pro(d)
  BY DEF End, Pro
<1> QED
  BY <1>1, <1>2, <1>3, <1>4 DEF Senders

LEMMA Sizes ==
  /\ MaxQueue \in Nat \ {0} /\ MaxWire \in Nat \ {0}
  /\ MaxStream \in Nat \ {0} /\ Frames \in Nat \ {0}
BY BoundsAssumption

LEMMA NoMsgIs ==
  NoMsg \in Messages /\ NoMsg.by = None /\ NoMsg.kind = "none"
BY DEF NoMsg, Msg, Messages, Kinds

LEMMA InitHolds == Init => IInv
<1> SUFFICES ASSUME Init PROVE IInv
  OBVIOUS
<1> USE DEF Init
<1>1. Types
  BY NoMsgIs DEF Types, Messages, Kinds, Futures, Walks, Stages, Prompts, Clients
<1>2. Bounded
  BY BoundsAssumption DEF Bounded
<1>3. Written /\ Placed
  BY Tasks, NoMsgIs DEF Written, Placed, Held, Range
<1>4. Listed /\ Walking
  BY DEF Listed, Walking, Range
<1>5. PromisesAreKept
  BY DEF PromisesAreKept
<1>6. OneAtATime /\ Requested
  BY Tasks, NoMsgIs DEF OneAtATime, Single, Heard, Requested, InFlight, Held, Range
<1>7. Flowing
  <2> SUFFICES ASSUME NEW c \in Conns PROVE Flows(c, 0, 0)
    BY DEF Flowing
  <2>1. InOrder(wire[c], 0, 0)
    BY DEF InOrder
  <2>2. Sends(c, 0)
    BY NoMsgIs DEF Sends, Held, Range, IsFrame
  <2>3. Reads(client[c], 0)
    BY DEF Reads
  <2> QED
    BY <2>1, <2>2, <2>3 DEF Flows
<1>8. Consuming
  BY DEF Consuming, Consumes
<1>9. Greeted
  BY DEF Greeted
<1> QED
  BY <1>1, <1>2, <1>3, <1>4, <1>5, <1>6, <1>7, <1>8, <1>9 DEF IInv, Server, Stream

-----------------------------------------------------------------------------
(* What a step leaves alone *)

LEMMA BoundedStays ==
  ASSUME Bounded, UNCHANGED <<sendQueue, wire, client>> PROVE Bounded'
BY DEF Bounded

LEMMA WrittenStays ==
  ASSUME Written, UNCHANGED <<known, closed, writer, current, endpoint>> PROVE Written'
BY DEF Written

LEMMA PlacedStays ==
  ASSUME Placed, UNCHANGED <<sendQueue, writer, current, future>> PROVE Placed'
BY DEF Placed, Held

LEMMA ListedStays ==
  ASSUME Listed, UNCHANGED <<session, known, writer, endpoint>> PROVE Listed'
BY DEF Listed

LEMMA WalkingStays ==
  ASSUME Walking, UNCHANGED <<session, emitter>> PROVE Walking'
BY DEF Walking, Ahead

LEMMA PromisesStay ==
  ASSUME PromisesAreKept, UNCHANGED <<sendQueue, writer, current, future>>
  PROVE  PromisesAreKept'
BY DEF PromisesAreKept, Waiters

LEMMA OneAtATimeStays ==
  ASSUME OneAtATime, UNCHANGED <<sendQueue, current, future, prompt>> PROVE OneAtATime'
BY DEF OneAtATime, Single, Heard, InFlight, Held

LEMMA RequestedStays ==
  ASSUME Requested, UNCHANGED <<inbound, prompt, client>> PROVE Requested'
BY DEF Requested

LEMMA FlowingStays ==
  ASSUME Flowing, UNCHANGED <<sendQueue, current, future, prompt, wire, client>>
  PROVE  Flowing'
<1> SUFFICES ASSUME NEW c \in Conns PROVE \E a, b \in Nat : Flows(c, a, b)'
  BY DEF Flowing
<1>1. PICK a, b \in Nat : Flows(c, a, b)
  BY DEF Flowing
<1>2. InOrder(wire[c], a, b)' /\ Reads(client[c], a)'
  BY <1>1 DEF Flows, InOrder, Reads, IsFrame
<1>3. Sends(c, b)'
  BY <1>1 DEF Flows, Sends, Held, IsFrame
<1> QED
  BY <1>1, <1>2, <1>3 DEF Flows

LEMMA ConsumingStays ==
  ASSUME Consuming, UNCHANGED client PROVE Consuming'
BY DEF Consuming, Consumes, IsFrame

LEMMA GreetedStays ==
  ASSUME Greeted, UNCHANGED <<sendQueue, writer, current, wire, client>> PROVE Greeted'
BY DEF Greeted

-----------------------------------------------------------------------------
(* The client *)

LEMMA ErrorFrames ==
  /\ ErrorFrame \in Messages /\ ErrorFrame.kind = "error"
  /\ <<ErrorFrame>> \in Seq(Messages) /\ Len(<<ErrorFrame>>) = 1
  /\ DOMAIN <<ErrorFrame>> = {1} /\ <<ErrorFrame>>[1] = ErrorFrame
<1>1. ErrorFrame \in Messages /\ ErrorFrame.kind = "error"
  BY DEF ErrorFrame, Msg, Messages, Kinds
<1> QED
  BY <1>1

(* A step of the client alone leaves the server's side as it was.          *)
LEMMA ServerStays ==
  ASSUME IInv, UNCHANGED <<server, tasks>>
  PROVE  Written' /\ Placed' /\ Listed' /\ Walking' /\ PromisesAreKept' /\ OneAtATime'
BY WrittenStays, PlacedStays, ListedStays, WalkingStays, PromisesStay, OneAtATimeStays
   DEF IInv, Server, Stream, server, tasks, connections

LEMMA BreakStep ==
  ASSUME IInv, NEW c \in Conns, Break(c) PROVE IInv'
<1>1. UNCHANGED <<server, tasks, inbound, wire, client>>
  BY DEF Break
<1>2. Types'
  BY DEF IInv, Types, Break, server, tasks, connections
<1>3. Bounded' /\ Requested' /\ Flowing' /\ Consuming' /\ Greeted'
  BY <1>1, BoundedStays, RequestedStays, FlowingStays, ConsumingStays, GreetedStays
     DEF IInv, Server, Stream, server, tasks, connections
<1> QED
  BY <1>1, <1>2, <1>3, ServerStays DEF IInv, Server, Stream

LEMMA PingTimeoutStep ==
  ASSUME IInv, NEW c \in Conns, PingTimeout(c) PROVE IInv'
<1>1. /\ UNCHANGED <<server, tasks, sockets>>
      /\ client' = [client EXCEPT ![c].ping = "over"]
  BY DEF PingTimeout
<1>2. client[c] \in Clients
  BY DEF IInv, Types
<1>2b. [client[c] EXCEPT !.ping = "over"] \in Clients
  BY <1>2 DEF Clients
<1>2a. Types'
  BY <1>1, <1>2b DEF IInv, Types, server, tasks, sockets, connections
<1>3. \A d \in Conns : /\ client'[d].stream = client[d].stream
                       /\ client'[d].frames = client[d].frames
                       /\ client'[d].got = client[d].got
                       /\ client'[d].first = client[d].first
                       /\ client'[d].overflowed = client[d].overflowed
  BY <1>1 DEF IInv, Types, Clients
<1>4. Bounded' /\ Requested'
  BY <1>1, <1>3 DEF IInv, Server, Stream, Bounded, Requested, server, tasks, sockets, connections
<1>5. Flowing'
  <2> SUFFICES ASSUME NEW d \in Conns PROVE \E a, b \in Nat : Flows(d, a, b)'
    BY DEF Flowing
  <2>1. PICK a, b \in Nat : Flows(d, a, b)
    BY DEF IInv, Stream, Flowing
  <2>2. InOrder(wire[d], a, b)' /\ Reads(client[d], a)'
    BY <1>1, <1>3, <2>1 DEF Flows, InOrder, Reads, IsFrame, sockets
  <2>3. Sends(d, b)'
    BY <1>1, <2>1 DEF Flows, Sends, Held, IsFrame, server, tasks, connections
  <2> QED
    BY <2>1, <2>2, <2>3 DEF Flows
<1>6. Consuming'
  BY <1>1, <1>3 DEF IInv, Stream, Consuming, Consumes, IsFrame
<1>7. Greeted'
  BY <1>1, <1>3 DEF IInv, Stream, Greeted, server, sockets, connections
<1> QED
  BY <1>1, <1>2a, <1>4, <1>5, <1>6, <1>7, ServerStays DEF IInv, Server, Stream

LEMMA LoopEndsStep ==
  ASSUME IInv, NEW c \in Conns, LoopEnds(c) PROVE IInv'
<1> DEFINE cl == client[c]
<1>1. /\ UNCHANGED <<server, tasks, sockets>>
      /\ client' = [client EXCEPT ![c] = [FailStreams(cl) EXCEPT !.loop = "off"]]
  BY DEF LoopEnds
<1>0. cl \in Clients
  BY DEF IInv, Types
<1>2. FailStreams(cl) \in Clients
  BY <1>0, ErrorFrames DEF FailStreams, Clients
<1>3. client'[c] \in Clients /\ \A d \in Conns \ {c} : client'[d] = client[d]
  BY <1>1, <1>2 DEF Clients, IInv, Types
<1>4. /\ client'[c].stream = cl.stream /\ client'[c].got = cl.got
      /\ client'[c].first = cl.first /\ client'[c].overflowed = cl.overflowed
      /\ client'[c].frames = IF cl.stream = "open" THEN <<ErrorFrame>> ELSE cl.frames
  BY <1>0, <1>1, <1>2 DEF FailStreams, Clients, IInv, Types
<1>5. Types'
  BY <1>1, <1>3 DEF IInv, Types, server, tasks, sockets, connections
<1>6. Bounded'
  <2> SUFFICES ASSUME NEW d \in Conns PROVE Len(client'[d].frames) <= MaxStream
    BY <1>1 DEF IInv, Server, Bounded, server, sockets, connections
  <2>1. Len(client[d].frames) <= MaxStream
    BY DEF IInv, Server, Bounded
  <2>2. CASE d = c
    BY <2>1, <2>2, <1>4, Sizes, ErrorFrames
  <2>3. CASE d # c
    BY <2>1, <2>3, <1>3
  <2> QED
    BY <2>2, <2>3
<1>7. Requested'
  BY <1>1, <1>3, <1>4 DEF IInv, Stream, Requested, server, tasks, sockets, connections
<1>8. Flowing'
  <2> SUFFICES ASSUME NEW d \in Conns PROVE \E a, b \in Nat : Flows(d, a, b)'
    BY DEF Flowing
  <2>1. PICK a, b \in Nat : Flows(d, a, b)
    BY DEF IInv, Stream, Flowing
  <2>2. InOrder(wire[d], a, b)'
    BY <1>1, <2>1 DEF Flows, InOrder, IsFrame, sockets
  <2>3. Sends(d, b)'
    BY <1>1, <2>1 DEF Flows, Sends, Held, IsFrame, server, tasks, connections
  <2>4. Reads(client[d], a)'
    <3>1. CASE d = c
      BY <3>1, <1>4, <2>1, ErrorFrames DEF Flows, Reads, IsFrame
    <3>2. CASE d # c
      BY <3>2, <1>3, <2>1 DEF Flows, Reads
    <3> QED
      BY <3>1, <3>2
  <2> QED
    BY <2>1, <2>2, <2>3, <2>4 DEF Flows
<1>9. Consuming'
  <2> SUFFICES ASSUME NEW d \in Conns PROVE Consumes(client[d])'
    BY DEF Consuming
  <2>1. Consumes(client[d])
    BY DEF IInv, Stream, Consuming
  <2>2. CASE d = c
    BY <2>2, <1>4, <2>1, ErrorFrames DEF Consumes, IsFrame
  <2>3. CASE d # c
    BY <2>3, <1>3, <2>1
  <2> QED
    BY <2>2, <2>3
<1>10. Greeted'
  BY <1>1, <1>3, <1>4 DEF IInv, Stream, Greeted, server, sockets, connections
<1> QED
  BY <1>1, <1>5, <1>6, <1>7, <1>8, <1>9, <1>10, ServerStays DEF IInv, Server, Stream

LEMMA StreamTakeStep ==
  ASSUME IInv, NEW c \in Conns, StreamTake(c) PROVE IInv'
<1> DEFINE cl == client[c]
           m == Head(cl.frames)
<1>1. /\ UNCHANGED <<server, tasks, sockets>>
      /\ cl.stream = "open" /\ cl.frames # << >>
      /\ client' = [client EXCEPT
                      ![c].frames = Tail(@),
                      ![c].got = IF m.kind = "frame" THEN Append(@, m.n) ELSE @,
                      ![c].stream = IF m.kind = "error" THEN "error"
                                    ELSE IF m.n = Frames THEN "complete" ELSE @]
  BY DEF StreamTake
<1>2. cl \in Clients /\ Consumes(cl) /\ client \in [Conns -> Clients]
  BY DEF IInv, Types, Stream, Consuming
<1>3. /\ cl.frames \in Seq(Messages) /\ cl.got \in Seq(Nat) /\ Len(cl.frames) > 0
      /\ m = cl.frames[1] /\ m \in Messages /\ m.n \in Nat
      /\ Tail(cl.frames) \in Seq(Messages) /\ Len(Tail(cl.frames)) = Len(cl.frames) - 1
      /\ \A i \in 1..(Len(cl.frames) - 1) : Tail(cl.frames)[i] = cl.frames[i + 1]
      /\ Len(cl.got) \in Nat /\ Len(cl.frames) \in Nat
      /\ DOMAIN cl.frames = 1..Len(cl.frames)
  <2>1. cl.frames \in Seq(Messages) /\ cl.got \in Seq(Nat)
    BY <1>2 DEF Clients
  <2>2. m = cl.frames[1] /\ m \in Messages
    BY <1>1, <2>1
  <2>3. m.n \in Nat
    BY <2>2 DEF Messages
  <2> QED
    BY <1>1, <2>1, <2>2, <2>3
<1>4. m.kind \in {"frame", "error"} /\ (IsFrame(m) => m.n = Len(cl.got) + 1)
  <2>1. m.kind \in {"frame", "error"}
    BY <1>2, <1>3 DEF Consumes
  <2>2. ASSUME IsFrame(m) PROVE m.n = Len(cl.got) + 1
    <3>1. \A j \in 1..1 : IsFrame(cl.frames[j])
      BY <1>3, <2>2
    <3>2. 1 \in DOMAIN cl.frames
      BY <1>3
    <3>3. cl.frames[1].n = Len(cl.got) + 1
      BY <1>1, <1>2, <3>1, <3>2 DEF Consumes
    <3> QED
      BY <1>3, <3>3
  <2> QED
    BY <2>1, <2>2
<1>5. /\ client'[c].frames = Tail(cl.frames) /\ client'[c].first = cl.first
      /\ client'[c].overflowed = cl.overflowed /\ client'[c].ping = cl.ping
      /\ client'[c].loop = cl.loop
      /\ client'[c].got = IF IsFrame(m) THEN Append(cl.got, m.n) ELSE cl.got
      /\ client'[c].stream = IF ~IsFrame(m) THEN "error"
                             ELSE IF m.n = Frames THEN "complete" ELSE "open"
  BY <1>1, <1>2, <1>4 DEF Clients, IsFrame
<1>6. client'[c] \in Clients /\ \A d \in Conns \ {c} : client'[d] = client[d]
  <2>1. \A d \in Conns \ {c} : client'[d] = client[d]
    BY <1>1, <1>2
  <2>2. PICK r1 : r1 = [cl EXCEPT !.frames = Tail(cl.frames)]
    OBVIOUS
  <2>3. r1 \in Clients /\ r1.got = cl.got /\ r1.stream = cl.stream
    BY <1>2, <1>3, <2>2 DEF Clients
  <2>4. PICK r2 : r2 = [r1 EXCEPT !.got = IF m.kind = "frame" THEN Append(cl.got, m.n) ELSE cl.got]
    OBVIOUS
  <2>4a. Append(cl.got, m.n) \in Seq(Nat)
    BY <1>3
  <2>5. r2 \in Clients /\ r2.stream = cl.stream
    BY <2>3, <2>4, <2>4a DEF Clients
  <2>6. PICK r3 : r3 = [r2 EXCEPT !.stream = IF m.kind = "error" THEN "error"
                                             ELSE IF m.n = Frames THEN "complete" ELSE cl.stream]
    OBVIOUS
  <2>7. r3 \in Clients
    BY <1>1, <2>5, <2>6 DEF Clients
  <2>8. client'[c] = r3
    BY <1>1, <1>2, <2>2, <2>3, <2>4, <2>5, <2>6
  <2> QED
    BY <2>1, <2>7, <2>8
<1>7. Types'
  <2>1. client' \in [Conns -> Clients]
    BY <1>1, <1>2, <1>6
  <2> QED
    BY <1>1, <2>1 DEF IInv, Types, server, tasks, sockets, connections
<1>8. Bounded'
  BY <1>1, <1>3, <1>5, <1>6, Sizes DEF IInv, Server, Bounded, Types, server, sockets, connections
<1>9. Requested'
  <2>1. client[c].stream # "none" /\ client'[c].stream # "none"
    BY <1>1, <1>5
  <2>2. \A d \in Conns : client[d].stream = "none" <=> client'[d].stream = "none"
    BY <1>6, <2>1
  <2>3. \A d \in Conns : client[d].stream # "none" <=> client'[d].stream # "none"
    BY <2>2
  <2> QED
    BY <1>1, <2>3 DEF IInv, Stream, Requested, tasks, sockets
<1>10. Flowing'
  <2> SUFFICES ASSUME NEW d \in Conns PROVE \E a, b \in Nat : Flows(d, a, b)'
    BY DEF Flowing
  <2>1. PICK a, b \in Nat : Flows(d, a, b)
    BY DEF IInv, Stream, Flowing
  <2>2. InOrder(wire[d], a, b)'
    BY <1>1, <2>1 DEF Flows, InOrder, IsFrame, sockets
  <2>3. Sends(d, b)'
    BY <1>1, <2>1 DEF Flows, Sends, Held, IsFrame, server, tasks, connections
  <2>4. Reads(client[d], a)'
    <3>1. CASE d # c
      BY <3>1, <1>6, <2>1 DEF Flows, Reads
    <3>2. CASE d = c
      <4> SUFFICES ASSUME client'[c].stream = "open",
                          \A i \in DOMAIN Tail(cl.frames) : IsFrame(Tail(cl.frames)[i])
                   PROVE  Len(client'[c].got) + Len(Tail(cl.frames)) = a
        BY <3>2, <1>5 DEF Reads, IsFrame
      <4>1. IsFrame(m)
        BY <1>5
      <4>2. \A i \in DOMAIN cl.frames : IsFrame(cl.frames[i])
        <5> SUFFICES ASSUME NEW i \in 1..Len(cl.frames), i # 1 PROVE IsFrame(cl.frames[i])
          BY <1>3, <4>1
        <5>1. i - 1 \in 1..(Len(cl.frames) - 1)
          BY <1>3
        <5>2. i - 1 \in DOMAIN Tail(cl.frames) /\ Tail(cl.frames)[i - 1] = cl.frames[(i - 1) + 1]
          BY <1>3, <5>1
        <5>3. Tail(cl.frames)[i - 1] = cl.frames[i]
          BY <5>2
        <5> QED
          BY <5>2, <5>3
      <4>3. Len(cl.got) + Len(cl.frames) = a
        BY <1>1, <2>1, <3>2, <4>2 DEF Flows, Reads
      <4>4. Len(client'[c].got) = Len(cl.got) + 1
        BY <1>3, <1>5, <4>1
      <4>5. PICK p, q \in Nat : p = Len(cl.got) /\ q = Len(cl.frames)
        BY <1>3
      <4>6. Len(client'[c].got) = p + 1 /\ Len(Tail(cl.frames)) = q - 1 /\ p + q = a
        BY <1>3, <4>3, <4>4, <4>5
      <4>7. (p + 1) + (q - 1) = p + q
        OBVIOUS
      <4> QED
        BY <4>6, <4>7, Zenon
    <3> QED
      BY <3>1, <3>2
  <2> QED
    BY <2>1, <2>2, <2>3, <2>4 DEF Flows
<1>11. Consuming'
  <2> SUFFICES ASSUME NEW d \in Conns PROVE Consumes(client[d])'
    BY DEF Consuming
  <2>1. CASE d # c
    BY <2>1, <1>6 DEF IInv, Stream, Consuming, Consumes, IsFrame
  <2>2. CASE d = c
    <3> DEFINE new == client'[c]
    <3>1. \A i \in DOMAIN new.frames : new.frames[i].kind \in {"frame", "error"}
      <4> SUFFICES ASSUME NEW i \in 1..(Len(cl.frames) - 1)
                   PROVE  cl.frames[i + 1].kind \in {"frame", "error"}
        BY <1>3, <1>5
      <4>1. i + 1 \in DOMAIN cl.frames
        BY <1>3
      <4> QED
        BY <1>2, <4>1 DEF Consumes
    <3>2. new.stream # "none" /\ new.first \in {"none", "connected"}
      BY <1>2, <1>5 DEF Consumes
    <3>3. new.got = [i \in 1..Len(new.got) |-> i]
      <4>1. CASE IsFrame(m)
        <5>1. new.got = Append(cl.got, Len(cl.got) + 1) /\ cl.got = [i \in 1..Len(cl.got) |-> i]
          BY <1>2, <1>4, <1>5, <4>1 DEF Consumes
        <5> QED
          BY <1>3, <5>1
      <4>2. CASE ~IsFrame(m)
        BY <1>2, <1>5, <4>2 DEF Consumes
      <4> QED
        BY <4>1, <4>2
    <3>4. new.stream = "complete" => Len(new.got) = Frames
      BY <1>2, <1>3, <1>4, <1>5 DEF Consumes
    <3>5. new.stream = "open" => ~new.overflowed
      BY <1>1, <1>2, <1>3, <1>4, <1>5, ErrorFrames DEF Consumes, IsFrame
    <3>6. ASSUME new.stream = "open", NEW i \in DOMAIN new.frames,
                 \A j \in 1..i : IsFrame(new.frames[j])
          PROVE  new.frames[i].n = Len(new.got) + i
      <4>1. IsFrame(m) /\ Len(new.got) = Len(cl.got) + 1
        BY <1>3, <1>5, <3>6
      <4>2. i \in 1..(Len(cl.frames) - 1) /\ i + 1 \in DOMAIN cl.frames
        BY <1>3, <1>5
      <4>3. \A j \in 1..(i + 1) : IsFrame(cl.frames[j])
        <5> SUFFICES ASSUME NEW j \in 1..(i + 1), j # 1 PROVE IsFrame(cl.frames[j])
          BY <1>3, <4>1
        <5>1. PICK k \in 1..i : j = k + 1
          BY <4>2
        <5>2. k \in 1..(Len(cl.frames) - 1)
          BY <4>2, <5>1
        <5> QED
          BY <1>3, <1>5, <3>6, <5>1, <5>2
      <4>4. cl.frames[i + 1].n = Len(cl.got) + (i + 1)
        BY <1>1, <1>2, <4>2, <4>3 DEF Consumes
      <4>5. new.frames[i] = cl.frames[i + 1]
        BY <1>3, <1>5, <4>2
      <4>6. i \in Nat
        BY <4>2
      <4>7. PICK p \in Nat : p = Len(cl.got)
        BY <1>3
      <4>8. new.frames[i].n = p + (i + 1) /\ Len(new.got) = p + 1
        BY <4>1, <4>4, <4>5, <4>7
      <4> QED
        BY <4>6, <4>8
    <3> QED
      BY <2>2, <3>1, <3>2, <3>3, <3>4, <3>5, <3>6 DEF Consumes, IsFrame
  <2> QED
    BY <2>1, <2>2
<1>12. Greeted'
  <2>1. \A d \in Conns : client'[d].first = client[d].first
    BY <1>5, <1>6
  <2> QED
    BY <1>1, <2>1 DEF IInv, Stream, Greeted, server, sockets, connections
<1> QED
  BY <1>1, <1>7, <1>8, <1>9, <1>10, <1>11, <1>12, ServerStays DEF IInv, Server, Stream

LEMMA ClientPingStep ==
  ASSUME IInv, NEW c \in Conns, ClientPing(c) PROVE IInv'
<1>1. /\ UNCHANGED <<server, tasks, net, wire>>
      /\ client' = [client EXCEPT ![c].ping = "pending"]
      /\ inbound' = [inbound EXCEPT ![c] = Append(@, "ping")]
  BY DEF ClientPing
<1>2. client[c] \in Clients /\ inbound[c] \in Seq({"ping", "prompt"})
  BY DEF IInv, Types
<1>3. [client[c] EXCEPT !.ping = "pending"] \in Clients
  BY <1>2 DEF Clients
<1>4. Types'
  <2>1. Append(inbound[c], "ping") \in Seq({"ping", "prompt"})
    BY <1>2
  <2>2. inbound' \in [Conns -> Seq({"ping", "prompt"})]
    BY <1>1, <2>1 DEF IInv, Types
  <2>3. client' \in [Conns -> Clients]
    BY <1>1, <1>3 DEF IInv, Types
  <2> QED
    BY <1>1, <2>2, <2>3 DEF IInv, Types, server, tasks, connections
<1>5. \A d \in Conns : /\ client'[d].stream = client[d].stream
                       /\ client'[d].frames = client[d].frames
                       /\ client'[d].got = client[d].got
                       /\ client'[d].first = client[d].first
                       /\ client'[d].overflowed = client[d].overflowed
  BY <1>1 DEF IInv, Types, Clients
<1>6. Bounded'
  BY <1>1, <1>5 DEF IInv, Server, Bounded, server, connections
<1>7. Requested'
  <2> SUFFICES ASSUME NEW d \in Conns
               PROVE  /\ \A i, j \in DOMAIN inbound'[d] :
                            inbound'[d][i] = "prompt" /\ inbound'[d][j] = "prompt" => i = j
                      /\ \A i \in DOMAIN inbound'[d] : inbound'[d][i] = "prompt" =>
                            prompt[d].at = "none" /\ client[d].stream # "none"
                      /\ client[d].stream = "none" => prompt[d].at = "none"
                      /\ client[d].stream # "none" => d \in Talkers
    BY <1>1, <1>5 DEF Requested, tasks
  <2>1. \A i \in DOMAIN inbound'[d] :
           inbound'[d][i] = "prompt" => i \in DOMAIN inbound[d] /\ inbound[d][i] = "prompt"
    <3>1. CASE d = c
      <4>1. inbound'[d] = Append(inbound[c], "ping")
        BY <1>1, <3>1 DEF IInv, Types
      <4> QED
        BY <1>2, <3>1, <4>1
    <3>2. CASE d # c
      BY <1>1, <3>2 DEF IInv, Types
    <3> QED
      BY <3>1, <3>2
  <2> QED
    BY <2>1 DEF IInv, Stream, Requested
<1>8. Flowing'
  <2> SUFFICES ASSUME NEW d \in Conns PROVE \E a, b \in Nat : Flows(d, a, b)'
    BY DEF Flowing
  <2>1. PICK a, b \in Nat : Flows(d, a, b)
    BY DEF IInv, Stream, Flowing
  <2>2. InOrder(wire[d], a, b)' /\ Reads(client[d], a)'
    BY <1>1, <1>5, <2>1 DEF Flows, InOrder, Reads, IsFrame
  <2>3. Sends(d, b)'
    BY <1>1, <2>1 DEF Flows, Sends, Held, IsFrame, server, tasks, connections
  <2> QED
    BY <2>1, <2>2, <2>3 DEF Flows
<1>9. Consuming'
  BY <1>1, <1>5 DEF IInv, Stream, Consuming, Consumes, IsFrame
<1>10. Greeted'
  BY <1>1, <1>5 DEF IInv, Stream, Greeted, server, connections
<1> QED
  BY <1>1, <1>4, <1>6, <1>7, <1>8, <1>9, <1>10, ServerStays DEF IInv, Server, Stream

LEMMA ClientPromptStep ==
  ASSUME IInv, NEW c \in Conns, ClientPrompt(c) PROVE IInv'
<1> DEFINE cl == client[c]
<1>1. /\ UNCHANGED <<server, tasks, net, wire>>
      /\ cl.stream = "none" /\ c \in Talkers
      /\ client' = [client EXCEPT ![c].stream = "open"]
      /\ inbound' = [inbound EXCEPT ![c] = Append(@, "prompt")]
  BY DEF ClientPrompt
<1>2. cl \in Clients /\ inbound[c] \in Seq({"ping", "prompt"}) /\ Consumes(cl)
  BY DEF IInv, Types, Stream, Consuming
<1>3. [cl EXCEPT !.stream = "open"] \in Clients
  BY <1>2 DEF Clients
<1>4. Types'
  <2>1. Append(inbound[c], "prompt") \in Seq({"ping", "prompt"})
    BY <1>2
  <2>2. inbound' \in [Conns -> Seq({"ping", "prompt"})]
    BY <1>1, <2>1 DEF IInv, Types
  <2>3. client' \in [Conns -> Clients]
    BY <1>1, <1>3 DEF IInv, Types
  <2> QED
    BY <1>1, <2>2, <2>3 DEF IInv, Types, server, tasks, connections
<1>5. /\ \A d \in Conns : client'[d].first = client[d].first
      /\ \A d \in Conns \ {c} : client'[d] = client[d]
      /\ client'[c].stream = "open" /\ client'[c].frames = cl.frames
      /\ client'[c].got = cl.got /\ client'[c].overflowed = cl.overflowed
  BY <1>1 DEF IInv, Types, Clients
<1>6. cl.got = << >> /\ cl.frames = << >> /\ prompt[c].at = "none"
  BY <1>1, <1>2 DEF Consumes, IInv, Stream, Requested
<1>7. Bounded'
  BY <1>1, <1>5 DEF IInv, Server, Bounded, server, connections
<1>8. Requested'
  <2> SUFFICES ASSUME NEW d \in Conns
               PROVE  /\ \A i, j \in DOMAIN inbound'[d] :
                            inbound'[d][i] = "prompt" /\ inbound'[d][j] = "prompt" => i = j
                      /\ \A i \in DOMAIN inbound'[d] : inbound'[d][i] = "prompt" =>
                            prompt[d].at = "none" /\ client'[d].stream # "none"
                      /\ client'[d].stream = "none" => prompt[d].at = "none"
                      /\ client'[d].stream # "none" => d \in Talkers
    BY <1>1 DEF Requested, tasks
  <2>1. CASE d = c
    <3>1. inbound'[d] = Append(inbound[c], "prompt")
      BY <1>1, <2>1 DEF IInv, Types
    <3>2. \A i \in DOMAIN inbound[c] : inbound[c][i] # "prompt"
      BY <1>1 DEF IInv, Stream, Requested
    <3>3. \A i \in DOMAIN inbound'[d] : inbound'[d][i] = "prompt" => i = Len(inbound[c]) + 1
      BY <1>2, <3>1, <3>2
    <3> QED
      BY <1>1, <1>5, <1>6, <2>1, <3>3
  <2>2. CASE d # c
    <3>1. inbound'[d] = inbound[d] /\ client'[d] = client[d]
      BY <1>1, <1>5, <2>2 DEF IInv, Types
    <3> QED
      BY <3>1 DEF IInv, Stream, Requested
  <2> QED
    BY <2>1, <2>2
<1>9. Flowing'
  <2> SUFFICES ASSUME NEW d \in Conns PROVE \E a, b \in Nat : Flows(d, a, b)'
    BY DEF Flowing
  <2>1. PICK a, b \in Nat : Flows(d, a, b)
    BY DEF IInv, Stream, Flowing
  <2>2. InOrder(wire[d], a, b)'
    BY <1>1, <2>1 DEF Flows, InOrder, IsFrame
  <2>3. Sends(d, b)'
    BY <1>1, <2>1 DEF Flows, Sends, Held, IsFrame, server, tasks, connections
  <2>4. Reads(client[d], a)'
    <3>1. CASE d # c
      BY <3>1, <1>5, <2>1 DEF Flows, Reads
    <3>2. CASE d = c
      <4>1. a = 0
        BY <1>6, <2>1, <3>2 DEF Flows, Sends
      <4>2. client'[c].got = << >> /\ client'[c].frames = << >>
        BY <1>5, <1>6
      <4> QED
        BY <3>2, <4>1, <4>2 DEF Reads
    <3> QED
      BY <3>1, <3>2
  <2> QED
    BY <2>1, <2>2, <2>3, <2>4 DEF Flows
<1>10. Consuming'
  <2> SUFFICES ASSUME NEW d \in Conns PROVE Consumes(client[d])'
    BY DEF Consuming
  <2>1. CASE d # c
    BY <2>1, <1>5 DEF IInv, Stream, Consuming, Consumes, IsFrame
  <2>2. CASE d = c
    <3>1. client'[c].stream = "open" /\ ~client'[c].overflowed
      BY <1>1, <1>2, <1>5 DEF Consumes
    <3> QED
      BY <2>2, <3>1, <1>2, <1>5, <1>6 DEF Consumes
  <2> QED
    BY <2>1, <2>2
<1>11. Greeted'
  BY <1>1, <1>5 DEF IInv, Stream, Greeted, server, connections
<1> QED
  BY <1>1, <1>4, <1>7, <1>8, <1>9, <1>10, <1>11, ServerStays DEF IInv, Server, Stream

(* What is read off the wire, and what is written to it.                   *)
LEMMA WireTail ==
  ASSUME NEW w \in Seq(Messages), w # << >>, NEW a \in Nat, NEW b \in Nat, a <= b,
         InOrder(w, a, b)
  PROVE  /\ IsFrame(Head(w)) => Head(w).n = a + 1 /\ a + 1 <= b /\ InOrder(Tail(w), a + 1, b)
         /\ ~IsFrame(Head(w)) => InOrder(Tail(w), a, b)
<1> DEFINE t == Tail(w)
<1>1. /\ Head(w) = w[1] /\ Len(w) \in Nat /\ Len(w) > 0 /\ DOMAIN w = 1..Len(w)
      /\ DOMAIN t = 1..(Len(w) - 1)
      /\ \A i \in DOMAIN t : i + 1 \in DOMAIN w /\ t[i] = w[i + 1]
  OBVIOUS
<1>2. \A i \in DOMAIN w : w[i].n \in Nat
  <2>1. \A i \in DOMAIN w : w[i] \in Messages
    OBVIOUS
  <2> QED
    BY <2>1 DEF Messages
<1>3. ASSUME IsFrame(w[1]) PROVE w[1].n = a + 1 /\ a + 1 <= b
  <2>1. w[1].n \in (a + 1)..b
    BY <1>1, <1>3 DEF InOrder
  <2>2. PICK i \in DOMAIN w : IsFrame(w[i]) /\ w[i].n = a + 1
    BY <2>1 DEF InOrder
  <2>3. i # 1 => w[1].n < w[i].n
    BY <1>1, <1>3, <2>2 DEF InOrder
  <2> QED
    BY <2>1, <2>2, <2>3
<1>4. \A i, j \in DOMAIN t : IsFrame(t[i]) /\ IsFrame(t[j]) /\ i < j => t[i].n < t[j].n
  <2> SUFFICES ASSUME NEW i \in DOMAIN t, NEW j \in DOMAIN t,
                      IsFrame(t[i]), IsFrame(t[j]), i < j
               PROVE  t[i].n < t[j].n
    OBVIOUS
  <2>1. i + 1 \in DOMAIN w /\ j + 1 \in DOMAIN w /\ i + 1 < j + 1
    BY <1>1
  <2>2. t[i] = w[i + 1] /\ t[j] = w[j + 1]
    BY <1>1
  <2> QED
    BY <2>1, <2>2 DEF InOrder
<1>5. CASE IsFrame(w[1])
  <2>1. \A i \in DOMAIN t : IsFrame(t[i]) => t[i].n \in (a + 2)..b
    <3> SUFFICES ASSUME NEW i \in DOMAIN t, IsFrame(t[i]) PROVE t[i].n \in (a + 2)..b
      OBVIOUS
    <3>1. i + 1 \in DOMAIN w /\ 1 \in DOMAIN w /\ 1 < i + 1 /\ t[i] = w[i + 1]
      BY <1>1
    <3>2. w[i + 1].n \in (a + 1)..b /\ w[1].n < w[i + 1].n
      BY <1>5, <3>1 DEF InOrder
    <3> QED
      BY <1>3, <1>5, <3>1, <3>2
  <2>2. \A n \in (a + 2)..b : \E i \in DOMAIN t : IsFrame(t[i]) /\ t[i].n = n
    <3> SUFFICES ASSUME NEW n \in (a + 2)..b PROVE \E i \in DOMAIN t : IsFrame(t[i]) /\ t[i].n = n
      OBVIOUS
    <3>1. PICK i \in DOMAIN w : IsFrame(w[i]) /\ w[i].n = n
      BY DEF InOrder
    <3>2. i # 1
      BY <1>3, <1>5, <3>1
    <3>3. PICK k \in DOMAIN t : i = k + 1
      <4>1. i \in 1..Len(w) /\ i # 1
        BY <1>1, <3>2
      <4>2. i - 1 \in 1..(Len(w) - 1) /\ i = (i - 1) + 1
        BY <1>1, <4>1
      <4> QED
        BY <1>1, <4>2
    <3> QED
      BY <1>1, <3>1, <3>3
  <2>3. InOrder(t, a + 1, b)
    <3>1. (a + 1) + 1 = a + 2
      OBVIOUS
    <3> QED
      BY <1>4, <2>1, <2>2, <3>1 DEF InOrder
  <2> QED
    BY <1>1, <1>3, <1>5, <2>3
<1>6. CASE ~IsFrame(w[1])
  <2>1. \A i \in DOMAIN t : IsFrame(t[i]) => t[i].n \in (a + 1)..b
    BY <1>1 DEF InOrder
  <2>2. \A n \in (a + 1)..b : \E i \in DOMAIN t : IsFrame(t[i]) /\ t[i].n = n
    <3> SUFFICES ASSUME NEW n \in (a + 1)..b PROVE \E i \in DOMAIN t : IsFrame(t[i]) /\ t[i].n = n
      OBVIOUS
    <3>1. PICK i \in DOMAIN w : IsFrame(w[i]) /\ w[i].n = n
      BY DEF InOrder
    <3>2. PICK k \in DOMAIN t : i = k + 1
      <4>1. i \in 1..Len(w) /\ i # 1
        BY <1>1, <1>6, <3>1
      <4>2. i - 1 \in 1..(Len(w) - 1) /\ i = (i - 1) + 1
        BY <1>1, <4>1
      <4> QED
        BY <1>1, <4>2
    <3> QED
      BY <1>1, <3>1, <3>2
  <2> QED
    BY <1>1, <1>4, <1>6, <2>1, <2>2 DEF InOrder
<1> QED
  BY <1>5, <1>6

LEMMA WireAppend ==
  ASSUME NEW w \in Seq(Messages), NEW m \in Messages, NEW a \in Nat, NEW b \in Nat, a <= b,
         InOrder(w, a, b), IsFrame(m) => m.n = b + 1
  PROVE  /\ IsFrame(m) => InOrder(Append(w, m), a, b + 1)
         /\ ~IsFrame(m) => InOrder(Append(w, m), a, b)
<1> DEFINE x == Append(w, m)
           l == Len(w)
<1>1. /\ l \in Nat /\ DOMAIN w = 1..l /\ DOMAIN x = 1..(l + 1) /\ x[l + 1] = m
      /\ \A i \in DOMAIN w : x[i] = w[i] /\ w[i].n \in Nat
  <2>1. \A i \in DOMAIN w : w[i] \in Messages
    OBVIOUS
  <2>2. \A i \in DOMAIN w : w[i].n \in Nat
    BY <2>1 DEF Messages
  <2> QED
    BY <2>2
<1>2. \A i \in DOMAIN x : i = l + 1 \/ i \in DOMAIN w
  BY <1>1
<1>3. CASE IsFrame(m)
  <2>1. \A i \in DOMAIN x : IsFrame(x[i]) => x[i].n \in (a + 1)..(b + 1)
    BY <1>1, <1>2, <1>3 DEF InOrder
  <2>2. \A i, j \in DOMAIN x : IsFrame(x[i]) /\ IsFrame(x[j]) /\ i < j => x[i].n < x[j].n
    <3> SUFFICES ASSUME NEW i \in DOMAIN x, NEW j \in DOMAIN x,
                        IsFrame(x[i]), IsFrame(x[j]), i < j
                 PROVE  x[i].n < x[j].n
      OBVIOUS
    <3>1. i \in DOMAIN w /\ x[i] = w[i] /\ w[i].n \in (a + 1)..b
      BY <1>1 DEF InOrder
    <3>2. CASE j \in DOMAIN w
      BY <1>1, <3>1, <3>2 DEF InOrder
    <3>3. CASE j = l + 1
      BY <1>1, <1>3, <3>1, <3>3
    <3> QED
      BY <1>2, <3>2, <3>3
  <2>3. \A n \in (a + 1)..(b + 1) : \E i \in DOMAIN x : IsFrame(x[i]) /\ x[i].n = n
    <3> SUFFICES ASSUME NEW n \in (a + 1)..(b + 1)
                 PROVE  \E i \in DOMAIN x : IsFrame(x[i]) /\ x[i].n = n
      OBVIOUS
    <3>1. CASE n = b + 1
      BY <1>1, <1>3, <3>1
    <3>2. CASE n \in (a + 1)..b
      <4>1. PICK i \in DOMAIN w : IsFrame(w[i]) /\ w[i].n = n
        BY <3>2 DEF InOrder
      <4> QED
        BY <1>1, <4>1
    <3> QED
      BY <3>1, <3>2
  <2> QED
    BY <1>3, <2>1, <2>2, <2>3 DEF InOrder
<1>4. CASE ~IsFrame(m)
  <2>1. \A i \in DOMAIN x : IsFrame(x[i]) => i \in DOMAIN w /\ x[i] = w[i]
    BY <1>1, <1>2, <1>4
  <2>2. \A n \in (a + 1)..b : \E i \in DOMAIN x : IsFrame(x[i]) /\ x[i].n = n
    <3> SUFFICES ASSUME NEW n \in (a + 1)..b
                 PROVE  \E i \in DOMAIN x : IsFrame(x[i]) /\ x[i].n = n
      OBVIOUS
    <3>1. PICK i \in DOMAIN w : IsFrame(w[i]) /\ w[i].n = n
      BY DEF InOrder
    <3> QED
      BY <1>1, <3>1
  <2>3. /\ \A i \in DOMAIN x : IsFrame(x[i]) => x[i].n \in (a + 1)..b
        /\ \A i, j \in DOMAIN x : IsFrame(x[i]) /\ IsFrame(x[j]) /\ i < j => x[i].n < x[j].n
    BY <2>1 DEF InOrder
  <2> QED
    BY <1>4, <2>2, <2>3 DEF InOrder
<1> QED
  BY <1>3, <1>4

(* What a message makes of the client that reads it.                       *)
LEMMA Dispatched ==
  ASSUME NEW cl \in Clients, NEW m \in Messages, Consumes(cl), Len(cl.frames) <= MaxStream,
         NEW a \in Nat, Reads(cl, a), IsFrame(m) => m.n = a + 1,
         cl.first = "none" => m.kind = "connected"
  PROVE  LET new == Dispatch(cl, m) IN
         /\ new \in Clients /\ Consumes(new) /\ Len(new.frames) <= MaxStream
         /\ IsFrame(m) => Reads(new, a + 1)
         /\ ~IsFrame(m) => Reads(new, a)
         /\ new.stream = cl.stream /\ new.first # "none"
<1> DEFINE new == Dispatch(cl, m)
<1>1. /\ cl.frames \in Seq(Messages) /\ cl.got \in Seq(Nat)
      /\ Len(cl.frames) \in Nat /\ Len(cl.got) \in Nat /\ DOMAIN cl.frames = 1..Len(cl.frames)
  <2>1. cl.frames \in Seq(Messages) /\ cl.got \in Seq(Nat)
    BY DEF Clients
  <2> QED
    BY <2>1
<1>2. CASE m.kind = "pong" /\ cl.ping = "pending"
  <2>1. new = [cl EXCEPT !.ping = "over"] /\ ~IsFrame(m)
    BY <1>2 DEF Dispatch, IsFrame
  <2>2. new \in Clients
    BY <2>1 DEF Clients
  <2>3. /\ new.frames = cl.frames /\ new.got = cl.got /\ new.stream = cl.stream
        /\ new.first = cl.first /\ new.overflowed = cl.overflowed
    BY <2>1 DEF Clients
  <2>4. cl.first # "none"
    BY <1>2
  <2>5. Consumes(new)
    BY <2>3 DEF Consumes
  <2>6. Reads(new, a)
    BY <2>3 DEF Reads
  <2> QED
    BY <2>1, <2>2, <2>3, <2>4, <2>5, <2>6
<1>3. CASE m.kind \in {"frame", "error"} /\ cl.stream = "open"
  <2>1. new = QueueFrame(cl, m) /\ cl.first # "none"
    BY <1>3 DEF Dispatch
  <2>2. CASE cl.overflowed
    <3>1. new = cl /\ cl.frames = <<ErrorFrame>>
      BY <1>3, <2>1, <2>2 DEF QueueFrame, Consumes
    <3>2. ~(\A i \in DOMAIN cl.frames : IsFrame(cl.frames[i]))
      BY <3>1, ErrorFrames DEF IsFrame
    <3> QED
      BY <2>1, <3>1, <3>2 DEF Reads
  <2>3. CASE ~cl.overflowed /\ Len(cl.frames) < MaxStream
    <3> DEFINE x == Append(cl.frames, m)
               l == Len(cl.frames)
    <3>1. new = [cl EXCEPT !.frames = x]
      BY <2>1, <2>3 DEF QueueFrame
    <3>2. /\ x \in Seq(Messages) /\ Len(x) = l + 1 /\ DOMAIN x = 1..(l + 1) /\ x[l + 1] = m
          /\ \A i \in 1..l : x[i] = cl.frames[i]
      BY <1>1
    <3>3. new \in Clients
      BY <3>1, <3>2 DEF Clients
    <3>4. /\ new.frames = x /\ new.got = cl.got /\ new.stream = cl.stream
          /\ new.first = cl.first /\ new.overflowed = cl.overflowed
      BY <3>1 DEF Clients
    <3>5. (\A i \in DOMAIN x : IsFrame(x[i])) =>
             IsFrame(m) /\ \A i \in DOMAIN cl.frames : IsFrame(cl.frames[i])
      <4> SUFFICES ASSUME \A i \in DOMAIN x : IsFrame(x[i])
                   PROVE  IsFrame(m) /\ \A i \in 1..l : IsFrame(cl.frames[i])
        BY <1>1
      <4>1. l + 1 \in DOMAIN x /\ \A i \in 1..l : i \in DOMAIN x
        BY <1>1, <3>2
      <4> QED
        BY <3>2, <4>1
    <3>6. Reads(new, a + 1) /\ (~IsFrame(m) => Reads(new, a))
      <4>1. ASSUME \A i \in DOMAIN x : IsFrame(x[i])
            PROVE  IsFrame(m) /\ Len(cl.got) + Len(x) = a + 1
        <5>1. Len(cl.got) + l = a
          BY <1>3, <3>5, <4>1 DEF Reads
        <5>2. PICK p, q \in Nat : p = Len(cl.got) /\ q = l
          BY <1>1
        <5>3. p + q = a /\ Len(x) = q + 1
          BY <3>2, <5>1, <5>2
        <5>4. p + (q + 1) = (p + q) + 1
          OBVIOUS
        <5> QED
          BY <3>5, <4>1, <5>2, <5>3, <5>4, Zenon
      <4> QED
        BY <3>4, <4>1 DEF Reads
    <3>7. \A i \in DOMAIN x : x[i].kind \in {"frame", "error"}
      BY <1>1, <1>3, <3>2 DEF Consumes
    <3>8. ASSUME NEW i \in DOMAIN x, \A j \in 1..i : IsFrame(x[j])
          PROVE  x[i].n = Len(cl.got) + i
      <4>1. CASE i \in 1..l
        <5>1. \A j \in 1..i : IsFrame(cl.frames[j])
          BY <1>1, <3>2, <3>8, <4>1
        <5> QED
          BY <1>1, <1>3, <3>2, <4>1, <5>1 DEF Consumes
      <4>2. CASE i = l + 1
        <5>1. \A j \in 1..l : IsFrame(cl.frames[j])
          BY <1>1, <3>2, <3>8, <4>2
        <5>2. Len(cl.got) + l = a
          BY <1>1, <1>3, <5>1 DEF Reads
        <5>3. IsFrame(m)
          BY <1>1, <3>2, <3>8, <4>2
        <5>4. PICK p, q \in Nat : p = Len(cl.got) /\ q = l
          BY <1>1
        <5>5. m.n = a + 1 /\ p + q = a
          BY <5>2, <5>3, <5>4
        <5>6. p + (q + 1) = (p + q) + 1
          OBVIOUS
        <5> QED
          BY <3>2, <4>2, <5>4, <5>5, <5>6, Zenon
      <4> QED
        BY <3>2, <4>1, <4>2
    <3>9. Consumes(new)
      BY <1>3, <2>3, <3>4, <3>7, <3>8 DEF Consumes
    <3> QED
      BY <1>1, <2>1, <2>3, <3>2, <3>3, <3>4, <3>6, <3>9, Sizes
  <2>4. CASE ~cl.overflowed /\ ~(Len(cl.frames) < MaxStream)
    <3>1. new = [cl EXCEPT !.overflowed = TRUE, !.frames = <<ErrorFrame>>]
      BY <2>1, <2>4 DEF QueueFrame
    <3>2. new \in Clients
      BY <3>1, ErrorFrames DEF Clients
    <3>3. /\ new.frames = <<ErrorFrame>> /\ new.got = cl.got /\ new.stream = cl.stream
          /\ new.first = cl.first
      BY <3>1 DEF Clients
    <3>4. ~(\A i \in DOMAIN new.frames : IsFrame(new.frames[i])) /\ Len(new.frames) <= MaxStream
      BY <3>3, ErrorFrames, Sizes DEF IsFrame
    <3>5. Reads(new, a) /\ Reads(new, a + 1)
      BY <3>4 DEF Reads
    <3>6. Consumes(new)
      BY <1>3, <3>3, ErrorFrames DEF Consumes, IsFrame
    <3> QED
      BY <2>1, <3>2, <3>3, <3>4, <3>5, <3>6
  <2> QED
    BY <2>2, <2>3, <2>4
<1>4. CASE /\ ~(m.kind = "pong" /\ cl.ping = "pending")
           /\ ~(m.kind \in {"frame", "error"} /\ cl.stream = "open")
  <2>1. new = [cl EXCEPT !.first = IF @ = "none" THEN m.kind ELSE @]
    BY <1>4 DEF Dispatch, QueueMessage
  <2>2. new \in Clients
    BY <2>1 DEF Clients, Messages
  <2>3. /\ new.frames = cl.frames /\ new.got = cl.got /\ new.stream = cl.stream
        /\ new.overflowed = cl.overflowed
        /\ new.first = IF cl.first = "none" THEN "connected" ELSE cl.first
    BY <2>1 DEF Clients
  <2>4. Consumes(new)
    BY <2>3 DEF Consumes, IsFrame
  <2>5. Reads(new, a) /\ (IsFrame(m) => Reads(new, a + 1))
    BY <1>4, <2>3 DEF Reads, IsFrame
  <2> QED
    BY <2>2, <2>3, <2>4, <2>5
<1> QED
  BY <1>2, <1>3, <1>4

LEMMA ReceiveStep ==
  ASSUME IInv, NEW c \in Conns, Receive(c) PROVE IInv'
<1> DEFINE cl == client[c]
           m == Head(wire[c])
<1>1. /\ UNCHANGED <<server, tasks, net, inbound>>
      /\ wire[c] # << >>
      /\ wire' = [wire EXCEPT ![c] = Tail(@)]
      /\ client' = [client EXCEPT ![c] = IF c \in Talkers THEN Dispatch(@, m) ELSE @]
  BY DEF Receive
<1>2. /\ cl \in Clients /\ wire[c] \in Seq(Messages) /\ m \in Messages
      /\ m = wire[c][1] /\ Consumes(cl) /\ Len(cl.frames) <= MaxStream
  <2>1. cl \in Clients /\ wire[c] \in Seq(Messages) /\ Consumes(cl) /\ Len(cl.frames) <= MaxStream
    BY DEF IInv, Types, Server, Bounded, Stream, Consuming
  <2> QED
    BY <1>1, <2>1
<1>3. PICK a, b \in Nat : Flows(c, a, b)
  BY DEF IInv, Stream, Flowing
<1>4. /\ IsFrame(m) => m.n = a + 1 /\ a + 1 <= b /\ InOrder(Tail(wire[c]), a + 1, b)
      /\ ~IsFrame(m) => InOrder(Tail(wire[c]), a, b)
  BY <1>1, <1>2, <1>3, WireTail DEF Flows
<1>5. c \in Talkers => (cl.first = "none" => m.kind = "connected")
  BY <1>1, <1>2 DEF IInv, Stream, Greeted
<1>6. /\ client'[c] = IF c \in Talkers THEN Dispatch(cl, m) ELSE cl
      /\ wire'[c] = Tail(wire[c])
      /\ \A d \in Conns \ {c} : client'[d] = client[d] /\ wire'[d] = wire[d]
  BY <1>1 DEF IInv, Types
<1>7. IsFrame(m) => cl.stream # "none"
  <2>1. cl.stream = "none" => b = 0
    BY <1>3 DEF Flows, Sends, IInv, Stream, Requested
  <2> QED
    BY <1>3, <1>4, <2>1
<1>8. /\ client'[c] \in Clients /\ Consumes(client'[c]) /\ Len(client'[c].frames) <= MaxStream
      /\ IsFrame(m) => Reads(client'[c], a + 1)
      /\ ~IsFrame(m) => Reads(client'[c], a)
      /\ client'[c].stream = cl.stream
      /\ c \in Talkers => client'[c].first # "none"
  <2>1. Reads(cl, a)
    BY <1>3 DEF Flows
  <2>2. CASE c \in Talkers
    <3>1. client'[c] = Dispatch(cl, m)
      BY <1>6, <2>2
    <3> QED
      BY <1>2, <1>3, <1>4, <1>5, <2>1, <2>2, <3>1, Dispatched
  <2>3. CASE c \notin Talkers
    <3>1. client'[c] = cl
      BY <1>6, <2>3
    <3>2. cl.stream = "none"
      BY <2>3 DEF IInv, Stream, Requested
    <3>3. ~IsFrame(m)
      BY <1>7, <3>2
    <3> QED
      BY <1>2, <2>1, <2>3, <3>1, <3>3
  <2> QED
    BY <2>2, <2>3
<1>9. Types'
  <2>1. wire' \in [Conns -> Seq(Messages)]
    BY <1>1, <1>2 DEF IInv, Types
  <2>2. client' \in [Conns -> Clients]
    BY <1>1, <1>6, <1>8 DEF IInv, Types
  <2> QED
    BY <1>1, <2>1, <2>2 DEF IInv, Types, server, tasks, connections
<1>10. Bounded'
  <2> SUFFICES ASSUME NEW d \in Conns
               PROVE  Len(wire'[d]) <= MaxWire /\ Len(client'[d].frames) <= MaxStream
    BY <1>1 DEF IInv, Server, Bounded, server, connections
  <2>1. CASE d = c
    BY <1>1, <1>2, <1>6, <1>8, <2>1, Sizes DEF IInv, Server, Bounded
  <2>2. CASE d # c
    BY <1>6, <2>2 DEF IInv, Server, Bounded
  <2> QED
    BY <2>1, <2>2
<1>11. Requested'
  <2>1. \A d \in Conns : client'[d].stream = client[d].stream
    BY <1>6, <1>8
  <2> QED
    BY <1>1, <2>1 DEF IInv, Stream, Requested, tasks
<1>12. Flowing'
  <2> SUFFICES ASSUME NEW d \in Conns PROVE \E x, y \in Nat : Flows(d, x, y)'
    BY DEF Flowing
  <2>1. ASSUME NEW x \in Nat, NEW y \in Nat, Flows(d, x, y) PROVE Sends(d, y)'
    BY <1>1, <2>1 DEF Flows, Sends, Held, IsFrame, server, tasks, connections
  <2>2. CASE d # c
    <3>1. PICK x, y \in Nat : Flows(d, x, y)
      BY DEF IInv, Stream, Flowing
    <3>2. InOrder(wire[d], x, y)' /\ Reads(client[d], x)'
      BY <1>6, <2>2, <3>1 DEF Flows, InOrder, Reads, IsFrame
    <3> QED
      BY <2>1, <3>1, <3>2 DEF Flows
  <2>3. CASE d = c
    <3>1. Sends(c, b)'
      BY <1>3, <2>1, <2>3
    <3>2. CASE IsFrame(m)
      <4>1. InOrder(wire[c], a + 1, b)' /\ Reads(client[c], a + 1)' /\ a + 1 <= b
        BY <1>4, <1>6, <1>8, <3>2 DEF InOrder, Reads, IsFrame
      <4>2. Flows(c, a + 1, b)'
        BY <3>1, <4>1 DEF Flows
      <4> QED
        BY <2>3, <4>2
    <3>3. CASE ~IsFrame(m)
      <4>1. InOrder(wire[c], a, b)' /\ Reads(client[c], a)'
        BY <1>4, <1>6, <1>8, <3>3 DEF InOrder, Reads, IsFrame
      <4>2. Flows(c, a, b)'
        BY <1>3, <3>1, <4>1 DEF Flows
      <4> QED
        BY <2>3, <4>2
    <3> QED
      BY <3>2, <3>3
  <2> QED
    BY <2>2, <2>3
<1>13. Consuming'
  <2> SUFFICES ASSUME NEW d \in Conns PROVE Consumes(client'[d])
    BY DEF Consuming, Consumes, IsFrame
  <2> QED
    BY <1>6, <1>8 DEF IInv, Stream, Consuming
<1>14. Greeted'
  <2> SUFFICES ASSUME NEW d \in Talkers \cap Conns, client'[d].first = "none", d # c
               PROVE  /\ wire'[d] # << >> => wire'[d][1].kind = "connected"
                      /\ wire'[d] = << >> /\ writer[d] = "writing" => current[d].kind = "connected"
                      /\ wire'[d] = << >> /\ writer[d] = "waiting" =>
                            sendQueue[d] # << >> /\ sendQueue[d][1].kind = "connected"
    BY <1>1, <1>8 DEF Greeted, server, connections
  <2> QED
    BY <1>6 DEF IInv, Stream, Greeted
<1> QED
  BY <1>1, <1>9, <1>10, <1>11, <1>12, <1>13, <1>14, ServerStays DEF IInv, Server, Stream

-----------------------------------------------------------------------------
(* What is held for a socket *)

LEMMA HeldTypes ==
  ASSUME Types, NEW c \in Conns
  PROVE  /\ current[c] \in Messages /\ sendQueue[c] \in Seq(Messages)
         /\ \A m \in Held(c) : m \in Messages
<1>1. current[c] \in Messages /\ sendQueue[c] \in Seq(Messages)
  BY DEF Types
<1> QED
  BY <1>1 DEF Held, Range

(* A promise is one of a message that is held.                             *)
Kept(t) == \E c \in Conns : writer[c] \in LiveWriter /\ \E m \in Held(c) : m.by = t

LEMMA PromisesHeld ==
  ASSUME PromisesAreKept, NEW t \in Senders, future[t] = "pending" PROVE Kept(t)
BY DEF PromisesAreKept, Kept, Waiters, Held, Range

LEMMA HeldPromises ==
  ASSUME \A t \in Senders : future'[t] = "pending" => Kept(t)' PROVE PromisesAreKept'
BY DEF PromisesAreKept, Kept, Waiters, Held, Range

(* How a future fares of which nobody has more to say.                     *)
Fares(t) ==
    \/ future'[t] = future[t]
    \/ future[t] \in {"pending", "shutting"} /\ future'[t] \in {"failed", "cancelled"}

(* A step that takes messages away, or ends prompts, disturbs no stream.   *)
LEMMA FewerHeld ==
  ASSUME IInv, UNCHANGED <<wire, client>>,
         \A c \in Conns : /\ \A m \in Held(c)' : m \in Held(c) \/ m = NoMsg
                          /\ \/ prompt'[c].at = "done"
                             \/ prompt'[c] = prompt[c] /\ Fares(Pro(c))
  PROVE  Flowing' /\ (\A c \in Conns : Heard(c)') /\ Consuming'
<1>1. \A c \in Conns : NoMsg.by # Pro(c) /\ ~IsFrame(NoMsg)
  BY Tasks, NoMsgIs DEF IsFrame
<1>2. ASSUME NEW c \in Conns PROVE Heard(c)'
  <2>1. Heard(c)
    BY DEF IInv, Stream, OneAtATime
  <2>2. InFlight(c)' => InFlight(c)
    BY <1>1 DEF InFlight
  <2> QED
    BY <2>1, <2>2 DEF Heard, Fares
<1>3. ASSUME NEW c \in Conns PROVE \E a, b \in Nat : Flows(c, a, b)'
  <2>1. PICK a, b \in Nat : Flows(c, a, b)
    BY DEF IInv, Stream, Flowing
  <2>2. InOrder(wire[c], a, b)' /\ Reads(client[c], a)'
    BY <2>1 DEF Flows, InOrder, Reads, IsFrame
  <2>3. \A m \in Held(c)' : IsFrame(m) => m.by = Pro(c) /\ m.n = b + 1
    BY <1>1, <2>1 DEF Flows, Sends
  <2>4. Sends(c, b)
    BY <2>1 DEF Flows
  <2>5. CASE prompt'[c].at = "done"
    <3>1. Sends(c, b)'
      BY <2>3, <2>5 DEF Sends, IsFrame
    <3> QED
      BY <2>1, <2>2, <3>1 DEF Flows
  <2>6. CASE prompt'[c] = prompt[c] /\ Fares(Pro(c))
    <3>1. prompt[c].at = "running" /\ prompt[c].kind = "frames" =>
             \A m \in Held(c)' : m.by = Pro(c) => IsFrame(m)
      BY <1>1, <2>4 DEF Sends
    <3>2. Sends(c, b)'
      BY <2>3, <2>4, <2>6, <3>1 DEF Sends, Fares, IsFrame
    <3> QED
      BY <2>1, <2>2, <3>2 DEF Flows
  <2> QED
    BY <2>5, <2>6
<1>4. Consuming'
  BY ConsumingStays DEF IInv, Stream
<1> QED
  BY <1>2, <1>3, <1>4 DEF Flowing

LEMMA FewerPlaced ==
  ASSUME IInv,
         \A c \in Conns : /\ \A m \in Held(c)' : m \in Held(c) \/ m = NoMsg
                          /\ future'[End(c)] = "cancelled" => writer'[c] = "done"
  PROVE  Placed'
BY NoMsgIs DEF IInv, Server, Placed

LEMMA ResolveIs ==
  ASSUME Types, NEW ts, NEW how \in {"sent", "failed", "cancelled"}, future' = Resolve(ts, how)
  PROVE  /\ future' \in [Senders -> Futures]
         /\ \A t \in Senders :
               /\ t \in ts /\ future[t] = "pending" => future'[t] = how
               /\ ~(t \in ts /\ future[t] = "pending") => future'[t] = future[t]
<1>1. future \in [Senders -> Futures] /\ how \in Futures
  BY DEF Types, Futures
<1> QED
  BY <1>1 DEF Resolve

LEMMA PromisesFollow ==
  ASSUME IInv,
         \A t \in Senders : future'[t] = "pending" => future[t] = "pending",
         \A c \in Conns, m \in Messages :
            writer[c] \in LiveWriter /\ m \in Held(c) /\ m.by \in Senders
               /\ future'[m.by] = "pending"
            => writer'[c] \in LiveWriter /\ m \in Held(c)'
  PROVE  PromisesAreKept'
<1> SUFFICES ASSUME NEW t \in Senders, future'[t] = "pending" PROVE Kept(t)'
  BY HeldPromises
<1>1. Kept(t)
  BY PromisesHeld DEF IInv, Server
<1>2. PICK c \in Conns : writer[c] \in LiveWriter /\ \E m \in Held(c) : m.by = t
  BY <1>1 DEF Kept
<1>3. PICK m \in Held(c) : m.by = t
  BY <1>2
<1>4. m \in Messages
  BY HeldTypes DEF IInv
<1>5. writer'[c] \in LiveWriter /\ m \in Held(c)'
  BY <1>2, <1>3, <1>4
<1> QED
  BY <1>3, <1>5 DEF Kept

LEMMA QueueTail ==
  ASSUME NEW q \in Seq(Messages), q # << >>
  PROVE  /\ Head(q) \in Messages /\ Tail(q) \in Seq(Messages) /\ Head(q) = q[1]
         /\ 1 \in DOMAIN q /\ Len(Tail(q)) <= Len(q)
         /\ \A i \in DOMAIN Tail(q) : i + 1 \in DOMAIN q /\ i + 1 # 1 /\ Tail(q)[i] = q[i + 1]
         /\ Range(q) = {Head(q)} \cup Range(Tail(q))
<1>1. /\ Len(q) \in Nat /\ Len(q) > 0 /\ DOMAIN q = 1..Len(q) /\ Tail(q) \in Seq(Messages)
      /\ Head(q) \in Messages /\ Head(q) = q[1] /\ DOMAIN Tail(q) = 1..(Len(q) - 1)
      /\ Len(Tail(q)) = Len(q) - 1
      /\ \A i \in DOMAIN Tail(q) : Tail(q)[i] = q[i + 1]
  OBVIOUS
<1>2. \A i \in DOMAIN Tail(q) : i + 1 \in DOMAIN q /\ i + 1 # 1
  BY <1>1
<1>3. \A i \in DOMAIN q : i = 1 \/ (i - 1 \in DOMAIN Tail(q) /\ q[i] = Tail(q)[i - 1])
  <2> SUFFICES ASSUME NEW i \in 1..Len(q), i # 1
               PROVE  i - 1 \in DOMAIN Tail(q) /\ q[i] = Tail(q)[i - 1]
    BY <1>1
  <2>1. i - 1 \in 1..(Len(q) - 1) /\ (i - 1) + 1 = i
    BY <1>1
  <2>2. i - 1 \in DOMAIN Tail(q)
    BY <1>1, <2>1
  <2>3. Tail(q)[i - 1] = q[(i - 1) + 1]
    BY <1>1, <2>2
  <2> QED
    BY <2>1, <2>2, <2>3
<1>4. Range(q) \subseteq {Head(q)} \cup Range(Tail(q))
  BY <1>1, <1>3 DEF Range
<1>5. {Head(q)} \cup Range(Tail(q)) \subseteq Range(q)
  BY <1>1, <1>2 DEF Range
<1> QED
  BY <1>1, <1>2, <1>4, <1>5

-----------------------------------------------------------------------------
(* The writer *)

LEMMA WriterTakeStep ==
  ASSUME IInv, NEW c \in Conns, WriterTake(c) PROVE IInv'
<1> DEFINE q == sendQueue[c]
<1>1. /\ UNCHANGED <<session, known, closed, future, emitter, endpoint, prompt,
                     net, inbound, wire, client>>
      /\ writer[c] = "waiting" /\ q # << >>
      /\ writer' = [writer EXCEPT ![c] = "writing"]
      /\ current' = [current EXCEPT ![c] = Head(q)]
      /\ sendQueue' = [sendQueue EXCEPT ![c] = Tail(q)]
  BY DEF WriterTake, tasks, sockets
<1>2. /\ writer'[c] = "writing" /\ current'[c] = Head(q) /\ sendQueue'[c] = Tail(q)
      /\ \A d \in Conns \ {c} : /\ writer'[d] = writer[d] /\ current'[d] = current[d]
                                /\ sendQueue'[d] = sendQueue[d]
  BY <1>1 DEF IInv, Types
<1>3. /\ Head(q) \in Messages /\ Tail(q) \in Seq(Messages) /\ Head(q) = q[1] /\ 1 \in DOMAIN q
      /\ Len(Tail(q)) <= Len(q)
      /\ \A i \in DOMAIN Tail(q) : i + 1 \in DOMAIN q /\ i + 1 # 1 /\ Tail(q)[i] = q[i + 1]
      /\ Range(q) = {Head(q)} \cup Range(Tail(q)) /\ q \in Seq(Messages)
  BY <1>1, QueueTail DEF IInv, Types
<1>4. Types'
  <2>1. sendQueue' \in [Conns -> Seq(Messages)]
    BY <1>1, <1>3 DEF IInv, Types
  <2>2. current' \in [Conns -> Messages]
    BY <1>1, <1>3 DEF IInv, Types
  <2>3. writer' \in [Conns -> {"none", "done"} \cup LiveWriter]
    BY <1>1 DEF IInv, Types, LiveWriter
  <2> QED
    BY <1>1, <2>1, <2>2, <2>3 DEF IInv, Types
<1>5. current[c] = NoMsg
  BY <1>1 DEF IInv, Server, Written
<1>6. /\ \A d \in Conns : Held(d)' \subseteq Held(d)
      /\ \A d \in Conns : \A m \in Held(d) : m \in Held(d)' \/ m = NoMsg
  <2>1. Held(c)' = Range(q) /\ Held(c) = {NoMsg} \cup Range(q)
    BY <1>2, <1>3, <1>5 DEF Held
  <2>2. \A d \in Conns \ {c} : Held(d)' = Held(d)
    BY <1>2 DEF Held
  <2> QED
    BY <2>1, <2>2
<1>7. Bounded'
  <2> SUFFICES ASSUME NEW d \in Conns PROVE Len(sendQueue'[d]) <= MaxQueue
    BY <1>1 DEF IInv, Server, Bounded
  <2>1. Len(q) <= MaxQueue /\ Len(sendQueue[d]) <= MaxQueue
    BY DEF IInv, Server, Bounded
  <2>2. q \in Seq(Messages) /\ Tail(q) \in Seq(Messages) /\ Len(Tail(q)) <= Len(q)
    BY <1>3
  <2>3. Len(q) \in Nat /\ Len(Tail(q)) \in Nat
    BY <2>2
  <2>4. Len(Tail(q)) <= MaxQueue
    BY <2>1, <2>2, <2>3, Sizes
  <2> QED
    BY <1>2, <2>1, <2>4
<1>8. Written'
  BY <1>1, <1>2, NoMsgIs DEF IInv, Server, Written
<1>9. Placed'
  <2>1. \A d \in Conns : future'[End(d)] = "cancelled" => writer'[d] = "done"
    BY <1>1, <1>2 DEF IInv, Server, Placed
  <2> QED
    BY <1>6, <2>1, FewerPlaced
<1>10. Listed'
  BY <1>1, <1>2 DEF IInv, Server, Listed
<1>11. Walking' /\ Requested'
  BY <1>1, WalkingStays, RequestedStays DEF IInv, Server, Stream
<1>12. PromisesAreKept'
  <2>1. \A d \in Conns : writer[d] \in LiveWriter => writer'[d] \in LiveWriter
    BY <1>2 DEF LiveWriter
  <2>2. NoMsg.by \notin Senders
    BY Tasks, NoMsgIs
  <2> QED
    BY <1>1, <1>6, <2>1, <2>2, PromisesFollow
<1>13. Flowing' /\ Consuming' /\ \A d \in Conns : Heard(d)'
  <2>1. \A d \in Conns : prompt'[d] = prompt[d] /\ Fares(Pro(d))
    BY <1>1 DEF Fares
  <2> QED
    BY <1>1, <1>6, <2>1, FewerHeld
<1>14. OneAtATime'
  <2>1. ASSUME NEW d \in Conns PROVE Single(d)'
    <3>1. Single(d)
      BY DEF IInv, Stream, OneAtATime
    <3>2. CASE d # c
      BY <1>2, <3>1, <3>2 DEF Single
    <3>3. CASE d = c
      <4>1. \A i, j \in DOMAIN q : q[i].by = Pro(c) /\ q[j].by = Pro(c) => i = j
        BY <3>1, <3>3 DEF Single
      <4>2. \A i, j \in DOMAIN Tail(q) :
               Tail(q)[i].by = Pro(c) /\ Tail(q)[j].by = Pro(c) => i = j
        <5> SUFFICES ASSUME NEW i \in DOMAIN Tail(q), NEW j \in DOMAIN Tail(q),
                            Tail(q)[i].by = Pro(c), Tail(q)[j].by = Pro(c)
                     PROVE  i = j
          OBVIOUS
        <5>1. i + 1 = j + 1 /\ i \in Nat /\ j \in Nat
          BY <1>3, <4>1
        <5> QED
          BY <5>1
      <4>3. Head(q).by = Pro(c) => \A i \in DOMAIN Tail(q) : Tail(q)[i].by # Pro(c)
        BY <1>3, <4>1
      <4> QED
        BY <1>2, <3>3, <4>2, <4>3 DEF Single
    <3> QED
      BY <3>2, <3>3
  <2> QED
    BY <1>13, <2>1 DEF OneAtATime
<1>15. Greeted'
  BY <1>1, <1>2, <1>3 DEF IInv, Stream, Greeted
<1> QED
  BY <1>4, <1>7, <1>8, <1>9, <1>10, <1>11, <1>12, <1>13, <1>14, <1>15 DEF IInv, Server, Stream

LEMMA WriterSentStep ==
  ASSUME IInv, NEW c \in Conns, WriterSent(c) PROVE IInv'
<1> DEFINE m == current[c]
           w == wire[c]
<1>1. /\ UNCHANGED <<session, known, closed, sendQueue, emitter, endpoint, prompt,
                     net, inbound, client>>
      /\ writer[c] = "writing" /\ Len(w) < MaxWire
      /\ wire' = [wire EXCEPT ![c] = Append(w, m)]
      /\ future' = Resolve({m.by}, "sent")
      /\ current' = [current EXCEPT ![c] = NoMsg]
      /\ writer' = [writer EXCEPT ![c] = "waiting"]
  BY DEF WriterSent, tasks
<1>2. /\ writer'[c] = "waiting" /\ current'[c] = NoMsg /\ wire'[c] = Append(w, m)
      /\ \A d \in Conns \ {c} : /\ writer'[d] = writer[d] /\ current'[d] = current[d]
                                /\ wire'[d] = wire[d]
  BY <1>1 DEF IInv, Types
<1>3. /\ m \in Messages /\ w \in Seq(Messages) /\ Append(w, m) \in Seq(Messages)
      /\ Len(w) \in Nat /\ Len(Append(w, m)) = Len(w) + 1
      /\ m.by \in {End(c), Pro(c), None} \cup Emitters
  <2>1. m \in Messages /\ w \in Seq(Messages)
    BY DEF IInv, Types
  <2>2. m \in Held(c)
    BY DEF Held
  <2> QED
    BY <2>1, <2>2 DEF IInv, Server, Placed
<1>4. /\ future' \in [Senders -> Futures]
      /\ \A t \in Senders :
            /\ t = m.by /\ future[t] = "pending" => future'[t] = "sent"
            /\ ~(t = m.by /\ future[t] = "pending") => future'[t] = future[t]
  <2>1. Types
    BY DEF IInv
  <2>2. /\ future' \in [Senders -> Futures]
        /\ \A t \in Senders :
              /\ t \in {m.by} /\ future[t] = "pending" => future'[t] = "sent"
              /\ ~(t \in {m.by} /\ future[t] = "pending") => future'[t] = future[t]
    BY <1>1, <2>1, ResolveIs
  <2> QED
    BY <2>2
<1>5. Types'
  <2>1. wire' \in [Conns -> Seq(Messages)]
    BY <1>1, <1>3 DEF IInv, Types
  <2>2. current' \in [Conns -> Messages]
    BY <1>1, NoMsgIs DEF IInv, Types
  <2>3. writer' \in [Conns -> {"none", "done"} \cup LiveWriter]
    BY <1>1 DEF IInv, Types, LiveWriter
  <2> QED
    BY <1>1, <1>4, <2>1, <2>2, <2>3 DEF IInv, Types
<1>6. /\ \A d \in Conns : \A x \in Held(d)' : x \in Held(d) \/ x = NoMsg
      /\ \A d \in Conns : \A x \in Held(d) : x \in Held(d)' \/ (d = c /\ x = m)
      /\ Held(c)' = {NoMsg} \cup Range(sendQueue[c])
      /\ \A d \in Conns \ {c} : Held(d)' = Held(d)
  BY <1>1, <1>2 DEF Held
<1>7. Bounded'
  <2> SUFFICES ASSUME NEW d \in Conns PROVE Len(wire'[d]) <= MaxWire
    BY <1>1 DEF IInv, Server, Bounded
  <2>1. Len(wire[d]) <= MaxWire
    BY DEF IInv, Server, Bounded
  <2>2. Len(Append(w, m)) <= MaxWire
    BY <1>1, <1>3, Sizes
  <2> QED
    BY <1>2, <2>1, <2>2
<1>8. Written'
  BY <1>1, <1>2 DEF IInv, Server, Written
<1>9. Placed'
  <2>1. ASSUME NEW d \in Conns, future'[End(d)] = "cancelled" PROVE writer'[d] = "done"
    <3>1. future[End(d)] = "cancelled"
      BY <1>4, <2>1, Tasks
    <3>2. writer[d] = "done"
      BY <3>1 DEF IInv, Server, Placed
    <3> QED
      BY <1>1, <1>2, <3>2
  <2> QED
    BY <1>6, <2>1, FewerPlaced
<1>10. Listed'
  BY <1>1, <1>2 DEF IInv, Server, Listed
<1>11. Walking' /\ Requested' /\ Consuming'
  BY <1>1, WalkingStays, RequestedStays, ConsumingStays DEF IInv, Server, Stream
<1>12. PromisesAreKept'
  <2>1. \A d \in Conns : writer[d] \in LiveWriter => writer'[d] \in LiveWriter
    BY <1>2 DEF LiveWriter
  <2>2. \A t \in Senders : future'[t] = "pending" => future[t] = "pending" /\ t # m.by
    BY <1>4
  <2> QED
    BY <1>6, <2>1, <2>2, PromisesFollow
<1>13. ASSUME NEW d \in Conns PROVE Single(d)'
  <2>1. Single(d)
    BY DEF IInv, Stream, OneAtATime
  <2> QED
    BY <1>1, <1>2, <2>1, NoMsgIs, Tasks DEF Single
<1>14. m.by = Pro(c) => ~InFlight(c)'
  <2>1. Single(c)
    BY DEF IInv, Stream, OneAtATime
  <2> QED
    BY <1>6, <2>1, NoMsgIs, Tasks DEF Single, InFlight, Range
<1>15. \A d \in Conns : InFlight(d)' => InFlight(d)
  BY <1>6, NoMsgIs, Tasks DEF InFlight
<1>16. \A d \in Conns : m.by = Pro(d) => d = c
  BY <1>3, Tasks
<1>17. ASSUME NEW d \in Conns PROVE Heard(d)'
  <2>1. Heard(d)
    BY DEF IInv, Stream, OneAtATime
  <2>2. CASE m.by = Pro(d) /\ future[Pro(d)] = "pending"
    BY <1>1, <1>14, <1>16, <2>1, <2>2 DEF Heard
  <2>3. CASE ~(m.by = Pro(d) /\ future[Pro(d)] = "pending")
    <3>1. future'[Pro(d)] = future[Pro(d)]
      BY <1>4, <2>3, Tasks
    <3> QED
      BY <1>1, <1>15, <2>1, <3>1 DEF Heard
  <2> QED
    BY <2>2, <2>3
<1>18. Flowing'
  <2> SUFFICES ASSUME NEW d \in Conns PROVE \E a, b \in Nat : Flows(d, a, b)'
    BY DEF Flowing
  <2>1. PICK a, b \in Nat : Flows(d, a, b)
    BY DEF IInv, Stream, Flowing
  <2>2. Reads(client[d], a)'
    BY <1>1, <2>1 DEF Flows, Reads, IsFrame
  <2>3. Sends(d, b) /\ InOrder(wire[d], a, b) /\ a <= b
    BY <2>1 DEF Flows
  <2>4. CASE d # c
    <3>1. InOrder(wire[d], a, b)'
      BY <1>2, <2>3, <2>4 DEF InOrder, IsFrame
    <3>2. future'[Pro(d)] = future[Pro(d)]
      BY <1>4, <1>16, <2>4, Tasks
    <3>3. Sends(d, b)'
      BY <1>1, <1>6, <2>3, <2>4, <3>2 DEF Sends, IsFrame
    <3> QED
      BY <2>2, <2>3, <3>1, <3>3 DEF Flows
  <2>5. CASE d = c /\ IsFrame(m)
    <3>1. m.by = Pro(c) /\ m.n = b + 1
      BY <2>3, <2>5 DEF Sends, Held
    <3>2. InOrder(Append(w, m), a, b + 1)
      BY <1>3, <2>3, <2>5, <3>1, WireAppend
    <3>3. InOrder(wire[c], a, b + 1)'
      BY <1>2, <3>2 DEF InOrder, IsFrame
    <3>4. \A x \in Held(c)' : x.by # Pro(c) /\ ~IsFrame(x)
      <4>1. \A x \in Held(c)' : x.by # Pro(c)
        BY <1>14, <3>1 DEF InFlight
      <4>2. \A x \in Held(c)' : x \in Held(c) \/ x = NoMsg
        BY <1>6
      <4> QED
        BY <2>3, <2>5, <4>1, <4>2, NoMsgIs DEF Sends, IsFrame
    <3>5. InFlight(c) /\ Heard(c)
      BY <3>1 DEF InFlight, Held, IInv, Stream, OneAtATime
    <3>6. /\ prompt[c].at # "none"
          /\ prompt[c].at = "running" => future[Pro(c)] \notin {"none", "sent"}
      BY <3>5 DEF Heard
    <3>7. /\ future[Pro(c)] = "pending" => future'[Pro(c)] = "sent"
          /\ future[Pro(c)] # "pending" => future'[Pro(c)] = future[Pro(c)]
      BY <1>4, <3>1, Tasks
    <3>8. Sends(c, b + 1)'
      BY <1>1, <2>3, <2>5, <3>4, <3>6, <3>7 DEF Sends, IsFrame
    <3>9. a <= b + 1 /\ b + 1 \in Nat
      BY <2>3
    <3>10. Flows(c, a, b + 1)'
      BY <2>2, <2>5, <3>3, <3>8, <3>9 DEF Flows
    <3> QED
      BY <2>5, <3>9, <3>10
  <2>6. CASE d = c /\ ~IsFrame(m)
    <3>1. InOrder(Append(w, m), a, b)
      <4>1. IsFrame(m) => m.n = b + 1
        BY <2>6
      <4> QED
        BY <1>3, <2>3, <2>6, <4>1, WireAppend
    <3>2. InOrder(wire[c], a, b)'
      BY <1>2, <3>1 DEF InOrder, IsFrame
    <3>3. m.by = Pro(c) => ~(prompt[c].at = "running" /\ prompt[c].kind = "frames")
      BY <2>3, <2>6 DEF Sends, Held
    <3>4. m.by # Pro(c) => future'[Pro(c)] = future[Pro(c)]
      BY <1>4, Tasks
    <3>5. \A x \in Held(c)' : x \in Held(c) \/ x = NoMsg
      BY <1>6
    <3>6. \A x \in Held(c)' : IsFrame(x) => x.by = Pro(c) /\ x.n = b + 1
      BY <2>3, <2>6, <3>5, NoMsgIs DEF Sends, IsFrame
    <3>7. prompt[c].at = "running" /\ prompt[c].kind = "frames" =>
             \A x \in Held(c)' : x.by = Pro(c) => IsFrame(x)
      BY <2>3, <2>6, <3>5, NoMsgIs, Tasks DEF Sends
    <3>8. Sends(c, b)'
      BY <1>1, <2>3, <2>6, <3>3, <3>4, <3>6, <3>7 DEF Sends, IsFrame
    <3> QED
      BY <2>2, <2>3, <2>6, <3>2, <3>8 DEF Flows
  <2> QED
    BY <2>4, <2>5, <2>6
<1>19. Greeted'
  <2> SUFFICES ASSUME NEW d \in Talkers \cap Conns, client[d].first = "none"
               PROVE  /\ wire'[d] # << >> => wire'[d][1].kind = "connected"
                      /\ wire'[d] = << >> /\ writer'[d] = "writing" =>
                            current'[d].kind = "connected"
                      /\ wire'[d] = << >> /\ writer'[d] = "waiting" =>
                            sendQueue'[d] # << >> /\ sendQueue'[d][1].kind = "connected"
    BY <1>1 DEF Greeted
  <2>1. CASE d # c
    BY <1>1, <1>2, <2>1 DEF IInv, Stream, Greeted
  <2>2. CASE d = c /\ w = << >>
    <3>1. m.kind = "connected"
      BY <1>1, <2>2 DEF IInv, Stream, Greeted
    <3>2. Append(w, m) # << >> /\ Append(w, m)[1] = m
      BY <1>3, <2>2
    <3> QED
      BY <1>2, <2>2, <3>1, <3>2
  <2>3. CASE d = c /\ w # << >>
    <3>1. w[1].kind = "connected"
      BY <2>3 DEF IInv, Stream, Greeted
    <3>2. Append(w, m) # << >> /\ Append(w, m)[1] = w[1]
      BY <1>3, <2>3
    <3> QED
      BY <1>2, <2>3, <3>1, <3>2
  <2> QED
    BY <2>1, <2>2, <2>3
<1> QED
  BY <1>5, <1>7, <1>8, <1>9, <1>10, <1>11, <1>12, <1>13, <1>17, <1>18, <1>19
     DEF IInv, Server, Stream, OneAtATime

(* A writer that loses the message it is at, or all that is left: how the  *)
(* futures fare, and what the queue of the connection becomes.             *)
LEMMA WriterLoses ==
  ASSUME IInv, NEW c \in Conns,
         UNCHANGED <<session, known, emitter, endpoint, prompt, net, inbound, wire, client>>,
         writer[c] \in {"writing", "closing", "cancelling"},
         \/ /\ writer'[c] = "closing" /\ sendQueue' = sendQueue
            /\ future'[End(c)] = "cancelled" => future[End(c)] = "cancelled"
         \/ /\ writer'[c] = "done" /\ c \in closed' /\ sendQueue'[c] = << >>
            /\ \A m \in Range(sendQueue[c]) : m.by \in Senders => future'[m.by] # "pending",
         current'[c] = NoMsg,
         \A d \in Conns \ {c} : /\ writer'[d] = writer[d] /\ current'[d] = current[d]
                                /\ sendQueue'[d] = sendQueue[d],
         writer' \in [Conns -> {"none", "done"} \cup LiveWriter],
         current' \in [Conns -> Messages], sendQueue' \in [Conns -> Seq(Messages)],
         closed' \in {closed, closed \cup {c}}, future' \in [Senders -> Futures],
         \A t \in Senders :
            \/ future'[t] = future[t]
            \/ /\ future[t] = "pending" /\ future'[t] \in {"failed", "cancelled"}
               /\ future'[t] = "cancelled" => t \in {End(c), Pro(c)} \cup Emitters,
         current[c].by \in Senders => future'[current[c].by] # "pending"
  PROVE  IInv'
<1>1. Types'
  BY DEF IInv, Types
<1>2. Bounded'
  <2> SUFFICES ASSUME NEW d \in Conns PROVE Len(sendQueue'[d]) <= MaxQueue
    BY DEF IInv, Server, Bounded
  <2>1. sendQueue'[d] = sendQueue[d] \/ sendQueue'[d] = << >>
    OBVIOUS
  <2>2. Len(sendQueue[d]) <= MaxQueue
    BY DEF IInv, Server, Bounded
  <2> QED
    BY <2>1, <2>2, Sizes
<1>3. Written'
  <2> SUFFICES ASSUME NEW d \in Conns
               PROVE  /\ d \in known \ closed' => writer'[d] \in {"waiting", "writing", "closing"}
                      /\ writer'[d] \in {"cancelling", "done"} => d \in closed'
                      /\ current'[d] # NoMsg => writer'[d] \in {"writing", "cancelling"}
                      /\ endpoint[d] = "none" => writer'[d] = "none"
    BY DEF Written
  <2>1. CASE d # c
    BY <2>1 DEF IInv, Server, Written
  <2>2. CASE d = c
    BY <2>2 DEF IInv, Server, Written
  <2> QED
    BY <2>1, <2>2
<1>4. /\ \A d \in Conns : \A m \in Held(d)' : m \in Held(d) \/ m = NoMsg
      /\ \A d \in Conns \ {c} : Held(d)' = Held(d)
  <2>1. \A d \in Conns \ {c} : Held(d)' = Held(d)
    BY DEF Held
  <2>2. Held(c)' = {NoMsg} \cup Range(sendQueue'[c])
    BY DEF Held
  <2>3. Range(sendQueue'[c]) \subseteq Range(sendQueue[c])
    BY DEF Range
  <2>4. Range(sendQueue[c]) \subseteq Held(c)
    BY DEF Held
  <2> QED
    BY <2>1, <2>2, <2>3, <2>4
<1>5. Placed'
  <2>1. ASSUME NEW d \in Conns, future'[End(d)] = "cancelled" PROVE writer'[d] = "done"
    <3>1. /\ End(d) \in Senders /\ End(d) # Pro(c) /\ End(d) \notin Emitters
          /\ End(d) = End(c) => d = c
      BY Tasks
    <3>2. future[End(d)] = "cancelled" => writer[d] = "done"
      BY DEF IInv, Server, Placed
    <3>3. CASE d = c
      BY <2>1, <3>2, <3>3
    <3>4. CASE d # c
      <4>1. future'[End(d)] = future[End(d)]
        BY <2>1, <3>1, <3>4
      <4> QED
        BY <2>1, <3>2, <3>4, <4>1
    <3> QED
      BY <3>3, <3>4
  <2> QED
    BY <1>4, <2>1, FewerPlaced
<1>6. Listed'
  BY DEF IInv, Server, Listed
<1>7. Walking' /\ Requested'
  BY WalkingStays, RequestedStays DEF IInv, Server, Stream
<1>8. PromisesAreKept'
  <2>1. \A t \in Senders : future'[t] = "pending" => future[t] = "pending"
    OBVIOUS
  <2>2. ASSUME NEW d \in Conns, NEW m \in Messages, writer[d] \in LiveWriter, m \in Held(d),
               m.by \in Senders, future'[m.by] = "pending"
        PROVE  writer'[d] \in LiveWriter /\ m \in Held(d)'
    <3>1. CASE d # c
      BY <1>4, <2>2, <3>1
    <3>2. CASE d = c
      BY <2>2, <3>2 DEF Held, LiveWriter
    <3> QED
      BY <3>1, <3>2
  <2> QED
    BY <2>1, <2>2, PromisesFollow
<1>9. Flowing' /\ Consuming' /\ \A d \in Conns : Heard(d)'
  <2>1. \A d \in Conns : prompt'[d] = prompt[d] /\ Fares(Pro(d))
    BY Tasks DEF Fares
  <2> QED
    BY <1>4, <2>1, FewerHeld
<1>10. OneAtATime'
  <2>1. ASSUME NEW d \in Conns PROVE Single(d)'
    <3>1. Single(d)
      BY DEF IInv, Stream, OneAtATime
    <3>2. CASE d # c
      BY <3>1, <3>2 DEF Single
    <3>3. CASE d = c
      <4>1. sendQueue'[c] = sendQueue[c] \/ sendQueue'[c] = << >>
        OBVIOUS
      <4>2. current'[c].by # Pro(c)
        BY NoMsgIs, Tasks
      <4> QED
        BY <3>1, <3>3, <4>1, <4>2 DEF Single
    <3> QED
      BY <3>2, <3>3
  <2> QED
    BY <1>9, <2>1 DEF OneAtATime
<1>11. Greeted'
  BY DEF IInv, Stream, Greeted
<1> QED
  BY <1>1, <1>2, <1>3, <1>5, <1>6, <1>7, <1>8, <1>9, <1>10, <1>11 DEF IInv, Server, Stream

LEMMA WriterFailsStep ==
  ASSUME IInv, NEW c \in Conns, WriterFails(c) PROVE IInv'
<1> DEFINE m == current[c]
<1>1. /\ UNCHANGED <<session, known, closed, sendQueue, emitter, endpoint, prompt,
                     net, inbound, wire, client>>
      /\ writer[c] = "writing"
      /\ future' = Resolve({m.by}, "failed")
      /\ current' = [current EXCEPT ![c] = NoMsg]
      /\ writer' = [writer EXCEPT ![c] = "closing"]
  BY DEF WriterFails, tasks, sockets
<1>2. /\ future' \in [Senders -> Futures]
      /\ \A t \in Senders :
            /\ t \in {m.by} /\ future[t] = "pending" => future'[t] = "failed"
            /\ ~(t \in {m.by} /\ future[t] = "pending") => future'[t] = future[t]
  BY <1>1, ResolveIs DEF IInv
<1>3. /\ writer'[c] = "closing" /\ current'[c] = NoMsg
      /\ \A d \in Conns \ {c} : writer'[d] = writer[d] /\ current'[d] = current[d]
  BY <1>1 DEF IInv, Types
<1>4. /\ current' \in [Conns -> Messages] /\ sendQueue' \in [Conns -> Seq(Messages)]
      /\ writer' \in [Conns -> {"none", "done"} \cup LiveWriter]
  BY <1>1, NoMsgIs DEF IInv, Types, LiveWriter
<1>5. future'[End(c)] = "cancelled" => future[End(c)] = "cancelled"
  BY <1>2, Tasks
<1>6. \A t \in Senders :
         \/ future'[t] = future[t]
         \/ /\ future[t] = "pending" /\ future'[t] \in {"failed", "cancelled"}
            /\ future'[t] = "cancelled" => t \in {End(c), Pro(c)} \cup Emitters
  BY <1>2
<1>7. m.by \in Senders => future'[m.by] # "pending"
  BY <1>2
<1>8. closed' \in {closed, closed \cup {c}} /\ sendQueue' = sendQueue
  BY <1>1
<1>9. \A d \in Conns \ {c} : /\ writer'[d] = writer[d] /\ current'[d] = current[d]
                             /\ sendQueue'[d] = sendQueue[d]
  BY <1>3, <1>8
<1>10. writer[c] \in {"writing", "closing", "cancelling"}
  BY <1>1
<1> QED
  BY <1>1, <1>2, <1>3, <1>4, <1>5, <1>6, <1>7, <1>8, <1>9, <1>10, WriterLoses

(* The end of a writer: what was queued fails.                             *)
LEMMA FailQueuedIs ==
  ASSUME IInv, NEW c \in Conns, NEW how \in {"failed", "cancelled"}, FailQueued(c, how)
  PROVE  /\ sendQueue' \in [Conns -> Seq(Messages)] /\ sendQueue'[c] = << >>
         /\ \A d \in Conns \ {c} : sendQueue'[d] = sendQueue[d]
         /\ future' \in [Senders -> Futures]
         /\ \A t \in Senders :
               \/ future'[t] = future[t]
               \/ /\ future[t] = "pending" /\ future'[t] \in {"failed", "cancelled"}
                  /\ future'[t] = "cancelled" => t \in {End(c), Pro(c)} \cup Emitters
         /\ current[c].by \in Senders => future'[current[c].by] # "pending"
         /\ \A m \in Range(sendQueue[c]) : m.by \in Senders => future'[m.by] # "pending"
<1> DEFINE new(t) == IF future[t] # "pending" THEN future[t]
                     ELSE IF t = current[c].by THEN how
                     ELSE IF t \in Waiters(c) THEN "failed" ELSE "pending"
<1>1. /\ future' = [t \in Senders |-> new(t)]
      /\ sendQueue' = [sendQueue EXCEPT ![c] = << >>]
  BY DEF FailQueued
<1>2. sendQueue \in [Conns -> Seq(Messages)] /\ future \in [Senders -> Futures]
  BY DEF IInv, Types
<1>3. << >> \in Seq(Messages)
  OBVIOUS
<1>4. /\ sendQueue' \in [Conns -> Seq(Messages)] /\ sendQueue'[c] = << >>
      /\ \A d \in Conns \ {c} : sendQueue'[d] = sendQueue[d]
  BY <1>1, <1>2, <1>3
<1>5. \A t \in Senders : future'[t] = new(t) /\ new(t) \in Futures
  BY <1>1, <1>2 DEF Futures
<1>6. future' \in [Senders -> Futures]
  BY <1>1, <1>5
<1>7. \A m \in Range(sendQueue[c]) : m.by \in Waiters(c)
  BY DEF Waiters, Range
<1>8. current[c].by \in {End(c), Pro(c), None} \cup Emitters
  BY DEF Held, IInv, Server, Placed
<1>9. \A t \in Senders : t # None
  BY Tasks
<1>10. ASSUME NEW t \in Senders
       PROVE  \/ future'[t] = future[t]
              \/ /\ future[t] = "pending" /\ future'[t] \in {"failed", "cancelled"}
                 /\ future'[t] = "cancelled" => t \in {End(c), Pro(c)} \cup Emitters
  BY <1>5, <1>8, <1>9
<1>11. current[c].by \in Senders => future'[current[c].by] # "pending"
  BY <1>5
<1>12. \A m \in Range(sendQueue[c]) : m.by \in Senders => future'[m.by] # "pending"
  BY <1>5, <1>7
<1> QED
  BY <1>4, <1>6, <1>10, <1>11, <1>12

LEMMA WriterClosedStep ==
  ASSUME IInv, NEW c \in Conns, WriterClosed(c) PROVE IInv'
<1>1. /\ UNCHANGED <<session, known, current, emitter, endpoint, prompt, net, inbound, wire,
                     client>>
      /\ writer[c] = "closing" /\ closed' = closed \cup {c} /\ FailQueued(c, "failed")
      /\ writer' = [writer EXCEPT ![c] = "done"]
  BY DEF WriterClosed, tasks, sockets
<1>2. /\ writer'[c] = "done" /\ \A d \in Conns \ {c} : writer'[d] = writer[d]
      /\ writer' \in [Conns -> {"none", "done"} \cup LiveWriter]
      /\ current' \in [Conns -> Messages]
  BY <1>1 DEF IInv, Types, LiveWriter
<1>3. current'[c] = NoMsg
  BY <1>1 DEF IInv, Server, Written
<1> QED
  BY <1>1, <1>2, <1>3, FailQueuedIs, WriterLoses

LEMMA WriterCancelledStep ==
  ASSUME IInv, NEW c \in Conns, WriterCancelled(c) PROVE IInv'
<1>1. /\ UNCHANGED <<session, known, closed, emitter, endpoint, prompt, net, inbound, wire, client>>
      /\ writer[c] = "cancelling" /\ FailQueued(c, "cancelled")
      /\ writer' = [writer EXCEPT ![c] = "done"]
      /\ current' = [current EXCEPT ![c] = NoMsg]
  BY DEF WriterCancelled, tasks, sockets
<1>2. /\ writer'[c] = "done" /\ current'[c] = NoMsg
      /\ \A d \in Conns \ {c} : writer'[d] = writer[d] /\ current'[d] = current[d]
      /\ writer' \in [Conns -> {"none", "done"} \cup LiveWriter]
      /\ current' \in [Conns -> Messages]
  BY <1>1, NoMsgIs DEF IInv, Types, LiveWriter
<1>3. c \in closed
  BY <1>1 DEF IInv, Server, Written
<1> QED
  BY <1>1, <1>2, <1>3, FailQueuedIs, WriterLoses

-----------------------------------------------------------------------------
(* The end of a connection *)

(* What is left in the queue of a connection whose writer is done fails.   *)
LEMMA QueueEmptied ==
  ASSUME IInv, NEW c \in Conns, writer[c] = "done",
         UNCHANGED <<session, known, closed, writer, current, emitter, prompt, wire, client>>,
         sendQueue' = [sendQueue EXCEPT ![c] = << >>],
         future' \in [Senders -> Futures],
         \A t \in Senders : \/ future'[t] = future[t]
                            \/ future[t] \in {"pending", "shutting"} /\ future'[t] = "failed"
  PROVE  /\ sendQueue' \in [Conns -> Seq(Messages)]
         /\ Bounded' /\ Placed' /\ Walking' /\ PromisesAreKept'
         /\ OneAtATime' /\ Flowing' /\ Consuming' /\ Greeted'
<1>1. << >> \in Seq(Messages) /\ Len(<< >>) = 0
  OBVIOUS
<1>2. /\ sendQueue' \in [Conns -> Seq(Messages)] /\ sendQueue'[c] = << >>
      /\ \A d \in Conns \ {c} : sendQueue'[d] = sendQueue[d]
  BY <1>1 DEF IInv, Types
<1>3. Bounded'
  BY <1>1, <1>2, Sizes DEF IInv, Server, Bounded
<1>4. \A d \in Conns : Held(d)' \subseteq Held(d) /\ (d # c => Held(d)' = Held(d))
  <2>1. \A d \in Conns \ {c} : Held(d)' = Held(d)
    BY <1>2 DEF Held
  <2>2. Held(c)' = {current[c]}
    BY <1>2 DEF Held, Range
  <2> QED
    BY <2>1, <2>2 DEF Held
<1>5. Placed'
  <2>1. \A d \in Conns : future'[End(d)] = "cancelled" => writer'[d] = "done"
    BY Tasks DEF IInv, Server, Placed
  <2> QED
    BY <1>4, <2>1, FewerPlaced
<1>6. Walking'
  BY WalkingStays DEF IInv, Server
<1>7. PromisesAreKept'
  <2>1. \A t \in Senders : future'[t] = "pending" => future[t] = "pending"
    OBVIOUS
  <2>2. writer[c] \notin LiveWriter
    BY DEF LiveWriter
  <2> QED
    BY <1>4, <2>1, <2>2, PromisesFollow
<1>8. Flowing' /\ Consuming' /\ \A d \in Conns : Heard(d)'
  <2>1. \A d \in Conns : prompt'[d] = prompt[d] /\ Fares(Pro(d))
    BY Tasks DEF Fares
  <2> QED
    BY <1>4, <2>1, FewerHeld
<1>9. OneAtATime'
  <2>1. ASSUME NEW d \in Conns PROVE Single(d)'
    <3>1. Single(d)
      BY DEF IInv, Stream, OneAtATime
    <3> QED
      BY <1>2, <3>1 DEF Single
  <2> QED
    BY <1>8, <2>1 DEF OneAtATime
<1>10. Greeted'
  BY <1>2 DEF IInv, Stream, Greeted
<1> QED
  BY <1>2, <1>3, <1>5, <1>6, <1>7, <1>8, <1>9, <1>10

LEMMA SlowConsumerShutStep ==
  ASSUME IInv, NEW t \in Senders, NEW c \in Conns, SlowConsumerShut(t, c) PROVE IInv'
<1>1. /\ UNCHANGED <<session, known, closed, writer, current, emitter, endpoint, prompt,
                     inbound, wire, client>>
      /\ future[t] = "shutting" /\ writer[c] = "done"
      /\ future' = [Resolve(Waiters(c), "failed") EXCEPT ![t] = "failed"]
      /\ sendQueue' = [sendQueue EXCEPT ![c] = << >>]
      /\ net' = [net EXCEPT ![c] = "down"]
  BY DEF SlowConsumerShut, tasks
<1>2. future \in [Senders -> Futures]
  BY DEF IInv, Types
<1>3. PICK f : f = Resolve(Waiters(c), "failed")
  OBVIOUS
<1>4. /\ f \in [Senders -> Futures]
      /\ \A u \in Senders : f[u] = future[u] \/ (future[u] = "pending" /\ f[u] = "failed")
  BY <1>2, <1>3 DEF Resolve, Futures
<1>5. /\ future' \in [Senders -> Futures]
      /\ \A u \in Senders : \/ future'[u] = future[u]
                            \/ future[u] \in {"pending", "shutting"} /\ future'[u] = "failed"
  BY <1>1, <1>3, <1>4 DEF Futures
<1>6. /\ sendQueue' \in [Conns -> Seq(Messages)]
      /\ Bounded' /\ Placed' /\ Walking' /\ PromisesAreKept'
      /\ OneAtATime' /\ Flowing' /\ Consuming' /\ Greeted'
  BY <1>1, <1>5, QueueEmptied
<1>7. Types'
  BY <1>1, <1>5, <1>6 DEF IInv, Types
<1>8. Written' /\ Listed' /\ Requested'
  BY <1>1, WrittenStays, ListedStays, RequestedStays DEF IInv, Server, Stream
<1> QED
  BY <1>6, <1>7, <1>8 DEF IInv, Server, Stream

LEMMA LeftStep ==
  ASSUME IInv, NEW c \in Conns, Left(c) PROVE IInv'
<1>1. /\ UNCHANGED <<session, known, closed, writer, current, emitter, prompt, wire, client>>
      /\ endpoint[c] = "leaving" /\ writer[c] = "done"
      /\ future' = Resolve(Waiters(c), "failed")
      /\ sendQueue' = [sendQueue EXCEPT ![c] = << >>]
      /\ net' = [net EXCEPT ![c] = "down"]
      /\ endpoint' = [endpoint EXCEPT ![c] = "gone"]
      /\ inbound' = [inbound EXCEPT ![c] = << >>]
  BY DEF Left, WriterOver
<1>2. /\ future' \in [Senders -> Futures]
      /\ \A u \in Senders : \/ future'[u] = future[u]
                            \/ future[u] \in {"pending", "shutting"} /\ future'[u] = "failed"
  BY <1>1, ResolveIs DEF IInv
<1>3. /\ sendQueue' \in [Conns -> Seq(Messages)]
      /\ Bounded' /\ Placed' /\ Walking' /\ PromisesAreKept'
      /\ OneAtATime' /\ Flowing' /\ Consuming' /\ Greeted'
  BY <1>1, <1>2, QueueEmptied
<1>4. /\ endpoint'[c] = "gone" /\ inbound'[c] = << >>
      /\ \A d \in Conns \ {c} : endpoint'[d] = endpoint[d] /\ inbound'[d] = inbound[d]
  BY <1>1 DEF IInv, Types
<1>5. Types'
  <2>1. << >> \in Seq({"ping", "prompt"})
    OBVIOUS
  <2>2. inbound' \in [Conns -> Seq({"ping", "prompt"})]
    BY <1>1, <2>1 DEF IInv, Types
  <2> QED
    BY <1>1, <1>2, <1>3, <2>2 DEF IInv, Types, Stages
<1>6. Written'
  BY <1>1, <1>4 DEF IInv, Server, Written
<1>7. Listed'
  BY <1>1, <1>4 DEF IInv, Server, Listed
<1>8. Requested'
  BY <1>1, <1>4 DEF IInv, Stream, Requested
<1> QED
  BY <1>3, <1>5, <1>6, <1>7, <1>8 DEF IInv, Server, Stream

(* RemoveFirst of a list that has each entry once.                         *)
LEMMA Removed ==
  ASSUME Types, Listed, NEW c \in Conns
  PROVE  LET s == RemoveFirst(session, c) IN
         /\ s \in Seq(Conns)
         /\ c \notin Range(session) => s = session
         /\ \A i \in DOMAIN session : session[i] = c =>
               /\ Len(s) = Len(session) - 1
               /\ \A k \in 1..(Len(session) - 1) :
                     s[k] = IF k < i THEN session[k] ELSE session[k + 1]
<1> DEFINE s == RemoveFirst(session, c)
<1>1. session \in Seq(Conns) /\ DOMAIN session = 1..Len(session) /\ Len(session) \in Nat
  BY DEF Types
<1>2. CASE c \notin Range(session)
  <2>1. ~\E i \in 1..Len(session) : session[i] = c
    BY <1>1, <1>2 DEF Range
  <2>2. s = session
    BY <2>1 DEF RemoveFirst
  <2> QED
    BY <1>1, <1>2, <2>2 DEF Range
<1>3. ASSUME NEW i \in DOMAIN session, session[i] = c
      PROVE  /\ s \in Seq(Conns) /\ Len(s) = Len(session) - 1
             /\ \A k \in 1..(Len(session) - 1) :
                   s[k] = IF k < i THEN session[k] ELSE session[k + 1]
  <2>1. {j \in 1..Len(session) : session[j] = c} = {i}
    BY <1>1, <1>3 DEF Listed
  <2>2. SelectInSeq(session, LAMBDA v : v = c) = i
    <3>1. Min({i}) = i
      BY <1>1, <1>3 DEF Min
    <3>2. SelectInSeq(session, LAMBDA v : v = c) = Min({j \in 1..Len(session) : session[j] = c})
      BY <1>1, <1>3, <2>1 DEF SelectInSeq
    <3> QED
      BY <2>1, <3>1, <3>2
  <2>3. s = RemoveAt(session, i)
    BY <1>1, <1>3, <2>2 DEF RemoveFirst
  <2>4. s = SubSeq(session, 1, i - 1) \o SubSeq(session, i + 1, Len(session))
    BY <2>3 DEF RemoveAt
  <2>5. i \in 1..Len(session) /\ i - 1 \in Nat /\ Len(session) - i \in Nat
    BY <1>1, <1>3
  <2>6. /\ SubSeq(session, 1, i - 1) \in Seq(Conns)
        /\ Len(SubSeq(session, 1, i - 1)) = i - 1
        /\ \A k \in 1..(i - 1) : SubSeq(session, 1, i - 1)[k] = session[k]
    BY <1>1, <2>5
  <2>7. /\ SubSeq(session, i + 1, Len(session)) \in Seq(Conns)
        /\ Len(SubSeq(session, i + 1, Len(session))) = Len(session) - i
        /\ \A k \in 1..(Len(session) - i) :
              SubSeq(session, i + 1, Len(session))[k] = session[i + k]
    BY <1>1, <2>5
  <2> DEFINE x == SubSeq(session, 1, i - 1)
             y == SubSeq(session, i + 1, Len(session))
  <2>8. /\ s \in Seq(Conns) /\ Len(s) = Len(x) + Len(y)
        /\ \A k \in 1..(Len(x) + Len(y)) : s[k] = IF k <= Len(x) THEN x[k] ELSE y[k - Len(x)]
    BY <2>4, <2>6, <2>7, ConcatProperties
  <2> HIDE DEF s, x, y
  <2>9. PICK l \in Nat : l = Len(session)
    BY <1>1
  <2>10. (i - 1) + (l - i) = l - 1 /\ i \in 1..l
    BY <2>5, <2>9
  <2>11. Len(s) = l - 1
    BY <2>6, <2>7, <2>8, <2>9, <2>10 DEF x, y
  <2>12. ASSUME NEW k \in 1..(l - 1)
         PROVE  s[k] = IF k < i THEN session[k] ELSE session[k + 1]
    <3>1. s[k] = IF k <= i - 1 THEN x[k] ELSE y[k - (i - 1)]
      BY <2>6, <2>7, <2>8, <2>9, <2>10 DEF x, y
    <3>2. CASE k < i
      <4>1. k <= i - 1 /\ k \in 1..(i - 1)
        BY <2>10, <3>2
      <4> QED
        BY <2>6, <3>1, <3>2, <4>1 DEF x
    <3>3. CASE ~(k < i)
      <4>1. ~(k <= i - 1) /\ k - (i - 1) \in 1..(l - i) /\ i + (k - (i - 1)) = k + 1
        BY <2>10, <3>3
      <4>2. y[k - (i - 1)] = session[i + (k - (i - 1))]
        BY <2>7, <2>9, <4>1 DEF y
      <4> QED
        BY <3>1, <3>3, <4>1, <4>2
    <3> QED
      BY <3>2, <3>3
  <2> QED
    BY <2>8, <2>9, <2>11, <2>12
<1> QED
  BY <1>2, <1>3 DEF Range

LEMMA DisconnectStep ==
  ASSUME IInv, NEW c \in Conns, Disconnect(c) PROVE IInv'
<1> DEFINE s == RemoveFirst(session, c)
<1>1. /\ UNCHANGED <<sendQueue, current, future, prompt, net, inbound, wire, client>>
      /\ endpoint[c] = "ending"
      /\ session' = s
      /\ emitter' = [e \in Emitters |-> IF emitter[e].at = "sending" THEN Shifted(emitter[e], c)
                                                                     ELSE emitter[e]]
      /\ known' = known \ {c} /\ closed' = closed \cup {c}
      /\ writer' = [writer EXCEPT ![c] = IF @ \in LiveWriter THEN "cancelling" ELSE @]
      /\ endpoint' = [endpoint EXCEPT ![c] = "leaving"]
  BY DEF Disconnect, CancelWriter, sockets
<1>2. /\ s \in Seq(Conns)
      /\ c \notin Range(session) => s = session
      /\ \A i \in DOMAIN session : session[i] = c =>
            /\ Len(s) = Len(session) - 1
            /\ \A k \in 1..(Len(session) - 1) :
                  s[k] = IF k < i THEN session[k] ELSE session[k + 1]
  BY Removed DEF IInv, Server
<1> HIDE DEF s
<1>3. /\ writer' \in [Conns -> {"none", "done"} \cup LiveWriter]
      /\ writer'[c] = IF writer[c] \in LiveWriter THEN "cancelling" ELSE writer[c]
      /\ \A d \in Conns \ {c} : writer'[d] = writer[d]
      /\ endpoint' \in [Conns -> Stages] /\ endpoint'[c] = "leaving"
      /\ \A d \in Conns \ {c} : endpoint'[d] = endpoint[d]
  BY <1>1 DEF IInv, Types, LiveWriter, Stages
<1>4. session \in Seq(Conns) /\ DOMAIN session = 1..Len(session) /\ Len(session) \in Nat
  BY DEF IInv, Types
<1>5. \A i, j \in DOMAIN session : session[i] = session[j] => i = j
  BY DEF IInv, Server, Listed
<1>6. DOMAIN s = 1..Len(s) /\ Len(s) \in Nat
  BY <1>2
(* Where the others have gone. *)
<1>7. ASSUME NEW i \in DOMAIN session, session[i] = c
      PROVE  /\ \A k \in DOMAIN session : k < i => k \in DOMAIN s /\ s[k] = session[k]
             /\ \A k \in DOMAIN session : k > i => k - 1 \in DOMAIN s /\ s[k - 1] = session[k]
             /\ \A k \in DOMAIN s : \/ k < i /\ k \in DOMAIN session /\ s[k] = session[k]
                                    \/ k >= i /\ k + 1 \in DOMAIN session /\ s[k] = session[k + 1]
  <2>1. PICK l \in Nat : l = Len(session)
    BY <1>4
  <2>2. /\ i \in 1..l /\ Len(s) = l - 1 /\ DOMAIN s = 1..(l - 1) /\ DOMAIN session = 1..l
        /\ \A k \in 1..(l - 1) : s[k] = IF k < i THEN session[k] ELSE session[k + 1]
    BY <1>2, <1>4, <1>6, <1>7, <2>1
  <2>3. ASSUME NEW k \in 1..l, k < i PROVE k \in 1..(l - 1) /\ s[k] = session[k]
    BY <2>2, <2>3
  <2>4. ASSUME NEW k \in 1..l, k > i PROVE k - 1 \in 1..(l - 1) /\ s[k - 1] = session[k]
    <3>1. k - 1 \in 1..(l - 1) /\ ~(k - 1 < i) /\ (k - 1) + 1 = k
      BY <2>2, <2>4
    <3>2. s[k - 1] = IF k - 1 < i THEN session[k - 1] ELSE session[(k - 1) + 1]
      BY <2>2, <3>1
    <3> QED
      BY <3>1, <3>2
  <2>5. ASSUME NEW k \in 1..(l - 1)
        PROVE  \/ k < i /\ k \in 1..l /\ s[k] = session[k]
               \/ k >= i /\ k + 1 \in 1..l /\ s[k] = session[k + 1]
    BY <2>2
  <2> QED
    BY <2>2, <2>3, <2>4, <2>5
<1>8. Range(s) = Range(session) \ {c}
  <2>1. CASE c \notin Range(session)
    BY <1>2, <2>1
  <2>2. CASE c \in Range(session)
    <3>1. PICK i \in DOMAIN session : session[i] = c
      BY <2>2 DEF Range
    <3>2. ASSUME NEW d \in Range(session), d # c PROVE d \in Range(s)
      <4>1. PICK k \in DOMAIN session : session[k] = d
        BY DEF Range
      <4>2. k < i \/ k > i
        BY <1>4, <3>1, <3>2, <4>1
      <4> QED
        BY <1>7, <3>1, <4>1, <4>2 DEF Range
    <3>3. ASSUME NEW d \in Range(s) PROVE d \in Range(session) /\ d # c
      <4>1. PICK k \in DOMAIN s : s[k] = d
        BY DEF Range
      <4>2. CASE k < i /\ k \in DOMAIN session /\ s[k] = session[k]
        <5>1. k # i
          BY <1>4, <4>2
        <5> QED
          BY <1>5, <3>1, <4>1, <4>2, <5>1 DEF Range
      <4>3. CASE k >= i /\ k + 1 \in DOMAIN session /\ s[k] = session[k + 1]
        <5>1. k + 1 # i
          BY <1>4, <1>6, <3>1, <4>1, <4>3
        <5> QED
          BY <1>5, <3>1, <4>1, <4>3, <5>1 DEF Range
      <4> QED
        BY <1>7, <3>1, <4>2, <4>3
    <3> QED
      BY <3>2, <3>3
  <2> QED
    BY <2>1, <2>2
<1>9. Listed'
  <2>1. \A i, j \in DOMAIN s : s[i] = s[j] => i = j
    <3>1. CASE c \notin Range(session)
      BY <1>2, <1>5, <3>1
    <3>2. CASE c \in Range(session)
      <4>1. PICK i \in DOMAIN session : session[i] = c
        BY <3>2 DEF Range
      <4> SUFFICES ASSUME NEW k \in DOMAIN s, NEW j \in DOMAIN s, s[k] = s[j] PROVE k = j
        OBVIOUS
      <4>2. k \in Nat /\ j \in Nat /\ i \in Nat
        BY <1>4, <1>6
      <4>3. \/ k < i /\ k \in DOMAIN session /\ s[k] = session[k]
            \/ k >= i /\ k + 1 \in DOMAIN session /\ s[k] = session[k + 1]
        BY <1>7, <4>1
      <4>4. \/ j < i /\ j \in DOMAIN session /\ s[j] = session[j]
            \/ j >= i /\ j + 1 \in DOMAIN session /\ s[j] = session[j + 1]
        BY <1>7, <4>1
      <4>5. PICK p, q \in Nat : /\ p \in DOMAIN session /\ s[k] = session[p]
                                /\ p = IF k < i THEN k ELSE k + 1
                                /\ q \in DOMAIN session /\ s[j] = session[q]
                                /\ q = IF j < i THEN j ELSE j + 1
        BY <4>2, <4>3, <4>4
      <4>6. p = q
        BY <1>5, <4>5
      <4> QED
        BY <4>2, <4>5, <4>6
    <3> QED
      BY <3>1, <3>2
  <2>2. ASSUME NEW d \in Conns
        PROVE  /\ d \in known' <=> d \in Range(s)
               /\ endpoint'[d] \in {"none", "leaving"} => d \notin known'
               /\ endpoint'[d] = "gone" => writer'[d] = "done"
    <3>1. CASE d = c
      BY <1>1, <1>3, <1>8, <3>1
    <3>2. CASE d # c
      BY <1>1, <1>3, <1>8, <3>2 DEF IInv, Server, Listed
    <3> QED
      BY <3>1, <3>2
  <2> QED
    BY <1>1, <2>1, <2>2 DEF Listed
(* An emitter on its way through the list. *)
<1>10. ASSUME NEW em \in Walks, Ahead(em)
       PROVE  LET new == Shifted(em, c) IN
              /\ new \in Walks /\ new.at = em.at
              /\ \A d \in new.due : \E k \in DOMAIN s : k > new.pos /\ s[k] = d
              /\ new.pos = 0 => new.due = {}
  <2> DEFINE i == IF c \in Range(session)
                  THEN CHOOSE k \in DOMAIN session : session[k] = c ELSE Len(session) + 1
             moved == IF i <= em.pos /\ em.pos < Len(session) THEN {session[em.pos + 1]} ELSE {}
             new == Shifted(em, c)
             due == em.due \ (moved \cup {c})
             pos == IF Range(session) \subseteq {c} THEN 0 ELSE em.pos
  <2>1. new = [em EXCEPT !.due = due, !.pos = pos]
    BY DEF Shifted
  <2>2. em.pos \in Nat /\ em.due \subseteq Conns
    BY DEF Walks
  <2>3. PICK r : r = [em EXCEPT !.due = due]
    OBVIOUS
  <2>4. due \subseteq Conns /\ pos \in Nat
    BY <2>2
  <2>5. r \in Walks /\ r.due = due /\ r.at = em.at
    BY <2>3, <2>4 DEF Walks
  <2>6. new = [r EXCEPT !.pos = pos]
    BY <2>1, <2>3
  <2>7. new \in Walks /\ new.at = em.at /\ new.due = due /\ new.pos = pos
    BY <2>4, <2>5, <2>6 DEF Walks
  <2>8. \A d \in em.due : \E k \in DOMAIN session : k > em.pos /\ session[k] = d
    BY <1>10 DEF Ahead
  <2>9. ASSUME NEW d \in due PROVE \E k \in DOMAIN s : k > em.pos /\ s[k] = d
    <3>1. PICK k \in DOMAIN session : k > em.pos /\ session[k] = d
      BY <2>8
    <3>2. d # c /\ d \notin moved
      OBVIOUS
    <3>3. CASE c \notin Range(session)
      BY <1>2, <3>1, <3>3
    <3>4. CASE c \in Range(session)
      <4>1. i \in DOMAIN session /\ session[i] = c
        <5>1. \E j \in DOMAIN session : session[j] = c
          BY <3>4 DEF Range
        <5> QED
          BY <3>4, <5>1
      <4> HIDE DEF i
      <4>2. k < i \/ k > i
        BY <1>4, <3>1, <3>2, <4>1
      <4>3. CASE k < i
        BY <1>7, <3>1, <4>1, <4>3
      <4>4. CASE k > i
        <5>1. k - 1 \in DOMAIN s /\ s[k - 1] = d
          BY <1>7, <3>1, <4>1, <4>4
        <5>2. PICK l \in Nat : l = Len(session)
          BY <1>4
        <5>3. k \in 1..l /\ i \in 1..l
          BY <1>4, <4>1, <5>2
        <5>4. CASE i <= em.pos
          <6>1. em.pos < Len(session)
            BY <2>2, <3>1, <5>2, <5>3
          <6>2. k # em.pos + 1
            BY <3>1, <3>2, <5>4, <6>1
          <6>3. k - 1 > em.pos
            BY <2>2, <3>1, <5>3, <6>2
          <6> QED
            BY <5>1, <6>3
        <5>5. CASE ~(i <= em.pos)
          <6>1. k - 1 > em.pos
            BY <2>2, <4>4, <5>3, <5>5
          <6> QED
            BY <5>1, <6>1
        <5> QED
          BY <5>4, <5>5
      <4> QED
        BY <4>2, <4>3, <4>4
    <3> QED
      BY <3>3, <3>4
  <2>10. \A d \in due : \E k \in DOMAIN s : k > pos /\ s[k] = d
    <3> SUFFICES ASSUME NEW d \in due PROVE \E k \in DOMAIN s : k > pos /\ s[k] = d
      OBVIOUS
    <3>1. PICK k \in DOMAIN s : k > em.pos /\ s[k] = d
      BY <2>9
    <3>2. k \in 1..Len(s)
      BY <1>6
    <3>3. k > pos
      BY <1>6, <2>2, <3>1, <3>2
    <3> QED
      BY <3>1, <3>3
  <2>11. pos = 0 => due = {}
    <3>1. em.pos = 0 => em.due = {}
      BY <1>10 DEF Ahead
    <3>2. ASSUME Range(session) \subseteq {c} PROVE due = {}
      <4>1. em.due \subseteq Range(session)
        BY <2>8 DEF Range
      <4> QED
        BY <3>2, <4>1
    <3> QED
      BY <3>1, <3>2
  <2> HIDE DEF due, pos
  <2> QED
    BY <2>7, <2>10, <2>11
<1>11. emitter \in [Emitters -> Walks]
  BY DEF IInv, Types
<1>12. ASSUME NEW e \in Emitters
       PROVE  /\ emitter'[e] \in Walks
              /\ emitter[e].at # "sending" => emitter'[e] = emitter[e]
              /\ emitter[e].at = "sending" => emitter'[e].at = "sending" /\ Ahead(emitter[e])'
  <2>1. emitter'[e] = IF emitter[e].at = "sending" THEN Shifted(emitter[e], c) ELSE emitter[e]
    BY <1>1
  <2>2. CASE emitter[e].at # "sending"
    BY <1>11, <2>1, <2>2
  <2>3. CASE emitter[e].at = "sending"
    <3>1. Ahead(emitter[e])
      BY <2>3 DEF IInv, Server, Walking
    <3>2. PICK new : new = Shifted(emitter[e], c)
      OBVIOUS
    <3>3. /\ new \in Walks /\ new.at = "sending"
          /\ \A d \in new.due : \E k \in DOMAIN s : k > new.pos /\ s[k] = d
          /\ new.pos = 0 => new.due = {}
      BY <1>10, <1>11, <2>3, <3>1, <3>2
    <3>4. emitter'[e] = new
      BY <2>1, <2>3, <3>2
    <3> QED
      BY <1>1, <2>3, <3>3, <3>4 DEF Ahead
  <2> QED
    BY <2>2, <2>3
<1>13. Walking'
  BY <1>12 DEF Walking, IInv, Server
<1>14. Types'
  <2>1. emitter' \in [Emitters -> Walks]
    BY <1>1, <1>12
  <2>2. session' \in Seq(Conns)
    BY <1>1, <1>2
  <2> QED
    BY <1>1, <1>3, <2>1, <2>2 DEF IInv, Types
<1>15. Bounded' /\ Requested'
  BY <1>1, BoundedStays, RequestedStays DEF IInv, Server, Stream
<1>16. Written'
  BY <1>1, <1>3 DEF IInv, Server, Written, LiveWriter
<1>17. \A d \in Conns : Held(d)' = Held(d)
  BY <1>1 DEF Held
<1>18. Placed'
  <2>1. \A d \in Conns : future'[End(d)] = "cancelled" => writer'[d] = "done"
    BY <1>1, <1>3 DEF IInv, Server, Placed, LiveWriter
  <2> QED
    BY <1>17, <2>1, FewerPlaced
<1>19. PromisesAreKept'
  <2>1. \A d \in Conns : writer[d] \in LiveWriter => writer'[d] \in LiveWriter
    BY <1>3 DEF LiveWriter
  <2> QED
    BY <1>1, <1>17, <2>1, PromisesFollow
<1>20. Flowing' /\ Consuming' /\ OneAtATime'
  BY <1>1, FlowingStays, ConsumingStays, OneAtATimeStays DEF IInv, Stream
<1>21. Greeted'
  BY <1>1, <1>3 DEF IInv, Stream, Greeted
<1> QED
  BY <1>9, <1>13, <1>14, <1>15, <1>16, <1>18, <1>19, <1>20, <1>21 DEF IInv, Server, Stream

-----------------------------------------------------------------------------
(* Tasks that hear of what they sent *)

(* A task takes the result of its message; a prompt that does so is over.  *)
LEMMA Forgotten ==
  ASSUME IInv, NEW t \in Senders, UNCHANGED <<connections, wire, client>>,
         future' = [future EXCEPT ![t] = "none"],
         \A c \in Conns : \/ prompt'[c].at = "done"
                          \/ prompt'[c] = prompt[c] /\ t # Pro(c)
  PROVE  /\ future' \in [Senders -> Futures]
         /\ Bounded' /\ Placed' /\ PromisesAreKept'
         /\ OneAtATime' /\ Flowing' /\ Consuming' /\ Greeted'
<1>1. UNCHANGED <<session, known, closed, sendQueue, writer, current>>
  BY DEF connections
<1>2. /\ future' \in [Senders -> Futures] /\ future'[t] = "none"
      /\ \A u \in Senders \ {t} : future'[u] = future[u]
  BY DEF IInv, Types, Futures
<1>3. Bounded' /\ Consuming' /\ Greeted'
  BY <1>1, BoundedStays, ConsumingStays, GreetedStays DEF IInv, Server, Stream
<1>4. \A c \in Conns : Held(c)' = Held(c)
  BY <1>1 DEF Held
<1>5. Placed'
  <2>1. \A c \in Conns : future'[End(c)] = "cancelled" => writer'[c] = "done"
    BY <1>1, <1>2, Tasks DEF IInv, Server, Placed
  <2> QED
    BY <1>4, <2>1, FewerPlaced
<1>6. PromisesAreKept'
  BY <1>1, <1>2, <1>4, PromisesFollow
<1>7. Flowing' /\ \A c \in Conns : Heard(c)'
  <2>1. \A c \in Conns : \/ prompt'[c].at = "done"
                         \/ prompt'[c] = prompt[c] /\ Fares(Pro(c))
    BY <1>2, Tasks DEF Fares
  <2> QED
    BY <1>4, <2>1, FewerHeld
<1>8. \A c \in Conns : Single(c)'
  BY <1>1 DEF IInv, Stream, OneAtATime, Single
<1> QED
  BY <1>2, <1>3, <1>5, <1>6, <1>7, <1>8 DEF OneAtATime

LEMMA ConnectedStep ==
  ASSUME IInv, NEW c \in Conns, Connected(c) PROVE IInv'
<1>1. /\ UNCHANGED <<connections, emitter, prompt, sockets, client>>
      /\ endpoint[c] = "connecting"
      /\ endpoint' = [endpoint EXCEPT ![c] = IF future[End(c)] = "cancelled" THEN "gone"
                                                                            ELSE "reading"]
      /\ future' = [future EXCEPT ![End(c)] = "none"]
  BY DEF Connected
<1>2. UNCHANGED <<session, known, closed, sendQueue, writer, current, net, inbound, wire>>
  BY <1>1 DEF connections, sockets
<1>3. /\ endpoint' \in [Conns -> Stages]
      /\ endpoint'[c] = IF future[End(c)] = "cancelled" THEN "gone" ELSE "reading"
      /\ \A d \in Conns \ {c} : endpoint'[d] = endpoint[d]
  BY <1>1 DEF IInv, Types, Stages
<1>4. /\ future' \in [Senders -> Futures]
      /\ Bounded' /\ Placed' /\ PromisesAreKept'
      /\ OneAtATime' /\ Flowing' /\ Consuming' /\ Greeted'
  <2>1. \A d \in Conns : prompt'[d] = prompt[d] /\ End(c) # Pro(d)
    BY <1>1, Tasks
  <2> QED
    BY <1>1, <1>2, <2>1, Tasks, Forgotten
<1>5. Types'
  BY <1>1, <1>2, <1>3, <1>4 DEF IInv, Types
<1>6. Written'
  BY <1>1, <1>2, <1>3 DEF IInv, Server, Written
<1>7. Listed'
  <2>1. future[End(c)] = "cancelled" => writer[c] = "done"
    BY DEF IInv, Server, Placed
  <2> QED
    BY <1>1, <1>2, <1>3, <2>1 DEF IInv, Server, Listed
<1>8. Walking' /\ Requested'
  BY <1>1, <1>2, WalkingStays, RequestedStays DEF IInv, Server, Stream
<1> QED
  BY <1>4, <1>5, <1>6, <1>7, <1>8 DEF IInv, Server, Stream

LEMMA AnsweredStep ==
  ASSUME IInv, NEW c \in Conns, Answered(c) PROVE IInv'
<1>1. /\ UNCHANGED <<connections, emitter, prompt, sockets, client>>
      /\ endpoint[c] = "answering"
      /\ endpoint' = [endpoint EXCEPT ![c] = IF future[End(c)] = "sent" THEN "reading"
                                                                        ELSE "ending"]
      /\ future' = [future EXCEPT ![End(c)] = "none"]
  BY DEF Answered
<1>2. UNCHANGED <<session, known, closed, sendQueue, writer, current, net, inbound, wire>>
  BY <1>1 DEF connections, sockets
<1>3. /\ endpoint' \in [Conns -> Stages] /\ endpoint'[c] \in {"reading", "ending"}
      /\ \A d \in Conns \ {c} : endpoint'[d] = endpoint[d]
  BY <1>1 DEF IInv, Types, Stages
<1>4. /\ future' \in [Senders -> Futures]
      /\ Bounded' /\ Placed' /\ PromisesAreKept'
      /\ OneAtATime' /\ Flowing' /\ Consuming' /\ Greeted'
  <2>1. \A d \in Conns : prompt'[d] = prompt[d] /\ End(c) # Pro(d)
    BY <1>1, Tasks
  <2> QED
    BY <1>1, <1>2, <2>1, Tasks, Forgotten
<1>5. Types'
  BY <1>1, <1>2, <1>3, <1>4 DEF IInv, Types
<1>6. Written' /\ Listed'
  BY <1>1, <1>2, <1>3 DEF IInv, Server, Written, Listed
<1>7. Walking' /\ Requested'
  BY <1>1, <1>2, WalkingStays, RequestedStays DEF IInv, Server, Stream
<1> QED
  BY <1>4, <1>5, <1>6, <1>7 DEF IInv, Server, Stream

LEMMA DisconnectedStep ==
  ASSUME IInv, NEW c \in Conns, Disconnected(c) PROVE IInv'
<1>1. /\ UNCHANGED <<server, emitter, prompt, sockets, client>>
      /\ endpoint[c] = "reading" /\ endpoint' = [endpoint EXCEPT ![c] = "ending"]
  BY DEF Disconnected
<1>2. UNCHANGED <<session, known, closed, sendQueue, writer, current, future, net, inbound, wire>>
  BY <1>1 DEF server, connections, sockets
<1>3. /\ endpoint' \in [Conns -> Stages] /\ endpoint'[c] = "ending"
      /\ \A d \in Conns \ {c} : endpoint'[d] = endpoint[d]
  BY <1>1 DEF IInv, Types, Stages
<1>4. Types'
  BY <1>1, <1>2, <1>3 DEF IInv, Types
<1>5. Written' /\ Listed'
  BY <1>1, <1>2, <1>3 DEF IInv, Server, Written, Listed
<1>6. Bounded' /\ Placed' /\ Walking' /\ PromisesAreKept'
  BY <1>1, <1>2, BoundedStays, PlacedStays, WalkingStays, PromisesStay DEF IInv, Server
<1>7. OneAtATime' /\ Requested' /\ Flowing' /\ Consuming' /\ Greeted'
  BY <1>1, <1>2, OneAtATimeStays, RequestedStays, FlowingStays, ConsumingStays, GreetedStays
     DEF IInv, Stream
<1> QED
  BY <1>4, <1>5, <1>6, <1>7 DEF IInv, Server, Stream

(* The end of a prompt task, by itself or cancelled.                       *)
LEMMA PromptOver ==
  ASSUME IInv, NEW c \in Conns, prompt[c].at = "running",
         prompt' = [prompt EXCEPT ![c] = PromptDone],
         future' = [future EXCEPT ![Pro(c)] = "none"],
         UNCHANGED <<connections, emitter, endpoint, sockets, client>>
  PROVE  IInv'
<1>1. UNCHANGED <<session, known, closed, sendQueue, writer, current, net, inbound, wire>>
  BY DEF connections, sockets
<1>2. PromptDone \in Prompts /\ PromptDone.at = "done"
  BY DEF PromptDone, Prompts
<1>3. /\ prompt' \in [Conns -> Prompts] /\ prompt'[c].at = "done"
      /\ \A d \in Conns \ {c} : prompt'[d] = prompt[d]
  BY <1>2 DEF IInv, Types
<1>4. /\ future' \in [Senders -> Futures]
      /\ Bounded' /\ Placed' /\ PromisesAreKept'
      /\ OneAtATime' /\ Flowing' /\ Consuming' /\ Greeted'
  <2>1. \A d \in Conns : \/ prompt'[d].at = "done"
                         \/ prompt'[d] = prompt[d] /\ Pro(c) # Pro(d)
    BY <1>3, Tasks
  <2> QED
    BY <1>1, <2>1, Tasks, Forgotten
<1>5. Types'
  BY <1>1, <1>3, <1>4 DEF IInv, Types
<1>6. Written' /\ Listed' /\ Walking'
  BY <1>1, WrittenStays, ListedStays, WalkingStays DEF IInv, Server
<1>7. Requested'
  <2>1. client[c].stream # "none" /\ \A i \in DOMAIN inbound[c] : inbound[c][i] # "prompt"
    BY DEF IInv, Stream, Requested
  <2> QED
    BY <1>1, <1>3, <2>1 DEF IInv, Stream, Requested
<1> QED
  BY <1>4, <1>5, <1>6, <1>7 DEF IInv, Server, Stream

LEMMA CancelPromptStep ==
  ASSUME IInv, NEW c \in Conns, CancelPrompt(c) PROVE IInv'
BY PromptOver DEF CancelPrompt, connections

LEMMA PromptEndsStep ==
  ASSUME IInv, NEW c \in Conns, PromptEnds(c) PROVE IInv'
BY PromptOver DEF PromptEnds

(* The end of an emitter, which has come to all or was interrupted.        *)
LEMMA EmitterOver ==
  ASSUME IInv, NEW e \in Emitters,
         \/ emitter' = [emitter EXCEPT ![e].at = "done"] /\ emitter[e].due = {}
         \/ emitter' = [emitter EXCEPT ![e].at = "aborted"],
         future' = [future EXCEPT ![e] = "none"],
         UNCHANGED <<connections, endpoint, prompt, sockets, client>>
  PROVE  IInv'
<1>1. UNCHANGED <<session, known, closed, sendQueue, writer, current, net, inbound, wire>>
  BY DEF connections, sockets
<1>2. emitter \in [Emitters -> Walks] /\ emitter[e] \in Walks
  BY DEF IInv, Types
<1>3. /\ [emitter[e] EXCEPT !.at = "done"] \in Walks
      /\ [emitter[e] EXCEPT !.at = "aborted"] \in Walks
  BY <1>2 DEF Walks
<1>4. /\ emitter' \in [Emitters -> Walks]
      /\ emitter'[e].at \in {"done", "aborted"}
      /\ emitter'[e].at = "done" => emitter'[e].due = {}
      /\ \A f \in Emitters \ {e} : emitter'[f] = emitter[f]
  <2>1. \/ /\ emitter'[e] = [emitter[e] EXCEPT !.at = "done"] /\ emitter[e].due = {}
        \/ emitter'[e] = [emitter[e] EXCEPT !.at = "aborted"]
    BY <1>2
  <2>2. emitter' \in [Emitters -> Walks] /\ \A f \in Emitters \ {e} : emitter'[f] = emitter[f]
    BY <1>2, <1>3
  <2>3. emitter'[e].at \in {"done", "aborted"} /\ (emitter'[e].at = "done" => emitter'[e].due = {})
    BY <1>2, <2>1 DEF Walks
  <2> QED
    BY <2>2, <2>3
<1>5. /\ future' \in [Senders -> Futures]
      /\ Bounded' /\ Placed' /\ PromisesAreKept'
      /\ OneAtATime' /\ Flowing' /\ Consuming' /\ Greeted'
  <2>1. e \in Senders /\ \A d \in Conns : prompt'[d] = prompt[d] /\ e # Pro(d)
    BY Tasks
  <2> QED
    BY <1>1, <2>1, Forgotten
<1>6. Types'
  BY <1>1, <1>4, <1>5 DEF IInv, Types
<1>7. Written' /\ Listed' /\ Requested'
  BY <1>1, WrittenStays, ListedStays, RequestedStays DEF IInv, Server, Stream
<1>8. Walking'
  <2> SUFFICES ASSUME NEW f \in Emitters
               PROVE  /\ emitter'[f].at = "idle" => emitter'[f].pos = 0
                      /\ emitter'[f].at = "sending" => Ahead(emitter[f])'
                      /\ emitter'[f].at = "done" => emitter'[f].due = {}
    BY DEF Walking
  <2>1. CASE f = e
    BY <1>4, <2>1
  <2>2. CASE f # e
    BY <1>1, <1>4, <2>2 DEF IInv, Server, Walking, Ahead
  <2> QED
    BY <2>1, <2>2
<1> QED
  BY <1>5, <1>6, <1>7, <1>8 DEF IInv, Server, Stream

LEMMA EmitDoneStep ==
  ASSUME IInv, NEW e \in Emitters, EmitDone(e) PROVE IInv'
<1>1. /\ emitter[e].at = "sending" /\ AllPassed(e)
      /\ emitter' = [emitter EXCEPT ![e].at = "done"]
      /\ future' = [future EXCEPT ![e] = "none"]
      /\ UNCHANGED <<connections, endpoint, prompt, sockets, client>>
  BY DEF EmitDone
<1>2. Ahead(emitter[e])
  BY <1>1 DEF IInv, Server, Walking
<1>3. /\ session \in Seq(Conns) /\ DOMAIN session = 1..Len(session) /\ Len(session) \in Nat
      /\ emitter[e].pos \in Nat
  <2>1. emitter[e] \in Walks /\ session \in Seq(Conns)
    BY DEF IInv, Types
  <2> QED
    BY <2>1 DEF Walks
<1>4. emitter[e].pos >= Len(session) => ~\E k \in DOMAIN session : k > emitter[e].pos
  BY <1>3
<1>5. emitter[e].due = {}
  BY <1>1, <1>2, <1>4 DEF AllPassed, Ahead
<1> QED
  BY <1>1, <1>5, EmitterOver

LEMMA EmitAbortedStep ==
  ASSUME IInv, NEW e \in Emitters, EmitAborted(e) PROVE IInv'
BY EmitterOver DEF EmitAborted

-----------------------------------------------------------------------------
(* Connecting and asking *)

LEMMA ConnectStep ==
  ASSUME IInv, NEW c \in Conns, Connect(c) PROVE IInv'
<1> DEFINE first == Msg("connected", End(c), 0)
           cl == client[c]
<1>1. /\ UNCHANGED <<closed, current, emitter, prompt, net, inbound, wire>>
      /\ endpoint[c] = "none"
      /\ known' = known \cup {c} /\ session' = Append(session, c)
      /\ writer' = [writer EXCEPT ![c] = "waiting"]
      /\ sendQueue' = [sendQueue EXCEPT ![c] = <<first>>]
      /\ future' = [future EXCEPT ![End(c)] = "pending"]
      /\ endpoint' = [endpoint EXCEPT ![c] = "connecting"]
      /\ client' = [client EXCEPT ![c].loop = "on"]
  BY DEF Connect, FirstMessage, sockets
<1>2. first \in Messages /\ first.by = End(c) /\ first.kind = "connected"
  BY Tasks DEF Msg, Messages, Kinds
<1> HIDE DEF first
<1>3. /\ <<first>> \in Seq(Messages) /\ Len(<<first>>) = 1 /\ Range(<<first>>) = {first}
      /\ DOMAIN <<first>> = {1} /\ <<first>>[1] = first /\ <<first>> # << >>
  BY <1>2 DEF Range
<1>4. writer[c] = "none" /\ current[c] = NoMsg /\ c \notin known /\ c \notin Range(session)
  BY <1>1 DEF IInv, Server, Written, Listed
<1>5. cl \in Clients
  BY DEF IInv, Types
<1>6. [cl EXCEPT !.loop = "on"] \in Clients
  BY <1>5 DEF Clients
<1>7. /\ writer'[c] = "waiting" /\ sendQueue'[c] = <<first>> /\ endpoint'[c] = "connecting"
      /\ \A d \in Conns \ {c} : /\ writer'[d] = writer[d] /\ sendQueue'[d] = sendQueue[d]
                                /\ endpoint'[d] = endpoint[d]
      /\ future'[End(c)] = "pending" /\ \A t \in Senders \ {End(c)} : future'[t] = future[t]
      /\ future' \in [Senders -> Futures]
  BY <1>1, Tasks DEF IInv, Types, Futures
<1>8. \A d \in Conns : /\ client'[d].stream = client[d].stream
                       /\ client'[d].frames = client[d].frames
                       /\ client'[d].got = client[d].got
                       /\ client'[d].first = client[d].first
                       /\ client'[d].overflowed = client[d].overflowed
  BY <1>1 DEF IInv, Types, Clients
<1>9. /\ session \in Seq(Conns) /\ session' \in Seq(Conns)
      /\ DOMAIN session = 1..Len(session) /\ Len(session) \in Nat
      /\ DOMAIN session' = 1..(Len(session) + 1) /\ session'[Len(session) + 1] = c
      /\ \A k \in DOMAIN session : session'[k] = session[k]
  <2>1. session \in Seq(Conns)
    BY DEF IInv, Types
  <2> QED
    BY <1>1, <2>1
<1>10. Types'
  <2>1. client' \in [Conns -> Clients]
    BY <1>1, <1>6 DEF IInv, Types
  <2>2. sendQueue' \in [Conns -> Seq(Messages)]
    BY <1>1, <1>3 DEF IInv, Types
  <2>3. writer' \in [Conns -> {"none", "done"} \cup LiveWriter]
    BY <1>1 DEF IInv, Types, LiveWriter
  <2>4. endpoint' \in [Conns -> Stages]
    BY <1>1 DEF IInv, Types, Stages
  <2> QED
    BY <1>1, <1>7, <1>9, <2>1, <2>2, <2>3, <2>4 DEF IInv, Types
<1>11. Bounded'
  BY <1>1, <1>3, <1>7, <1>8, Sizes DEF IInv, Server, Bounded
<1>12. Written'
  BY <1>1, <1>4, <1>7 DEF IInv, Server, Written
<1>13. Held(c)' = {NoMsg, first} /\ \A d \in Conns \ {c} : Held(d)' = Held(d)
  BY <1>1, <1>3, <1>4, <1>7 DEF Held
<1>14. Placed'
  <2> SUFFICES ASSUME NEW d \in Conns
               PROVE  /\ \A m \in Held(d)' : m.by \in {End(d), Pro(d), None} \cup Emitters
                      /\ future'[End(d)] = "cancelled" => writer'[d] = "done"
    BY DEF Placed
  <2>1. CASE d = c
    BY <1>2, <1>7, <1>13, <2>1, NoMsgIs
  <2>2. CASE d # c
    BY <1>7, <1>13, <2>2, Tasks DEF IInv, Server, Placed
  <2> QED
    BY <2>1, <2>2
<1>15. Listed'
  <2>1. \A i, j \in DOMAIN session' : session'[i] = session'[j] => i = j
    BY <1>4, <1>9 DEF IInv, Server, Listed, Range
  <2>2. Range(session') = Range(session) \cup {c}
    BY <1>9 DEF Range
  <2> QED
    BY <1>1, <1>7, <2>1, <2>2 DEF IInv, Server, Listed
<1>16. Walking'
  <2>1. ASSUME NEW e \in Emitters, Ahead(emitter[e]) PROVE Ahead(emitter[e])'
    <3>1. \A k \in DOMAIN session : k \in DOMAIN session' /\ session'[k] = session[k]
      BY <1>9
    <3> QED
      BY <1>1, <2>1, <3>1 DEF Ahead
  <2> QED
    BY <1>1, <2>1 DEF IInv, Server, Walking
<1>17. PromisesAreKept'
  <2> SUFFICES ASSUME NEW t \in Senders, future'[t] = "pending" PROVE Kept(t)'
    BY HeldPromises
  <2>1. CASE t = End(c)
    BY <1>2, <1>7, <1>13, <2>1 DEF Kept, LiveWriter
  <2>2. CASE t # End(c)
    <3>1. Kept(t)
      BY <1>7, <2>2, PromisesHeld DEF IInv, Server
    <3>2. PICK d \in Conns : writer[d] \in LiveWriter /\ \E m \in Held(d) : m.by = t
      BY <3>1 DEF Kept
    <3>3. d # c
      BY <1>4, <3>2 DEF LiveWriter
    <3> QED
      BY <1>7, <1>13, <3>2, <3>3 DEF Kept
  <2> QED
    BY <2>1, <2>2
<1>18. OneAtATime'
  <2>1. ASSUME NEW d \in Conns PROVE Single(d)' /\ Heard(d)'
    <3>1. Single(d) /\ Heard(d)
      BY DEF IInv, Stream, OneAtATime
    <3>2. future'[Pro(d)] = future[Pro(d)]
      BY <1>7, Tasks
    <3>3. CASE d = c
      <4>1. ~InFlight(c)'
        BY <1>2, <1>13, NoMsgIs, Tasks DEF InFlight
      <4>2. Single(c)'
        BY <1>1, <1>3, <1>4, <1>7, NoMsgIs, Tasks DEF Single
      <4> QED
        BY <1>1, <3>1, <3>2, <3>3, <4>1, <4>2 DEF Heard
    <3>4. CASE d # c
      BY <1>1, <1>7, <1>13, <3>1, <3>2, <3>4 DEF Single, Heard, InFlight
    <3> QED
      BY <3>3, <3>4
  <2> QED
    BY <2>1 DEF OneAtATime
<1>19. Requested'
  BY <1>1, <1>8 DEF IInv, Stream, Requested
<1>20. Flowing'
  <2> SUFFICES ASSUME NEW d \in Conns PROVE \E a, b \in Nat : Flows(d, a, b)'
    BY DEF Flowing
  <2>1. PICK a, b \in Nat : Flows(d, a, b)
    BY DEF IInv, Stream, Flowing
  <2>2. InOrder(wire[d], a, b)' /\ Reads(client[d], a)'
    BY <1>1, <1>8, <2>1 DEF Flows, InOrder, Reads, IsFrame
  <2>3. Sends(d, b) /\ future'[Pro(d)] = future[Pro(d)]
    BY <1>7, <2>1, Tasks DEF Flows
  <2>4. CASE d = c
    <3>1. \A m \in Held(c)' : ~IsFrame(m) /\ m.by # Pro(c)
      BY <1>2, <1>13, NoMsgIs, Tasks DEF IsFrame
    <3>2. Sends(c, b)'
      BY <1>1, <2>3, <2>4, <3>1 DEF Sends, IsFrame
    <3> QED
      BY <2>1, <2>2, <2>4, <3>2 DEF Flows
  <2>5. CASE d # c
    <3>1. Sends(d, b)'
      BY <1>1, <1>13, <2>3, <2>5 DEF Sends, IsFrame
    <3> QED
      BY <2>1, <2>2, <3>1 DEF Flows
  <2> QED
    BY <2>4, <2>5
<1>21. Consuming'
  BY <1>8 DEF IInv, Stream, Consuming, Consumes, IsFrame
<1>22. Greeted'
  BY <1>1, <1>2, <1>3, <1>7, <1>8 DEF IInv, Stream, Greeted
<1> QED
  BY <1>10, <1>11, <1>12, <1>14, <1>15, <1>16, <1>17, <1>18, <1>19, <1>20, <1>21, <1>22
     DEF IInv, Server, Stream

LEMMA ReceivePromptStep ==
  ASSUME IInv, NEW c \in Conns, ReceivePrompt(c) PROVE IInv'
<1> DEFINE q == inbound[c]
<1>1. /\ UNCHANGED <<server, emitter, endpoint, net, wire, client>>
      /\ q # << >> /\ Head(q) = "prompt"
      /\ inbound' = [inbound EXCEPT ![c] = Tail(q)]
  BY DEF ReceivePrompt
<1>2. PICK kind \in {"frames", "error", "silent"} :
         prompt' = [prompt EXCEPT ![c] = IF kind = "silent" THEN PromptDone
                                         ELSE [at |-> "running", kind |-> kind, n |-> 0]]
  BY DEF ReceivePrompt
<1>3. UNCHANGED <<session, known, closed, sendQueue, writer, current, future>>
  BY <1>1 DEF server, connections
<1>4. /\ prompt' \in [Conns -> Prompts]
      /\ prompt'[c].at \in {"running", "done"} /\ prompt'[c].n = 0
      /\ \A d \in Conns \ {c} : prompt'[d] = prompt[d]
  <2>1. /\ PromptDone \in Prompts /\ PromptDone.at = "done" /\ PromptDone.n = 0
        /\ \A k \in {"frames", "error"} : [at |-> "running", kind |-> k, n |-> 0] \in Prompts
    BY DEF PromptDone, Prompts
  <2>2. CASE kind = "silent"
    BY <1>2, <2>1, <2>2 DEF IInv, Types
  <2>3. CASE kind # "silent"
    BY <1>2, <2>1, <2>3 DEF IInv, Types
  <2> QED
    BY <2>2, <2>3
<1>5. /\ q \in Seq({"ping", "prompt"}) /\ Tail(q) \in Seq({"ping", "prompt"})
      /\ 1 \in DOMAIN q /\ q[1] = "prompt"
      /\ \A i \in DOMAIN Tail(q) : i + 1 \in DOMAIN q /\ i + 1 # 1 /\ Tail(q)[i] = q[i + 1]
  <2>1. q \in Seq({"ping", "prompt"})
    BY DEF IInv, Types
  <2>2. /\ Len(q) \in Nat /\ Len(q) > 0 /\ DOMAIN q = 1..Len(q)
        /\ Tail(q) \in Seq({"ping", "prompt"}) /\ Head(q) = q[1]
        /\ DOMAIN Tail(q) = 1..(Len(q) - 1)
        /\ \A i \in DOMAIN Tail(q) : Tail(q)[i] = q[i + 1]
    BY <1>1, <2>1
  <2> QED
    BY <1>1, <2>1, <2>2
<1>6. /\ inbound'[c] = Tail(q) /\ \A d \in Conns \ {c} : inbound'[d] = inbound[d]
      /\ inbound' \in [Conns -> Seq({"ping", "prompt"})]
  BY <1>1, <1>5 DEF IInv, Types
<1>7. prompt[c].at = "none" /\ client[c].stream # "none"
  BY <1>5 DEF IInv, Stream, Requested
<1>8. \A i \in DOMAIN inbound'[c] : inbound'[c][i] # "prompt"
  BY <1>5, <1>6 DEF IInv, Stream, Requested
<1>9. Types'
  BY <1>1, <1>3, <1>4, <1>6 DEF IInv, Types
<1>10. Bounded' /\ Written' /\ Placed' /\ Listed' /\ Walking' /\ PromisesAreKept'
  BY <1>1, <1>3, BoundedStays, WrittenStays, PlacedStays, ListedStays, WalkingStays, PromisesStay
     DEF IInv, Server
<1>11. Consuming' /\ Greeted'
  BY <1>1, <1>3, ConsumingStays, GreetedStays DEF IInv, Stream
<1>12. Requested'
  <2> SUFFICES ASSUME NEW d \in Conns
               PROVE  /\ \A i, j \in DOMAIN inbound'[d] :
                            inbound'[d][i] = "prompt" /\ inbound'[d][j] = "prompt" => i = j
                      /\ \A i \in DOMAIN inbound'[d] : inbound'[d][i] = "prompt" =>
                            prompt'[d].at = "none" /\ client[d].stream # "none"
                      /\ client[d].stream = "none" => prompt'[d].at = "none"
                      /\ client[d].stream # "none" => d \in Talkers
    BY <1>1 DEF Requested
  <2>1. CASE d = c
    BY <1>7, <1>8, <2>1 DEF IInv, Stream, Requested
  <2>2. CASE d # c
    BY <1>4, <1>6, <2>2 DEF IInv, Stream, Requested
  <2> QED
    BY <2>1, <2>2
<1>13. \A d \in Conns : Held(d)' = Held(d) /\ (InFlight(d)' <=> InFlight(d)) /\ Single(d)'
  BY <1>3 DEF Held, InFlight, IInv, Stream, OneAtATime, Single
<1>14. ~InFlight(c) /\ future[Pro(c)] = "none"
  BY <1>7 DEF IInv, Stream, OneAtATime, Heard
<1>15. OneAtATime'
  <2>1. ASSUME NEW d \in Conns PROVE Heard(d)'
    <3>1. CASE d = c
      BY <1>4, <1>13, <1>14, <3>1 DEF Heard
    <3>2. CASE d # c
      BY <1>3, <1>4, <1>13, <3>2 DEF IInv, Stream, OneAtATime, Heard
    <3> QED
      BY <3>1, <3>2
  <2> QED
    BY <1>13, <2>1 DEF OneAtATime
<1>16. Flowing'
  <2> SUFFICES ASSUME NEW d \in Conns PROVE \E a, b \in Nat : Flows(d, a, b)'
    BY DEF Flowing
  <2>1. PICK a, b \in Nat : Flows(d, a, b)
    BY DEF IInv, Stream, Flowing
  <2>2. InOrder(wire[d], a, b)' /\ Reads(client[d], a)'
    BY <1>1, <2>1 DEF Flows, InOrder, Reads, IsFrame
  <2>3. Sends(d, b)
    BY <2>1 DEF Flows
  <2>4. CASE d = c
    <3>1. b = 0
      BY <1>7, <2>3, <2>4 DEF Sends
    <3>2. \A m \in Held(c)' : m.by # Pro(c)
      BY <1>13, <1>14 DEF InFlight
    <3>3. \A m \in Held(c)' : ~IsFrame(m)
      BY <1>13, <2>3, <2>4, <3>2 DEF Sends
    <3>4. Sends(c, b)'
      BY <1>3, <1>4, <1>14, <3>1, <3>2, <3>3 DEF Sends, IsFrame
    <3> QED
      BY <2>1, <2>2, <2>4, <3>4 DEF Flows
  <2>5. CASE d # c
    <3>1. Sends(d, b)'
      BY <1>3, <1>4, <1>13, <2>3, <2>5 DEF Sends, IsFrame
    <3> QED
      BY <2>1, <2>2, <3>1 DEF Flows
  <2> QED
    BY <2>4, <2>5
<1> QED
  BY <1>9, <1>10, <1>11, <1>12, <1>15, <1>16 DEF IInv, Server, Stream

-----------------------------------------------------------------------------
(* Sending *)

LEMMA QueueAppend ==
  ASSUME NEW q \in Seq(Messages), NEW m \in Messages
  PROVE  /\ Append(q, m) \in Seq(Messages) /\ Len(Append(q, m)) = Len(q) + 1 /\ Len(q) \in Nat
         /\ Range(Append(q, m)) = Range(q) \cup {m}
         /\ Append(q, m) # << >> /\ (q # << >> => Append(q, m)[1] = q[1])
         /\ \A i \in DOMAIN Append(q, m) :
               \/ i = Len(q) + 1 /\ Append(q, m)[i] = m
               \/ i \in DOMAIN q /\ Append(q, m)[i] = q[i]
<1>1. /\ Append(q, m) \in Seq(Messages) /\ Len(Append(q, m)) = Len(q) + 1 /\ Len(q) \in Nat
      /\ DOMAIN q = 1..Len(q) /\ DOMAIN Append(q, m) = 1..(Len(q) + 1)
      /\ Append(q, m)[Len(q) + 1] = m
      /\ \A i \in DOMAIN q : i \in DOMAIN Append(q, m) /\ Append(q, m)[i] = q[i]
  OBVIOUS
<1>2. \A i \in DOMAIN Append(q, m) :
         \/ i = Len(q) + 1 /\ Append(q, m)[i] = m
         \/ i \in DOMAIN q /\ Append(q, m)[i] = q[i]
  <2> SUFFICES ASSUME NEW i \in 1..(Len(q) + 1), i # Len(q) + 1 PROVE i \in 1..Len(q)
    BY <1>1
  <2> QED
    BY <1>1
<1>3. Range(Append(q, m)) = Range(q) \cup {m}
  <2>1. Range(Append(q, m)) \subseteq Range(q) \cup {m}
    BY <1>2 DEF Range
  <2>2. Len(q) + 1 \in DOMAIN Append(q, m)
    BY <1>1
  <2>3. Range(q) \cup {m} \subseteq Range(Append(q, m))
    BY <1>1, <2>2 DEF Range
  <2> QED
    BY <2>1, <2>3
<1>4. Append(q, m) # << >> /\ (q # << >> => Append(q, m)[1] = q[1])
  <2>1. Append(q, m) # << >>
    BY <1>1
  <2>2. ASSUME q # << >> PROVE Append(q, m)[1] = q[1]
    <3>1. Len(q) # 0
      BY <2>2
    <3>2. 1 \in DOMAIN q
      BY <1>1, <3>1
    <3> QED
      BY <1>1, <3>2
  <2> QED
    BY <2>1, <2>2
<1> QED
  BY <1>1, <1>2, <1>3, <1>4

(* What send() does to the queues, the writers and the futures, whoever of *)
(* a connection's tasks or the emitters calls it.                          *)
LEMMA SendIs ==
  ASSUME IInv, NEW c \in Conns, NEW t \in {End(c), Pro(c)} \cup Emitters,
         NEW kind \in Kinds, NEW n \in Nat, Send(t, c, kind, n),
         UNCHANGED <<session, known, current, wire, client>>,
         \A d \in Conns : endpoint'[d] = "none" => endpoint[d] = "none"
  PROVE  /\ future' \in [Senders -> Futures] /\ sendQueue' \in [Conns -> Seq(Messages)]
         /\ closed' \subseteq Conns /\ writer' \in [Conns -> {"none", "done"} \cup LiveWriter]
         /\ \A d \in Conns : writer'[d] = "done" <=> writer[d] = "done"
         /\ future'[t] \in {"failed", "shutting", "pending"}
         /\ \A u \in Senders \ {t} : future'[u] = future[u]
         /\ \/ sendQueue' = sendQueue /\ future'[t] # "pending"
            \/ /\ sendQueue' = [sendQueue EXCEPT ![c] = Append(@, Msg(kind, t, n))]
               /\ future'[t] = "pending"
         /\ Bounded' /\ Written' /\ Placed' /\ PromisesAreKept' /\ Greeted'
<1> DEFINE m == Msg(kind, t, n)
           q == sendQueue[c]
<1>0. t \in Senders /\ t # None
  BY Tasks
<1>1. m \in Messages /\ m.by = t /\ q \in Seq(Messages)
  BY <1>0 DEF Msg, Messages, IInv, Types
<1> HIDE DEF m
<1>2. CASE future' = [future EXCEPT ![t] = "failed"] /\ UNCHANGED <<sendQueue, closed, writer>>
  <2>1. /\ future' \in [Senders -> Futures] /\ future'[t] = "failed"
        /\ \A u \in Senders \ {t} : future'[u] = future[u]
    BY <1>0, <1>2 DEF IInv, Types, Futures
  <2>2. \A d \in Conns : Held(d)' = Held(d)
    BY <1>2 DEF Held
  <2>3. Placed'
    <3>1. \A d \in Conns : future'[End(d)] = "cancelled" => writer'[d] = "done"
      BY <1>2, <2>1, Tasks DEF IInv, Server, Placed
    <3> QED
      BY <2>2, <3>1, FewerPlaced
  <2>4. PromisesAreKept'
    BY <1>2, <2>1, <2>2, PromisesFollow
  <2>5. Bounded' /\ Greeted'
    BY <1>2, BoundedStays, GreetedStays DEF IInv, Server, Stream
  <2>6. Written'
    BY <1>2 DEF IInv, Server, Written
  <2>7. /\ sendQueue' \in [Conns -> Seq(Messages)] /\ closed' \subseteq Conns
        /\ writer' \in [Conns -> {"none", "done"} \cup LiveWriter]
    BY <1>2 DEF IInv, Types
  <2> QED
    BY <1>2, <2>1, <2>3, <2>4, <2>5, <2>6, <2>7
<1>3. CASE /\ future' = [future EXCEPT ![t] = "shutting"]
           /\ closed' = closed \cup {c} /\ CancelWriter(c) /\ UNCHANGED sendQueue
  <2>1. /\ future' \in [Senders -> Futures] /\ future'[t] = "shutting"
        /\ \A u \in Senders \ {t} : future'[u] = future[u]
    BY <1>0, <1>3 DEF IInv, Types, Futures
  <2>2. \A d \in Conns : Held(d)' = Held(d)
    BY <1>3 DEF Held
  <2>3. /\ writer' \in [Conns -> {"none", "done"} \cup LiveWriter]
        /\ writer'[c] = IF writer[c] \in LiveWriter THEN "cancelling" ELSE writer[c]
        /\ \A d \in Conns \ {c} : writer'[d] = writer[d]
    BY <1>3 DEF CancelWriter, IInv, Types, LiveWriter
  <2>4. \A d \in Conns : /\ writer'[d] = "done" <=> writer[d] = "done"
                         /\ writer[d] \in LiveWriter => writer'[d] \in LiveWriter
    BY <2>3 DEF LiveWriter
  <2>5. Placed'
    <3>1. \A d \in Conns : future'[End(d)] = "cancelled" => writer'[d] = "done"
      BY <2>1, <2>4, Tasks DEF IInv, Server, Placed
    <3> QED
      BY <2>2, <3>1, FewerPlaced
  <2>6. PromisesAreKept'
    BY <2>1, <2>2, <2>4, PromisesFollow
  <2>7. Bounded'
    BY <1>3, BoundedStays DEF IInv, Server
  <2>8. Written'
    BY <1>3, <2>3 DEF IInv, Server, Written, LiveWriter
  <2>9. Greeted'
    BY <1>3, <2>3 DEF IInv, Stream, Greeted
  <2>10. sendQueue' \in [Conns -> Seq(Messages)] /\ closed' \subseteq Conns
    BY <1>3 DEF IInv, Types
  <2> QED
    BY <1>3, <2>1, <2>3, <2>4, <2>5, <2>6, <2>7, <2>8, <2>9, <2>10
<1>4. CASE /\ c \in known /\ c \notin closed /\ ~Full(c)
           /\ future' = [future EXCEPT ![t] = "pending"]
           /\ sendQueue' = [sendQueue EXCEPT ![c] = Append(@, m)]
           /\ UNCHANGED <<closed, writer>>
  <2>1. /\ future' \in [Senders -> Futures] /\ future'[t] = "pending"
        /\ \A u \in Senders \ {t} : future'[u] = future[u]
    BY <1>0, <1>4 DEF IInv, Types, Futures
  <2>2. /\ Append(q, m) \in Seq(Messages) /\ Len(Append(q, m)) = Len(q) + 1 /\ Len(q) \in Nat
        /\ Range(Append(q, m)) = Range(q) \cup {m}
        /\ Append(q, m) # << >> /\ (q # << >> => Append(q, m)[1] = q[1])
    BY <1>1, QueueAppend
  <2>3. /\ sendQueue' \in [Conns -> Seq(Messages)] /\ sendQueue'[c] = Append(q, m)
        /\ \A d \in Conns \ {c} : sendQueue'[d] = sendQueue[d]
    BY <1>4, <2>2 DEF IInv, Types
  <2>4. Held(c)' = Held(c) \cup {m} /\ \A d \in Conns \ {c} : Held(d)' = Held(d)
    BY <2>2, <2>3 DEF Held
  <2>5. Placed'
    <3> SUFFICES ASSUME NEW d \in Conns
                 PROVE  /\ \A x \in Held(d)' : x.by \in {End(d), Pro(d), None} \cup Emitters
                        /\ future'[End(d)] = "cancelled" => writer'[d] = "done"
      BY DEF Placed
    <3>1. future'[End(d)] = "cancelled" => writer'[d] = "done"
      BY <1>4, <2>1, Tasks DEF IInv, Server, Placed
    <3>2. CASE d = c
      BY <1>1, <2>4, <3>1, <3>2 DEF IInv, Server, Placed
    <3>3. CASE d # c
      BY <2>4, <3>1, <3>3 DEF IInv, Server, Placed
    <3> QED
      BY <3>2, <3>3
  <2>6. PromisesAreKept'
    <3> SUFFICES ASSUME NEW u \in Senders, future'[u] = "pending" PROVE Kept(u)'
      BY HeldPromises
    <3>1. \A d \in Conns : \A x \in Held(d) : x \in Held(d)'
      BY <2>4
    <3>2. CASE u = t
      <4>1. writer[c] \in LiveWriter
        BY <1>4 DEF IInv, Server, Written, LiveWriter
      <4> QED
        BY <1>1, <1>4, <2>4, <3>2, <4>1 DEF Kept
    <3>3. CASE u # t
      <4>1. Kept(u)
        BY <2>1, <3>3, PromisesHeld DEF IInv, Server
      <4> QED
        BY <1>4, <3>1, <4>1 DEF Kept
    <3> QED
      BY <3>2, <3>3
  <2>7. Bounded'
    <3> SUFFICES ASSUME NEW d \in Conns PROVE Len(sendQueue'[d]) <= MaxQueue
      BY DEF IInv, Server, Bounded
    <3>1. Len(sendQueue[d]) <= MaxQueue
      BY DEF IInv, Server, Bounded
    <3>2. Len(Append(q, m)) <= MaxQueue
      BY <1>4, <2>2, Sizes DEF Full
    <3> QED
      BY <2>3, <3>1, <3>2
  <2>8. Written'
    BY <1>4 DEF IInv, Server, Written
  <2>9. Greeted'
    BY <1>4, <2>2, <2>3 DEF IInv, Stream, Greeted
  <2>10. closed' \subseteq Conns /\ writer' \in [Conns -> {"none", "done"} \cup LiveWriter]
    BY <1>4 DEF IInv, Types
  <2> QED
    BY <1>4, <2>1, <2>3, <2>5, <2>6, <2>7, <2>8, <2>9, <2>10 DEF m
<1> QED
  BY <1>2, <1>3, <1>4 DEF Send, m

(* A task other than a prompt sends something other than a frame.          *)
LEMMA SendsOther ==
  ASSUME IInv, NEW c \in Conns, NEW t \in {End(c)} \cup Emitters,
         NEW kind \in Kinds \ {"frame"}, NEW n \in Nat, Send(t, c, kind, n),
         UNCHANGED <<session, known, current, prompt, wire, client>>,
         \A d \in Conns : endpoint'[d] = "none" => endpoint[d] = "none"
  PROVE  OneAtATime' /\ Flowing' /\ Consuming'
<1> DEFINE m == Msg(kind, t, n)
           q == sendQueue[c]
<1>1. /\ \A u \in Senders \ {t} : future'[u] = future[u]
      /\ sendQueue' = sendQueue \/ sendQueue' = [sendQueue EXCEPT ![c] = Append(@, m)]
  <2>1. t \in {End(c), Pro(c)} \cup Emitters /\ kind \in Kinds
    OBVIOUS
  <2>2. /\ \A u \in Senders \ {t} : future'[u] = future[u]
        /\ \/ sendQueue' = sendQueue /\ future'[t] # "pending"
           \/ /\ sendQueue' = [sendQueue EXCEPT ![c] = Append(@, Msg(kind, t, n))]
              /\ future'[t] = "pending"
    BY <2>1, SendIs
  <2> QED
    BY <2>2
<1>2. /\ m \in Messages /\ m.by = t /\ ~IsFrame(m) /\ q \in Seq(Messages)
      /\ \A d \in Conns : t # Pro(d)
  BY Tasks DEF Msg, Messages, IsFrame, IInv, Types
<1> HIDE DEF m
<1>3. \A d \in Conns : future'[Pro(d)] = future[Pro(d)]
  BY <1>1, <1>2, Tasks
<1>4. /\ Range(Append(q, m)) = Range(q) \cup {m}
      /\ \A i \in DOMAIN Append(q, m) :
            \/ i = Len(q) + 1 /\ Append(q, m)[i] = m
            \/ i \in DOMAIN q /\ Append(q, m)[i] = q[i]
  BY <1>2, QueueAppend
<1>5. \A d \in Conns : sendQueue'[d] = sendQueue[d] \/ (d = c /\ sendQueue'[d] = Append(q, m))
  BY <1>1 DEF IInv, Types
<1>6. ASSUME NEW d \in Conns PROVE /\ \A x \in Held(d)' : x \in Held(d) \/ x = m
                                   /\ \A x \in Held(d) : x \in Held(d)'
  BY <1>4, <1>5 DEF Held
<1>7. \A d \in Conns : InFlight(d)' <=> InFlight(d)
  BY <1>2, <1>6 DEF InFlight
<1>8. ASSUME NEW d \in Conns PROVE Single(d)'
  <2>1. Single(d)
    BY DEF IInv, Stream, OneAtATime
  <2>2. \A i \in DOMAIN sendQueue'[d] : sendQueue'[d][i].by = Pro(d) =>
           i \in DOMAIN sendQueue[d] /\ sendQueue[d][i].by = Pro(d)
    BY <1>2, <1>4, <1>5
  <2> QED
    BY <2>1, <2>2 DEF Single
<1>9. OneAtATime'
  <2>1. ASSUME NEW d \in Conns PROVE Heard(d)'
    BY <1>3, <1>7 DEF IInv, Stream, OneAtATime, Heard
  <2> QED
    BY <1>8, <2>1 DEF OneAtATime
<1>10. Flowing'
  <2> SUFFICES ASSUME NEW d \in Conns PROVE \E a, b \in Nat : Flows(d, a, b)'
    BY DEF Flowing
  <2>1. PICK a, b \in Nat : Flows(d, a, b)
    BY DEF IInv, Stream, Flowing
  <2>2. InOrder(wire[d], a, b)' /\ Reads(client[d], a)'
    BY <2>1 DEF Flows, InOrder, Reads, IsFrame
  <2>3. Sends(d, b)
    BY <2>1 DEF Flows
  <2>4. \A x \in Held(d)' : IsFrame(x) \/ x.by = Pro(d) => x \in Held(d)
    BY <1>2, <1>6
  <2>5. Sends(d, b)'
    BY <1>3, <2>3, <2>4 DEF Sends, IsFrame
  <2> QED
    BY <2>1, <2>2, <2>5 DEF Flows
<1>11. Consuming'
  BY ConsumingStays DEF IInv, Stream
<1> QED
  BY <1>9, <1>10, <1>11

LEMMA EmitNextStep ==
  ASSUME IInv, NEW e \in Emitters, EmitNext(e) PROVE IInv'
<1> DEFINE em == emitter[e]
           p == em.pos
           c == session[p + 1]
           new == (IF em.at = "idle" THEN Range(session) ELSE em.due) \ {c}
<1>1. /\ em.at \in {"idle", "sending"} /\ p < Len(session)
      /\ Send(e, c, "event", 0)
      /\ emitter' = [emitter EXCEPT ![e].at = "sending", ![e].pos = @ + 1, ![e].due = new]
      /\ UNCHANGED <<session, known, current, endpoint, prompt, net, inbound, wire, client>>
  BY DEF EmitNext, sockets
<1>2. /\ emitter \in [Emitters -> Walks] /\ em \in Walks /\ p \in Nat
      /\ session \in Seq(Conns) /\ DOMAIN session = 1..Len(session) /\ Len(session) \in Nat
  <2>1. emitter \in [Emitters -> Walks] /\ em \in Walks /\ session \in Seq(Conns)
    BY DEF IInv, Types
  <2> QED
    BY <2>1 DEF Walks
<1>3. p + 1 \in DOMAIN session /\ c \in Conns
  BY <1>1, <1>2
<1>4. Range(session) \subseteq Conns /\ new \subseteq Conns
  <2>1. Range(session) \subseteq Conns
    BY <1>2 DEF Range
  <2>2. em.due \subseteq Conns
    BY <1>2 DEF Walks
  <2> QED
    BY <2>1, <2>2
<1>5. /\ emitter' \in [Emitters -> Walks]
      /\ emitter'[e].at = "sending" /\ emitter'[e].pos = p + 1 /\ emitter'[e].due = new
      /\ \A f \in Emitters \ {e} : emitter'[f] = emitter[f]
  <2> HIDE DEF new
  <2>1. PICK r1 : r1 = [em EXCEPT !.at = "sending"]
    OBVIOUS
  <2>2. r1 \in Walks /\ r1.pos = p /\ r1.due = em.due /\ r1.at = "sending"
    BY <1>2, <2>1 DEF Walks
  <2>3. PICK r2 : r2 = [r1 EXCEPT !.pos = p + 1]
    OBVIOUS
  <2>4. r2 \in Walks /\ r2.at = "sending" /\ r2.pos = p + 1
    BY <1>2, <2>2, <2>3 DEF Walks
  <2>5. PICK r3 : r3 = [r2 EXCEPT !.due = new]
    OBVIOUS
  <2>6. r3 \in Walks /\ r3.at = "sending" /\ r3.pos = p + 1 /\ r3.due = new
    BY <1>4, <2>4, <2>5 DEF Walks
  <2>7. emitter'[e] = r3 /\ \A f \in Emitters \ {e} : emitter'[f] = emitter[f]
    BY <1>1, <1>2, <2>1, <2>2, <2>3, <2>5
  <2>8. emitter' \in [Emitters -> Walks]
    BY <1>1, <1>2, <2>6, <2>7
  <2> QED
    BY <2>6, <2>7, <2>8
<1> HIDE DEF c
<1>6. /\ future' \in [Senders -> Futures] /\ sendQueue' \in [Conns -> Seq(Messages)]
      /\ closed' \subseteq Conns /\ writer' \in [Conns -> {"none", "done"} \cup LiveWriter]
      /\ \A d \in Conns : writer'[d] = "done" <=> writer[d] = "done"
      /\ Bounded' /\ Written' /\ Placed' /\ PromisesAreKept' /\ Greeted'
  <2>1. e \in {End(c), Pro(c)} \cup Emitters /\ "event" \in Kinds /\ 0 \in Nat
    BY DEF Kinds
  <2> QED
    BY <1>1, <1>3, <2>1, SendIs
<1>7. OneAtATime' /\ Flowing' /\ Consuming'
  <2>1. e \in {End(c)} \cup Emitters /\ "event" \in Kinds \ {"frame"} /\ 0 \in Nat
    BY DEF Kinds
  <2> QED
    BY <1>1, <1>3, <2>1, SendsOther
<1>8. Types'
  BY <1>1, <1>5, <1>6 DEF IInv, Types
<1>9. Listed'
  BY <1>1, <1>6 DEF IInv, Server, Listed
<1>10. Requested'
  BY <1>1, RequestedStays DEF IInv, Stream
<1>11. ASSUME NEW d \in new PROVE \E k \in DOMAIN session : k > p + 1 /\ session[k] = d
  <2>1. \E k \in DOMAIN session : k > p /\ session[k] = d
    <3>1. CASE em.at = "idle"
      <4>1. p = 0
        BY <3>1 DEF IInv, Server, Walking
      <4>2. PICK k \in DOMAIN session : session[k] = d
        BY <3>1 DEF Range
      <4>3. k > p
        BY <1>2, <4>1, <4>2
      <4> QED
        BY <4>2, <4>3
    <3>2. CASE em.at = "sending"
      BY <3>2 DEF IInv, Server, Walking, Ahead
    <3> QED
      BY <1>1, <3>1, <3>2
  <2>2. PICK k \in DOMAIN session : k > p /\ session[k] = d
    BY <2>1
  <2>3. k # p + 1
    BY <2>2 DEF c
  <2>4. k > p + 1
    BY <1>2, <2>2, <2>3
  <2> QED
    BY <2>2, <2>4
<1>12. Walking'
  <2> SUFFICES ASSUME NEW f \in Emitters
               PROVE  /\ emitter'[f].at = "idle" => emitter'[f].pos = 0
                      /\ emitter'[f].at = "sending" => Ahead(emitter[f])'
                      /\ emitter'[f].at = "done" => emitter'[f].due = {}
    BY DEF Walking
  <2>1. CASE f = e
    <3>1. p + 1 # 0
      BY <1>2
    <3> HIDE DEF new
    <3> QED
      BY <1>1, <1>5, <1>11, <2>1, <3>1 DEF Ahead
  <2>2. CASE f # e
    BY <1>1, <1>5, <2>2 DEF IInv, Server, Walking, Ahead
  <2> QED
    BY <2>1, <2>2
<1> QED
  BY <1>6, <1>7, <1>8, <1>9, <1>10, <1>12 DEF IInv, Server, Stream

LEMMA ReceivePingStep ==
  ASSUME IInv, NEW c \in Conns, ReceivePing(c) PROVE IInv'
<1> DEFINE q == inbound[c]
<1>1. /\ UNCHANGED <<session, known, current, emitter, prompt, net, wire, client>>
      /\ endpoint[c] = "reading" /\ q # << >> /\ Head(q) = "ping"
      /\ inbound' = [inbound EXCEPT ![c] = Tail(q)]
      /\ Send(End(c), c, "pong", 0)
      /\ endpoint' = [endpoint EXCEPT ![c] = "answering"]
  BY DEF ReceivePing
<1>2. /\ endpoint' \in [Conns -> Stages] /\ endpoint'[c] = "answering"
      /\ \A d \in Conns \ {c} : endpoint'[d] = endpoint[d]
  BY <1>1 DEF IInv, Types, Stages
<1>3. \A d \in Conns : endpoint'[d] = "none" => endpoint[d] = "none"
  BY <1>2
<1>4. /\ future' \in [Senders -> Futures] /\ sendQueue' \in [Conns -> Seq(Messages)]
      /\ closed' \subseteq Conns /\ writer' \in [Conns -> {"none", "done"} \cup LiveWriter]
      /\ \A d \in Conns : writer'[d] = "done" <=> writer[d] = "done"
      /\ Bounded' /\ Written' /\ Placed' /\ PromisesAreKept' /\ Greeted'
  <2>1. End(c) \in {End(c), Pro(c)} \cup Emitters /\ "pong" \in Kinds /\ 0 \in Nat
    BY DEF Kinds
  <2> QED
    BY <1>1, <1>3, <2>1, SendIs
<1>5. OneAtATime' /\ Flowing' /\ Consuming'
  <2>1. End(c) \in {End(c)} \cup Emitters /\ "pong" \in Kinds \ {"frame"} /\ 0 \in Nat
    BY DEF Kinds
  <2> QED
    BY <1>1, <1>3, <2>1, SendsOther
<1>6. /\ Tail(q) \in Seq({"ping", "prompt"})
      /\ \A i \in DOMAIN Tail(q) : i \in Nat /\ i + 1 \in DOMAIN q /\ Tail(q)[i] = q[i + 1]
  <2>1. q \in Seq({"ping", "prompt"})
    BY DEF IInv, Types
  <2>2. /\ Len(q) \in Nat /\ DOMAIN q = 1..Len(q) /\ Tail(q) \in Seq({"ping", "prompt"})
        /\ DOMAIN Tail(q) = 1..(Len(q) - 1)
        /\ \A i \in DOMAIN Tail(q) : Tail(q)[i] = q[i + 1]
    BY <1>1, <2>1
  <2> QED
    BY <2>2
<1>7. /\ inbound'[c] = Tail(q) /\ \A d \in Conns \ {c} : inbound'[d] = inbound[d]
      /\ inbound' \in [Conns -> Seq({"ping", "prompt"})]
  BY <1>1, <1>6 DEF IInv, Types
<1>8. Types'
  BY <1>1, <1>2, <1>4, <1>7 DEF IInv, Types
<1>9. Listed'
  BY <1>1, <1>2, <1>4 DEF IInv, Server, Listed
<1>10. Walking'
  BY <1>1, WalkingStays DEF IInv, Server
<1>11. Requested'
  <2> SUFFICES ASSUME NEW d \in Conns
               PROVE  /\ \A i, j \in DOMAIN inbound'[d] :
                            inbound'[d][i] = "prompt" /\ inbound'[d][j] = "prompt" => i = j
                      /\ \A i \in DOMAIN inbound'[d] : inbound'[d][i] = "prompt" =>
                            prompt[d].at = "none" /\ client[d].stream # "none"
                      /\ client[d].stream = "none" => prompt[d].at = "none"
                      /\ client[d].stream # "none" => d \in Talkers
    BY <1>1 DEF Requested
  <2>1. CASE d = c
    <3>1. \A i, j \in DOMAIN Tail(q) : Tail(q)[i] = "prompt" /\ Tail(q)[j] = "prompt" => i = j
      <4> SUFFICES ASSUME NEW i \in DOMAIN Tail(q), NEW j \in DOMAIN Tail(q),
                          Tail(q)[i] = "prompt", Tail(q)[j] = "prompt"
                   PROVE  i = j
        OBVIOUS
      <4>1. i + 1 = j + 1 /\ i \in Nat /\ j \in Nat
        BY <1>6 DEF IInv, Stream, Requested
      <4> QED
        BY <4>1
    <3>2. \A i \in DOMAIN Tail(q) : Tail(q)[i] = "prompt" =>
             prompt[c].at = "none" /\ client[c].stream # "none"
      BY <1>6 DEF IInv, Stream, Requested
    <3>3. /\ client[c].stream = "none" => prompt[c].at = "none"
          /\ client[c].stream # "none" => c \in Talkers
      BY DEF IInv, Stream, Requested
    <3>4. inbound'[d] = Tail(q)
      BY <1>7, <2>1
    <3> HIDE DEF q
    <3> QED
      BY <2>1, <3>1, <3>2, <3>3, <3>4
  <2>2. CASE d # c
    BY <1>7, <2>2 DEF IInv, Stream, Requested
  <2> QED
    BY <2>1, <2>2
<1> QED
  BY <1>4, <1>5, <1>8, <1>9, <1>10, <1>11 DEF IInv, Server, Stream

LEMMA PromptSendsStep ==
  ASSUME IInv, NEW c \in Conns, PromptSends(c) PROVE IInv'
<1> DEFINE pr == prompt[c]
           kind == IF pr.kind = "error" THEN "error" ELSE "frame"
           m == Msg(kind, Pro(c), pr.n + 1)
           q == sendQueue[c]
<1>1. /\ UNCHANGED <<session, known, current, emitter, endpoint, net, inbound, wire, client>>
      /\ pr.at = "running" /\ future[Pro(c)] \in {"none", "sent"}
      /\ Send(Pro(c), c, kind, pr.n + 1)
      /\ prompt' = [prompt EXCEPT ![c].n = @ + 1]
  BY DEF PromptSends, sockets
<1>2. pr \in Prompts /\ pr.n \in Nat /\ pr.kind \in {"frames", "error"} /\ q \in Seq(Messages)
  <2>1. pr \in Prompts /\ q \in Seq(Messages)
    BY DEF IInv, Types
  <2> QED
    BY <2>1 DEF Prompts
<1>3. [pr EXCEPT !.n = pr.n + 1] \in Prompts
  BY <1>2 DEF Prompts
<1>4. /\ prompt' \in [Conns -> Prompts]
      /\ prompt'[c].at = "running" /\ prompt'[c].kind = pr.kind /\ prompt'[c].n = pr.n + 1
      /\ \A d \in Conns \ {c} : prompt'[d] = prompt[d]
  BY <1>1, <1>2, <1>3 DEF IInv, Types, Prompts
<1>5. kind \in Kinds /\ pr.n + 1 \in Nat /\ Pro(c) \in {End(c), Pro(c)} \cup Emitters
  BY <1>2 DEF Kinds
<1>6. /\ m \in Messages /\ m.by = Pro(c) /\ m.n = pr.n + 1
      /\ IsFrame(m) <=> pr.kind = "frames"
  BY <1>2, <1>5, Tasks DEF Msg, Messages, IsFrame
<1> HIDE DEF kind
<1>7. /\ future' \in [Senders -> Futures] /\ sendQueue' \in [Conns -> Seq(Messages)]
      /\ closed' \subseteq Conns /\ writer' \in [Conns -> {"none", "done"} \cup LiveWriter]
      /\ \A d \in Conns : writer'[d] = "done" <=> writer[d] = "done"
      /\ Bounded' /\ Written' /\ Placed' /\ PromisesAreKept' /\ Greeted'
  BY <1>1, <1>5, SendIs
<1>8. /\ future'[Pro(c)] \in {"failed", "shutting", "pending"}
      /\ \A u \in Senders \ {Pro(c)} : future'[u] = future[u]
      /\ \/ sendQueue' = sendQueue /\ future'[Pro(c)] # "pending"
         \/ /\ sendQueue' = [sendQueue EXCEPT ![c] = Append(@, m)]
            /\ future'[Pro(c)] = "pending"
  <2>1. /\ future'[Pro(c)] \in {"failed", "shutting", "pending"}
        /\ \A u \in Senders \ {Pro(c)} : future'[u] = future[u]
    BY <1>1, <1>5, SendIs
  <2>2. \/ sendQueue' = sendQueue /\ future'[Pro(c)] # "pending"
        \/ /\ sendQueue' = [sendQueue EXCEPT ![c] = Append(@, Msg(kind, Pro(c), pr.n + 1))]
           /\ future'[Pro(c)] = "pending"
    BY <1>1, <1>5, SendIs
  <2> QED
    BY <2>1, <2>2
<1> HIDE DEF m
<1>9. /\ Range(Append(q, m)) = Range(q) \cup {m}
      /\ \A i \in DOMAIN Append(q, m) :
            \/ i = Len(q) + 1 /\ Append(q, m)[i] = m
            \/ i \in DOMAIN q /\ Append(q, m)[i] = q[i]
  BY <1>2, <1>6, QueueAppend
<1>10. /\ sendQueue'[c] = q \/ sendQueue'[c] = Append(q, m)
       /\ \A d \in Conns \ {c} : sendQueue'[d] = sendQueue[d]
  BY <1>8 DEF IInv, Types
<1>11. /\ \A x \in Held(c)' : x \in Held(c) \/ x = m
       /\ \A d \in Conns \ {c} : Held(d)' = Held(d)
  BY <1>1, <1>9, <1>10 DEF Held
<1>12. ~InFlight(c) /\ Single(c)
  BY <1>1 DEF IInv, Stream, OneAtATime, Heard
<1>13. \A x \in Held(c) : x.by # Pro(c)
  BY <1>12 DEF InFlight
<1>14. OneAtATime'
  <2>1. ASSUME NEW d \in Conns PROVE Single(d)' /\ Heard(d)'
    <3>1. Single(d) /\ Heard(d)
      BY DEF IInv, Stream, OneAtATime
    <3>2. CASE d = c
      <4>1. current[c].by # Pro(c) /\ \A i \in DOMAIN q : q[i].by # Pro(c)
        BY <1>13 DEF Held, Range
      <4>2. Single(c)'
        BY <1>1, <1>9, <1>10, <4>1 DEF Single
      <4>3. Heard(c)'
        BY <1>4, <1>8 DEF Heard
      <4> QED
        BY <3>2, <4>2, <4>3
    <3>3. CASE d # c
      <4>1. future'[Pro(d)] = future[Pro(d)]
        BY <1>8, <3>3, Tasks
      <4> QED
        BY <1>1, <1>4, <1>10, <1>11, <3>1, <3>3, <4>1 DEF Single, Heard, InFlight
    <3> QED
      BY <3>2, <3>3
  <2> QED
    BY <2>1 DEF OneAtATime
<1>15. Flowing'
  <2> SUFFICES ASSUME NEW d \in Conns PROVE \E a, b \in Nat : Flows(d, a, b)'
    BY DEF Flowing
  <2>1. PICK a, b \in Nat : Flows(d, a, b)
    BY DEF IInv, Stream, Flowing
  <2>2. InOrder(wire[d], a, b)' /\ Reads(client[d], a)'
    BY <1>1, <2>1 DEF Flows, InOrder, Reads, IsFrame
  <2>3. Sends(d, b)
    BY <2>1 DEF Flows
  <2>4. CASE d = c
    <3>1. pr.kind = "frames" => pr.n = b
      BY <1>1, <2>3, <2>4 DEF Sends
    <3>2. \A x \in Held(c)' : x = m \/ ~IsFrame(x)
      BY <1>11, <1>13, <2>3, <2>4 DEF Sends
    <3>3. \A x \in Held(c)' : x.by = Pro(c) => x = m
      BY <1>11, <1>13
    <3>4. \A x \in Held(c)' : IsFrame(x) => x.by = Pro(c) /\ x.n = b + 1
      BY <1>2, <1>6, <3>1, <3>2
    <3>5. pr.kind = "frames" => /\ prompt'[c].n = b + 1
                                /\ \A x \in Held(c)' : x.by = Pro(c) => IsFrame(x)
      BY <1>4, <1>6, <3>1, <3>3
    <3>6. Sends(c, b)'
      BY <1>4, <1>8, <3>4, <3>5 DEF Sends, IsFrame
    <3> QED
      BY <2>1, <2>2, <2>4, <3>6 DEF Flows
  <2>5. CASE d # c
    <3>1. future'[Pro(d)] = future[Pro(d)]
      BY <1>8, <2>5, Tasks
    <3>2. Sends(d, b)'
      BY <1>4, <1>11, <2>3, <2>5, <3>1 DEF Sends, IsFrame
    <3> QED
      BY <2>1, <2>2, <3>2 DEF Flows
  <2> QED
    BY <2>4, <2>5
<1>16. Types'
  BY <1>1, <1>4, <1>7 DEF IInv, Types
<1>17. Listed'
  BY <1>1, <1>7 DEF IInv, Server, Listed
<1>18. Walking' /\ Consuming'
  BY <1>1, WalkingStays, ConsumingStays DEF IInv, Server, Stream
<1>19. Requested'
  <2>1. client[c].stream # "none" /\ \A i \in DOMAIN inbound[c] : inbound[c][i] # "prompt"
    BY <1>1 DEF IInv, Stream, Requested
  <2> QED
    BY <1>1, <1>4, <2>1 DEF IInv, Stream, Requested
<1> QED
  BY <1>7, <1>14, <1>15, <1>16, <1>17, <1>18, <1>19 DEF IInv, Server, Stream

-----------------------------------------------------------------------------
(* The theorems *)

LEMMA ServerSteps == ASSUME IInv, ServerStep PROVE IInv'
<1>1. CASE \E e \in Emitters : EmitNext(e) \/ EmitDone(e) \/ EmitAborted(e)
  BY <1>1, EmitNextStep, EmitDoneStep, EmitAbortedStep
<1>2. CASE \E t \in Senders, c \in Conns : SlowConsumerShut(t, c)
  BY <1>2, SlowConsumerShutStep
<1>3. ASSUME NEW c \in Conns,
             \/ WriterTake(c) \/ WriterSent(c) \/ WriterFails(c) \/ WriterClosed(c)
             \/ WriterCancelled(c) \/ Connected(c) \/ ReceivePing(c)
             \/ ReceivePrompt(c) \/ Answered(c) \/ Disconnected(c)
             \/ CancelPrompt(c) \/ Disconnect(c) \/ Left(c)
             \/ PromptSends(c) \/ PromptEnds(c)
      PROVE  IInv'
  BY <1>3, WriterTakeStep, WriterSentStep, WriterFailsStep, WriterClosedStep,
     WriterCancelledStep, ConnectedStep, ReceivePingStep, ReceivePromptStep, AnsweredStep,
     DisconnectedStep, CancelPromptStep, DisconnectStep, LeftStep, PromptSendsStep,
     PromptEndsStep
<1> QED
  BY <1>1, <1>2, <1>3 DEF ServerStep

LEMMA Steps == ASSUME IInv, [Next]_vars PROVE IInv'
<1>1. CASE ServerStep
  BY <1>1, ServerSteps
<1>2. CASE ClientStep
  BY <1>2, ReceiveStep, LoopEndsStep, StreamTakeStep DEF ClientStep
<1>3. CASE \E c \in Conns : \/ Connect(c) \/ Break(c) \/ ClientPing(c)
                            \/ PingTimeout(c) \/ ClientPrompt(c)
  BY <1>3, ConnectStep, BreakStep, ClientPingStep, PingTimeoutStep, ClientPromptStep
<1>4. CASE UNCHANGED vars
  <2>1. /\ UNCHANGED <<session, known, closed, sendQueue, writer, current, future>>
        /\ UNCHANGED <<emitter, endpoint, prompt, net, inbound, wire, client>>
    BY <1>4 DEF vars, server, connections, tasks, sockets
  <2>2. Types'
    BY <2>1 DEF IInv, Types
  <2>3. Bounded' /\ Written' /\ Placed' /\ Listed' /\ Walking' /\ PromisesAreKept'
    BY <2>1, BoundedStays, WrittenStays, PlacedStays, ListedStays, WalkingStays, PromisesStay
       DEF IInv, Server
  <2>4. OneAtATime' /\ Requested' /\ Flowing' /\ Consuming' /\ Greeted'
    BY <2>1, OneAtATimeStays, RequestedStays, FlowingStays, ConsumingStays, GreetedStays
       DEF IInv, Stream
  <2> QED
    BY <2>2, <2>3, <2>4 DEF IInv, Server, Stream
<1> QED
  BY <1>1, <1>2, <1>3, <1>4 DEF Next

(* The inductive invariant holds in every state of every behaviour.        *)
THEOREM Invariance == Spec => []IInv
<1>1. Init => IInv
  BY InitHolds
<1>2. IInv /\ [Next]_vars => IInv'
  BY Steps
<1> QED
  BY <1>1, <1>2, PTL DEF Spec

(* Nobody waits for a message that no writer will ever send or fail; the   *)
(* bounds of the queues hold; and a connection that is gone has left       *)
(* nothing running and accepts nothing (send, _write_messages,             *)
(* _shutdown_connection, disconnect).                                      *)
THEOREM ConnectionsSound == Spec => []ConnectionsAreSound
<1>1. IInv => TypeOK
  BY DEF IInv, Types, Server, Bounded, TypeOK, Futures
<1>2. IInv => GoneIsGone
  BY DEF IInv, Server, Written, Listed, GoneIsGone
<1>3. IInv => ConnectionsAreSound
  BY <1>1, <1>2 DEF IInv, Server, ConnectionsAreSound
<1> QED
  BY <1>3, Invariance, PTL

(* An event reaches every connection that stays in the list until the      *)
(* emitter has passed it; the frames a client reads are those of its       *)
(* prompt, in order and without a gap, all of them when the stream is      *)
(* "complete" (_broadcast_event, handle_prompt, _dispatch_message).        *)
THEOREM MessagesDoArrive == Spec => []MessagesArrive
<1>1. IInv => EventsReachAll
  BY DEF IInv, Server, Walking, EventsReachAll
<1>2. IInv => StreamIsFaithful
  BY DEF IInv, Stream, Consuming, Consumes, StreamIsFaithful
<1>3. IInv => MessagesArrive
  BY <1>1, <1>2 DEF MessagesArrive
<1> QED
  BY <1>3, Invariance, PTL

(* A prompt has one message on its way at any time, wherever it is: what   *)
(* makes the loss of a writer harmless to the order of a stream            *)
(* (handle_prompt awaits each send).                                       *)
THEOREM OneMessageAtATime ==
  Spec => [](\A c \in Conns : Single(c) /\
                (prompt[c].at = "running" /\ future[Pro(c)] \in {"none", "sent"}
                    => ~InFlight(c)))
<1>1. IInv => \A c \in Conns : Single(c) /\
                (prompt[c].at = "running" /\ future[Pro(c)] \in {"none", "sent"}
                    => ~InFlight(c))
  BY DEF IInv, Stream, OneAtATime, Heard
<1> QED
  BY <1>1, Invariance, PTL

=============================================================================
