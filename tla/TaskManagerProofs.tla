-------------------------- MODULE TaskManagerProofs --------------------------
(***************************************************************************)
(* Delegated tasks are sound for every set of tasks and of callers, every  *)
(* number of slots, of tasks retained and of starts.                       *)
(***************************************************************************)
EXTENDS TaskManager, FiniteSetTheorems, TLAPS

-----------------------------------------------------------------------------
(* The inductive invariant *)

Taken == {"starting", "running", "closing", "settling"}
Finishes == {"completing", "failing", "cancelling"}
Over == {"none", "ended"}

(* A caller that has marked a task and not yet announced it.               *)
Cancels(c, t) == call[c].pc \in {"worker", "event"} /\ call[c].task = t

(* Which workers there are, and what they can be asked or hold.            *)
Shape ==
    /\ \A w \in Workers : worker[w] = "none" <=> w[2] > starts[w[1]]
    /\ \A w \in interrupted : worker[w] \notin Over
    /\ \A w \in agents : worker[w] \in Taken \ {"starting"}
    /\ \A t \in Tasks : starts[t] > 0 => creating[t] = "no"
    /\ \A t \in Tasks : state[t] = "absent" => creating[t] = "no" /\ starts[t] = 0

Slots == Cardinality(Holders) <= MaxConcurrent

(* One worker takes a task, which until then is fresh ...                  *)
Fresh == {"absent", "pending"}

Takes ==
    /\ \A w \in Workers : state[w[1]] \in Fresh => worker[w] \in {"none", "acquire"}
    /\ \A v, w \in Workers :
          (v[1] = w[1] /\ worker[v] \in Taken /\ worker[w] \in Taken) => v = w

(* ... and says so once.                                                   *)
Tells ==
    /\ \A t \in Tasks : state[t] \in Fresh =>
          \A i \in DOMAIN published[t] : published[t][i] = "created"
    /\ \A w \in Workers : worker[w] = "starting" =>
          \A i \in DOMAIN published[w[1]] : published[w[1]][i] # "started"
    /\ \A t \in Tasks : \A i, j \in DOMAIN published[t] :
          (published[t][i] = "started" /\ published[t][j] = "started") => i = j

Once == Takes /\ Tells

(* Whoever announces an end has marked it, and what has ended is known to  *)
(* the one who will announce it or to the list of the ended.               *)
Table ==
    /\ \A w \in Workers : worker[w] \in Finishes => IsDone(w[1])
    /\ \A c \in Callers, t \in Tasks : Cancels(c, t) => IsDone(t)
    /\ \A t \in Tasks : state[t] \in {"pending", "running"} => t \in registry
    /\ \A t \in registry : IsDone(t) /\ ~Finishing(t) => t \in ToSet(terminal)
    /\ Len(terminal) <= MaxTerminal

(* The end of a task that was started once: whoever is not told of it will *)
(* find out, and one announces it.                                         *)
Stopped(w) ==
    \/ worker[w] \in Over \cup Finishes \/ w \in interrupted
    \/ worker[w] \in {"closing", "settling"} /\ outcome[w] # "ok"

Announced(t) ==
    \A i \in DOMAIN published[t] : published[t][i] \in DoneStates =>
        /\ i = Len(published[t]) /\ published[t][i] = state[t] /\ creating[t] = "no"
        /\ \A c \in Callers : ~Cancels(c, t)
        /\ \A w \in Workers : w[1] = t => worker[w] \in Over

EndsOnce(t) ==
    /\ IsDone(t) => \A w \in Workers : w[1] = t => Stopped(w)
    /\ \A w \in Workers : (w[1] = t /\ worker[w] \in Finishes) =>
          state[t] = TerminalEvent(w) /\ \A c \in Callers : ~Cancels(c, t)
    /\ \A c \in Callers : Cancels(c, t) =>
          /\ state[t] = "cancelled"
          /\ call[c].pc = "event" => \A w \in Workers : w[1] = t => worker[w] \in Over
          /\ \A d \in Callers : Cancels(d, t) => c = d
    /\ Announced(t)

(* A worker whose sub-agent closes in spite of an interruption reports it. *)
Settles == \A w \in Workers : worker[w] = "settling" => outcome[w] # "ok"

First == \A t \in Tasks : starts[t] <= 1 => EndsOnce(t)

IInv == TypeOK /\ Shape /\ Slots /\ Once /\ Table /\ Settles /\ First

-----------------------------------------------------------------------------
(* Operators of the model *)

(* Two workers of a task are the same start of it.                         *)
LEMMA WorkerParts ==
    /\ \A w \in Workers : w[1] \in Tasks /\ w[2] \in 1 .. MaxStarts /\ w = <<w[1], w[2]>>
    /\ \A t \in Tasks, n \in 1 .. MaxStarts :
          <<t, n>> \in Workers /\ <<t, n>>[1] = t /\ <<t, n>>[2] = n
BY DEF Workers

(* There are finitely many workers.                                        *)
LEMMA WorkersFinite == IsFiniteSet(Workers)
<1>1. IsFiniteSet(Tasks) /\ 1 \in Int /\ MaxStarts \in Int  BY TaskAssumption
<1>2. IsFiniteSet(1 .. MaxStarts)  BY <1>1, FS_Interval
<1> QED  BY <1>1, <1>2, FS_Product DEF Workers

(* _finish_task forgets finished tasks only, and what it forgets is not    *)
(* listed any more.                                                        *)
LEMMA FinishLemma ==
    ASSUME TypeOK, NEW t \in Tasks, Finish(t), IsDone(t), Len(terminal) <= MaxTerminal
    PROVE  /\ registry' \subseteq registry
           /\ terminal' \in Seq(Tasks)
           /\ Len(terminal') <= MaxTerminal
           /\ \A u \in registry : ~IsDone(u) => u \in registry'
           /\ \A u \in registry' : (IsDone(u) /\ (u = t \/ u \in ToSet(terminal))) =>
                  u \in ToSet(terminal')
<1> DEFINE ids == Append(terminal, t)
           excess == IF Len(ids) > MaxTerminal THEN Len(ids) - MaxTerminal ELSE 0
           popped == ToSet(SubSeq(ids, 1, excess))
<1>1. /\ terminal' = SubSeq(ids, excess + 1, Len(ids))
      /\ registry' = {x \in registry : x \notin popped \/ ~IsDone(x)}
  BY DEF Finish
<1>2. /\ ids \in Seq(Tasks) /\ Len(ids) = Len(terminal) + 1 /\ ids[Len(ids)] = t
      /\ \A k \in DOMAIN terminal : k \in 1 .. Len(ids) /\ ids[k] = terminal[k]
  BY DEF TypeOK
<1>3. Len(ids) \in Nat /\ MaxTerminal \in Nat /\ excess \in 0 .. 1 /\ excess <= Len(ids)
          /\ Len(ids) - excess <= MaxTerminal
  BY <1>2, TaskAssumption DEF TypeOK
<1> HIDE DEF ids, excess
<1>4. /\ SubSeq(ids, excess + 1, Len(ids)) \in Seq(Tasks)
      /\ Len(SubSeq(ids, excess + 1, Len(ids))) = Len(ids) - excess
      /\ \A k \in 1 .. Len(ids) - excess : SubSeq(ids, excess + 1, Len(ids))[k] = ids[k + excess]
  BY <1>2, <1>3
<1>5. /\ Len(SubSeq(ids, 1, excess)) = excess
      /\ \A k \in 1 .. excess : SubSeq(ids, 1, excess)[k] = ids[k]
      /\ DOMAIN SubSeq(ids, 1, excess) = 1 .. excess
  BY <1>2, <1>3
<1>6. ASSUME NEW u \in registry', IsDone(u), u = t \/ u \in ToSet(terminal)
      PROVE  u \in ToSet(terminal')
  <2>1. PICK k \in 1 .. Len(ids) : ids[k] = u
    BY <1>6, <1>2, <1>3 DEF ToSet
  <2>2. ~(k <= excess)
    <3>1. u \notin popped  BY <1>1, <1>6
    <3>2. k <= excess => SubSeq(ids, 1, excess)[k] = u /\ k \in DOMAIN SubSeq(ids, 1, excess)
      BY <1>3, <1>5, <2>1
    <3> QED  BY <3>1, <3>2 DEF ToSet
  <2>3. k - excess \in 1 .. Len(ids) - excess /\ (k - excess) + excess = k
    BY <2>1, <2>2, <1>3
  <2>4. terminal'[k - excess] = u /\ k - excess \in DOMAIN terminal'
    BY <1>1, <1>4, <2>1, <2>3
  <2> QED  BY <2>4 DEF ToSet
<1> QED  BY <1>1, <1>3, <1>4, <1>6

(* TypeOK by the parts that an action disturbs. *)
Marks ==
    /\ registry \subseteq Tasks /\ born \in [Tasks -> 0 .. Cardinality(Tasks)]
    /\ state \in [Tasks -> {"absent", "pending", "running"} \cup DoneStates]
    /\ creating \in [Tasks -> {"no", "auto", "manual"}]
    /\ starts \in [Tasks -> 0 .. MaxStarts]
Runs ==
    /\ worker \in [Workers -> {"none", "acquire", "starting", "running", "closing", "settling",
                               "completing", "failing", "cancelling", "ended"}]
    /\ outcome \in [Workers -> {"none", "ok", "error", "cancelled"}]
    /\ interrupted \subseteq Workers /\ agents \subseteq Workers /\ resolved \subseteq Workers
Told == terminal \in Seq(Tasks)
    /\ published \in [Tasks -> Seq({"created", "started"} \cup DoneStates)]
CallRecords ==
    [pc : {"idle", "worker", "event", "wait"}, op : {"none", "cancel", "sweep", "any", "all"},
     task : Tasks \cup {NoTask}, todo : SUBSET Tasks, futures : SUBSET Workers]
Calls ==
    /\ call \in [Callers -> CallRecords]
    /\ \A c \in Callers : call[c].pc \in {"worker", "event"} => call[c].task # NoTask

(* The type invariant is its parts.                                        *)
LEMMA TypeParts ==
    /\ TypeOK <=> Marks /\ Runs /\ Told /\ Calls
    /\ TypeOK' <=> Marks' /\ Runs' /\ Told' /\ Calls'
<1>1. TypeOK <=> Marks /\ Runs /\ Told /\ Calls
  BY DEF TypeOK, Marks, Runs, Told, Calls, CallRecords
<1>2. (TypeOK <=> Marks /\ Runs /\ Told /\ Calls)'
  BY DEF TypeOK, Marks, Runs, Told, Calls, CallRecords
<1> QED  BY <1>1, <1>2

(* A function on an initial interval is a sequence.                        *)
LEMMA IsASeq ==
    ASSUME NEW S, NEW n \in Nat, NEW f, \A i \in 1 .. n : f[i] \in S
    PROVE  [i \in 1 .. n |-> f[i]] \in Seq(S)
BY DEF Seq

(* The last start of a task is one of its workers.                         *)
LEMMA CurrentLemma ==
    ASSUME Marks, NEW t \in Tasks
    PROVE  /\ starts[t] \in Nat /\ starts[t] <= MaxStarts
           /\ starts[t] > 0 =>
                  Current(t) \in Workers /\ Current(t)[1] = t /\ Current(t)[2] = starts[t]
           /\ starts[t] < MaxStarts => <<t, starts[t] + 1>> \in Workers
<1>1. MaxStarts \in Nat  BY TaskAssumption
<1>2. starts[t] \in 0 .. MaxStarts  BY DEF Marks
<1>3. starts[t] > 0 => starts[t] \in 1 .. MaxStarts  BY <1>1, <1>2
<1>4. starts[t] < MaxStarts => starts[t] + 1 \in 1 .. MaxStarts  BY <1>1, <1>2
<1> QED  BY <1>1, <1>2, <1>3, <1>4, WorkerParts DEF Current

(* The futures of tasks are futures of workers.                            *)
LEMMA FuturesTyped ==
    ASSUME Marks, NEW ts \in SUBSET Tasks
    PROVE  Futures(ts) \in SUBSET Workers
BY CurrentLemma DEF Futures

(* An event is put at the end of what was heard of its task.               *)
LEMMA PublishTyped ==
    ASSUME Told, NEW t \in Tasks, NEW event \in {"created", "started"} \cup DoneStates,
           Publish(t, event)
    PROVE  /\ published' \in [Tasks -> Seq({"created", "started"} \cup DoneStates)]
           /\ \A u \in Tasks : u # t => published'[u] = published[u]
           /\ Len(published[t]) \in Nat /\ DOMAIN published[t] = 1 .. Len(published[t])
           /\ DOMAIN published'[t] = 1 .. Len(published[t]) + 1
                  /\ Len(published'[t]) = Len(published[t]) + 1
           /\ published'[t][Len(published[t]) + 1] = event
           /\ \A i \in 1 .. Len(published[t]) : published'[t][i] = published[t][i]
<1>1. published[t] \in Seq({"created", "started"} \cup DoneStates)  BY DEF Told
<1>2. published'[t] = Append(published[t], event) /\ \A u \in Tasks : u # t =>
          published'[u] = published[u]
  BY DEF Publish, Told
<1>3. Append(published[t], event) \in Seq({"created", "started"} \cup DoneStates)  BY <1>1
<1>4. published' \in [Tasks -> Seq({"created", "started"} \cup DoneStates)]
  BY <1>3 DEF Publish, Told
<1> QED  BY <1>1, <1>2, <1>4

(* A call replaced by a call record leaves calls typed.                    *)
LEMMA CallTyped ==
    ASSUME Calls, NEW c \in Callers, NEW r \in CallRecords, r.pc \in {"worker", "event"} =>
               r.task # NoTask,
           call' = [call EXCEPT ![c] = r]
    PROVE  Calls'
BY DEF Calls

(* Waiting and returning are call records.                                 *)
LEMMA WaitingTyped ==
    ASSUME NEW op \in {"any", "all"}, NEW fs \in SUBSET Workers
    PROVE  Waiting(op, fs) \in CallRecords /\ Waiting(op, fs).pc = "wait"
               /\ Idle \in CallRecords /\ Idle.pc = "idle"
BY DEF Waiting, Idle, CallRecords

(* What a canceller holds.                                                 *)
LEMMA CancellerParts ==
    ASSUME Calls, NEW c \in Callers
    PROVE  /\ call[c] \in CallRecords
           /\ call[c].pc \in {"worker", "event"} => call[c].task \in Tasks
           /\ call[c].op \in {"none", "cancel", "sweep", "any", "all"}
                  /\ call[c].todo \in SUBSET Tasks
BY DEF Calls, CallRecords

(* _finish_task keeps the types.                                           *)
LEMMA FinishTyped ==
    ASSUME Marks, Told, Runs, NEW t \in Tasks, Finish(t)
    PROVE  registry' \subseteq Tasks /\ terminal' \in Seq(Tasks) /\ resolved' \subseteq Workers
<1>1. starts[t] > 0 => Current(t) \in Workers  BY CurrentLemma
<1>2. PICK ids \in Seq(Tasks), a \in Nat, b \in Nat :
         a >= 1 /\ b = Len(ids) /\ a <= b + 1 /\ terminal' = SubSeq(ids, a, b)
  <2> DEFINE ids == Append(terminal, t)
             excess == IF Len(ids) > MaxTerminal THEN Len(ids) - MaxTerminal ELSE 0
  <2>1. ids \in Seq(Tasks) /\ Len(ids) \in Nat  BY DEF Told
  <2>2. excess \in Nat /\ excess <= Len(ids)  BY <2>1, TaskAssumption
  <2>3. terminal' = SubSeq(ids, excess + 1, Len(ids))  BY DEF Finish
  <2>4. excess + 1 \in Nat /\ excess + 1 >= 1 /\ excess + 1 <= Len(ids) + 1  BY <2>1, <2>2
  <2> HIDE DEF ids, excess
  <2> QED  BY <2>1, <2>3, <2>4
<1>3. terminal' \in Seq(Tasks)  BY <1>2
<1> QED  BY <1>1, <1>3 DEF Finish, Marks, Runs

(* So does a canceller that goes on.                                       *)
LEMMA CancelTyped ==
    ASSUME Marks, Runs, Calls, NEW c \in Callers,
           NEW op \in {"none", "cancel", "sweep", "any", "all"}, NEW todo \in SUBSET Tasks,
           CancelNext(c, op, todo)
    PROVE  /\ state' \in [Tasks -> {"absent", "pending", "running"} \cup DoneStates]
           /\ interrupted' \subseteq Workers
           /\ Calls'
<1>1. NoTask \notin Tasks  BY TaskAssumption
<1>2. CASE Live(todo) = {} /\ Return(c) /\ UNCHANGED <<state, interrupted>>
  BY <1>2, CallTyped, WaitingTyped DEF Marks, Runs, Return
<1>3. ASSUME NEW t \in Live(todo),
             state' = [state EXCEPT ![t] = "cancelled"],
             interrupted' = IF Awaited(t) THEN interrupted \cup {Current(t)} ELSE interrupted,
             call' = [call EXCEPT ![c] = [Idle EXCEPT !.pc = IF Awaited(t) THEN "worker" ELSE "event",
                                          !.op = op, !.task = t, !.todo = Live(todo) \ {t}]]
      PROVE  /\ state' \in [Tasks -> {"absent", "pending", "running"} \cup DoneStates]
             /\ interrupted' \subseteq Workers
             /\ Calls'
  <2>1. t \in Tasks /\ Live(todo) \subseteq Tasks  BY DEF Live
  <2>2. Awaited(t) => Current(t) \in Workers  BY <2>1, CurrentLemma DEF Awaited
  <2> DEFINE r == [Idle EXCEPT !.pc = IF Awaited(t) THEN "worker" ELSE "event",
                               !.op = op, !.task = t, !.todo = Live(todo) \ {t}]
  <2>3. r \in CallRecords /\ r.task # NoTask  BY <1>1, <2>1 DEF Idle, CallRecords
  <2>4. Calls'  BY <1>3, <2>3, CallTyped
  <2> QED  BY <1>3, <2>1, <2>2, <2>4 DEF Marks, Runs, DoneStates
<1> QED  BY <1>2, <1>3 DEF CancelNext

(* The initial state is well typed.                                        *)
LEMMA InitTyped == Init => TypeOK
<1>1. Cardinality(Tasks) \in Nat  BY TaskAssumption, FS_CardinalityType
<1> QED  BY <1>1, TaskAssumption DEF Init, TypeOK, Idle

(* Every step keeps the types.                                             *)
LEMMA StepTyped ==
    ASSUME TypeOK, [Next]_vars
    PROVE  TypeOK'
<1> USE TaskAssumption
<1>0. Marks /\ Runs /\ Told /\ Calls  BY TypeParts
<1>1. ASSUME NEW t \in Tasks, CreateTask(t)  PROVE  TypeOK'
  <2>1. Marks'
    <3>1. Cardinality({u \in Tasks : state[u] # "absent"}) + 1 \in 0 .. Cardinality(Tasks)
      <4>1. IsFiniteSet(Tasks) /\ {u \in Tasks : state[u] # "absent"} \in SUBSET (Tasks \ {t})
        BY <1>1, <1>0 DEF CreateTask
      <4>2. IsFiniteSet(Tasks \ {t}) /\ Cardinality(Tasks \ {t}) = Cardinality(Tasks) - 1
                /\ Cardinality(Tasks) \in Nat
        BY <4>1, FS_RemoveElement, FS_CardinalityType
      <4> QED
        BY <4>1, <4>2, FS_Subset, FS_CardinalityType
    <3> QED  BY <1>1, <1>0, <3>1 DEF CreateTask, Marks
  <2>2. Runs'
    BY <1>1, <1>0, WorkerParts DEF CreateTask, Runs, Marks, Launch, Fail, Goto, At, managed,
       running
  <2>3. Told' /\ Calls'
    BY <1>1, <1>0 DEF CreateTask, Told, Calls, managed, running
  <2> QED  BY <2>1, <2>2, <2>3, TypeParts
<1>2. ASSUME NEW t \in Tasks, StartTask(t)  PROVE  TypeOK'
  <2>1. Marks'
    BY <1>2, <1>0, WorkerParts DEF StartTask, Marks, Startable, Launch, Fail, Goto, IsDone,
       DoneStates, managed, running
  <2>2. Runs'
    <3>1. Startable(t) => <<t, starts[t] + 1>> \in Workers  BY <1>0, CurrentLemma DEF Startable
    <3> QED  BY <1>2, <1>0, <3>1 DEF StartTask, Runs, Marks, Launch
  <2>3. Told' /\ Calls'
    BY <1>2, <1>0 DEF StartTask, Told, Calls, managed, running
  <2> QED  BY <2>1, <2>2, <2>3, TypeParts
<1>3. ASSUME NEW t \in Tasks, CreatedPublished(t)  PROVE  TypeOK'
  <2>1. Marks'
    BY <1>3, <1>0, WorkerParts DEF CreatedPublished, Marks, Startable, Launch, Fail, Goto,
       IsDone, DoneStates, managed, running
  <2>2. Runs'
    <3>1. Startable(t) => <<t, starts[t] + 1>> \in Workers  BY <1>0, CurrentLemma DEF Startable
    <3> QED  BY <1>3, <1>0, <3>1 DEF CreatedPublished, Runs, Marks, Launch
  <2>3. Told'
    BY <1>3, <1>0, WorkerParts DEF CreatedPublished, Told, Marks, Publish, TerminalEvent,
       DoneStates, managed, running
  <2>4. Calls'
    BY <1>3, <1>0 DEF CreatedPublished, Calls, managed, running
  <2> QED  BY <2>1, <2>2, <2>3, <2>4, TypeParts
<1>4. ASSUME NEW t \in Tasks, CreatorInterrupted(t)  PROVE  TypeOK'
  <2>1. Marks'
    BY <1>4, <1>0, WorkerParts DEF CreatorInterrupted, Marks, Startable, Launch, Fail, Goto,
       IsDone, DoneStates, managed, running
  <2>2. Told'
    <3>1. CASE UNCHANGED published  BY <1>4, <1>0, <3>1 DEF CreatorInterrupted, Told
    <3>2. CASE Publish(t, "created")
      BY <1>4, <1>0, <3>2, PublishTyped DEF CreatorInterrupted, Told
    <3> QED  BY <1>4, <1>0, <3>1, <3>2 DEF CreatorInterrupted
  <2>3. Runs' /\ Calls'
    BY <1>4, <1>0 DEF CreatorInterrupted, Runs, Calls, managed, running
  <2> QED  BY <2>1, <2>2, <2>3, TypeParts
<1>5. ASSUME NEW w \in Workers, Acquire(w)  PROVE  TypeOK'
  <2>1. Marks'
    BY <1>5, <1>0, WorkerParts DEF Acquire, Marks, Startable, Launch, Fail, Goto, IsDone,
       DoneStates, managed, running
  <2>2. Runs'
    BY <1>5, <1>0, WorkerParts DEF Acquire, Runs, Marks, Launch, Fail, Goto, At, managed,
       running
  <2>3. Told' /\ Calls'
    BY <1>5, <1>0 DEF Acquire, Told, Calls, managed, running
  <2> QED  BY <2>1, <2>2, <2>3, TypeParts
<1>6. ASSUME NEW w \in Workers, StartedPublished(w)  PROVE  TypeOK'
  <2>1. Marks'
    BY <1>6, <1>0, WorkerParts DEF StartedPublished, Marks, Startable, Launch, Fail, Goto,
       IsDone, DoneStates, managed, running
  <2>2. Runs'
    BY <1>6, <1>0, WorkerParts DEF StartedPublished, Runs, Marks, Launch, Fail, Goto, At,
       managed, running
  <2>3. Told'
    BY <1>6, <1>0, WorkerParts DEF StartedPublished, Told, Marks, Publish, TerminalEvent,
       DoneStates, managed, running
  <2>4. Calls'
    BY <1>6, <1>0 DEF StartedPublished, Calls, managed, running
  <2> QED  BY <2>1, <2>2, <2>3, <2>4, TypeParts
<1>7. ASSUME NEW w \in Workers, RunReturns(w)  PROVE  TypeOK'
  <2>1. Runs'
    BY <1>7, <1>0, WorkerParts DEF RunReturns, Runs, Marks, Launch, Fail, Goto, At, managed,
       running
  <2>2. Marks' /\ Told' /\ Calls'
    BY <1>7, <1>0 DEF RunReturns, Marks, Told, Calls, managed, running
  <2> QED  BY <2>1, <2>2, TypeParts
<1>8. ASSUME NEW w \in Workers, AgentClosed(w)  PROVE  TypeOK'
  <2>1. Runs'
    BY <1>8, <1>0, WorkerParts DEF AgentClosed, Runs, Marks, Launch, Fail, Goto, At, managed,
       running
  <2>2. Marks' /\ Told' /\ Calls'
    BY <1>8, <1>0 DEF AgentClosed, Marks, Told, Calls, managed, running
  <2> QED  BY <2>1, <2>2, TypeParts
<1>9. ASSUME NEW w \in Workers, CloseInterrupted(w)  PROVE  TypeOK'
  <2>1. Runs'
    BY <1>9, <1>0, WorkerParts DEF CloseInterrupted, Runs, Marks, Launch, Fail, Goto, At,
       managed, running
  <2>2. Marks' /\ Told' /\ Calls'
    BY <1>9, <1>0 DEF CloseInterrupted, Marks, Told, Calls, managed, running
  <2> QED  BY <2>1, <2>2, TypeParts
<1>10. ASSUME NEW w \in Workers, Settled(w)  PROVE  TypeOK'
  <2>1. Marks'
    BY <1>10, <1>0, WorkerParts DEF Settled, Marks, Startable, Launch, Fail, Goto, IsDone,
       DoneStates, managed, running
  <2>2. Runs'
    BY <1>10, <1>0, WorkerParts DEF Settled, Runs, Marks, Launch, Fail, Goto, At, managed,
       running
  <2>3. Told' /\ Calls'
    BY <1>10, <1>0 DEF Settled, Told, Calls, managed, running
  <2> QED  BY <2>1, <2>2, <2>3, TypeParts
<1>11. ASSUME NEW w \in Workers, TerminalPublished(w)  PROVE  TypeOK'
  <2>1. Marks'
    <3>1. w[1] \in Tasks  BY WorkerParts
    <3> QED
      BY <1>11, <1>0, <3>1, FinishTyped DEF TerminalPublished, Marks, Runs, Told, Publish,
         TerminalEvent, Goto, DoneStates
  <2>2. Runs'
    <3>1. w[1] \in Tasks  BY WorkerParts
    <3> QED
      BY <1>11, <1>0, <3>1, FinishTyped DEF TerminalPublished, Marks, Runs, Told, Publish,
         TerminalEvent, Goto, DoneStates
  <2>3. Told'
    <3>1. w[1] \in Tasks /\ terminal' \in Seq(Tasks)
      BY <1>11, <1>0, WorkerParts, FinishTyped DEF TerminalPublished
    <3>2. TerminalEvent(w) \in DoneStates  BY DEF TerminalEvent, DoneStates
    <3>3. CASE UNCHANGED published  BY <1>11, <1>0, <3>1, <3>3 DEF Told
    <3>4. CASE Publish(w[1], TerminalEvent(w))
      BY <1>11, <1>0, <3>1, <3>2, <3>4, PublishTyped DEF Told
    <3> QED  BY <1>11, <1>0, <3>3, <3>4 DEF TerminalPublished
  <2>4. Calls'
    BY <1>11, <1>0 DEF TerminalPublished, Calls, managed, running
  <2> QED  BY <2>1, <2>2, <2>3, <2>4, TypeParts
<1>12. ASSUME NEW w \in Workers, WorkerInterrupted(w)  PROVE  TypeOK'
  <2>1. Marks'
    BY <1>12, <1>0, WorkerParts DEF WorkerInterrupted, Marks, Startable, Launch, Fail, Goto,
       IsDone, DoneStates, managed, running
  <2>2. Runs'
    BY <1>12, <1>0, WorkerParts DEF WorkerInterrupted, Runs, Marks, Launch, Fail, Goto, At,
       managed, running
  <2>3. Told'
    <3>1. CASE UNCHANGED published  BY <1>12, <1>0, <3>1 DEF WorkerInterrupted, Told
    <3>2. CASE Publish(w[1], "started")
      BY <1>12, <1>0, <3>2, PublishTyped, WorkerParts DEF WorkerInterrupted, Told
    <3> QED  BY <1>12, <1>0, <3>1, <3>2 DEF WorkerInterrupted
  <2>4. Calls'
    BY <1>12, <1>0 DEF WorkerInterrupted, Calls, managed, running
  <2> QED  BY <2>1, <2>2, <2>3, <2>4, TypeParts
<1>13. ASSUME NEW c \in Callers, CancelTask(c)  PROVE  TypeOK'
  <2>1. Marks'
    BY <1>13, <1>0, CancelTyped DEF CancelTask, TypeOK, Marks, Runs, Calls
  <2>2. Runs'
    <3>1. PICK t \in registry : CancelNext(c, "cancel", {t})  BY <1>13 DEF CancelTask
    <3>2. {t} \in SUBSET Tasks  BY <1>0 DEF Marks
    <3>3. interrupted' \subseteq Workers  BY <1>0, <3>1, <3>2, CancelTyped
    <3> QED  BY <1>13, <1>0, <3>3 DEF CancelTask, Runs
  <2>3. Calls'
    BY <1>13, <1>0, CancelTyped DEF CancelTask, TypeOK, Marks, Runs, Calls
  <2>4. Told'
    BY <1>13, <1>0 DEF CancelTask, Told, managed, running
  <2> QED  BY <2>1, <2>2, <2>3, <2>4, TypeParts
<1>14. ASSUME NEW c \in Callers, CancelForSession(c)  PROVE  TypeOK'
  <2>1. Marks'
    BY <1>14, <1>0, CancelTyped DEF CancelForSession, TypeOK, Marks, Runs, Calls
  <2>2. Runs'
    BY <1>14, <1>0, CancelTyped DEF CancelForSession, TypeOK, Marks, Runs, Calls
  <2>3. Calls'
    BY <1>14, <1>0, CancelTyped DEF CancelForSession, TypeOK, Marks, Runs, Calls
  <2>4. Told'
    BY <1>14, <1>0 DEF CancelForSession, Told, managed, running
  <2> QED  BY <2>1, <2>2, <2>3, <2>4, TypeParts
<1>15. ASSUME NEW c \in Callers, WaitForTask(c)  PROVE  TypeOK'
  <2>1. Calls'
    <3>1. \A u \in registry : starts[u] > 0 => Current(u) \in Workers
      BY <1>15, <1>0, CurrentLemma DEF Marks
    <3>2. PICK u \in registry : starts[u] > 0
                   /\ call' = [call EXCEPT ![c] = Waiting("any", {Current(u)})]
      BY <1>15 DEF WaitForTask
    <3>3. {Current(u)} \in SUBSET Workers  BY <3>1, <3>2
    <3> QED  BY <1>0, <3>2, <3>3, CallTyped, WaitingTyped
  <2>2. Marks' /\ Runs' /\ Told'
    BY <1>15, <1>0 DEF WaitForTask, Marks, Runs, Told, managed, running
  <2> QED  BY <2>1, <2>2, TypeParts
<1>16. ASSUME NEW c \in Callers, WaitForAny(c)  PROVE  TypeOK'
  <2>1. Calls'
    <3>1. \A ts \in SUBSET registry : Futures(ts) \in SUBSET Workers
      BY <1>16, <1>0, FuturesTyped DEF Marks
    <3>2. PICK ts \in SUBSET registry : call' = [call EXCEPT ![c] = Waiting("any", Futures(ts))]
      BY <1>16 DEF WaitForAny
    <3> QED  BY <1>0, <3>1, <3>2, CallTyped, WaitingTyped
  <2>2. Marks' /\ Runs' /\ Told'
    BY <1>16, <1>0 DEF WaitForAny, Marks, Runs, Told, managed, running
  <2> QED  BY <2>1, <2>2, TypeParts
<1>17. ASSUME NEW c \in Callers, WaitForAll(c)  PROVE  TypeOK'
  <2>1. Calls'
    <3>1. \A ts \in SUBSET registry : Futures(ts) \in SUBSET Workers
      BY <1>17, <1>0, FuturesTyped DEF Marks
    <3>2. PICK ts \in SUBSET registry : call' = [call EXCEPT ![c] = Waiting("all", Futures(ts))]
      BY <1>17 DEF WaitForAll
    <3> QED  BY <1>0, <3>1, <3>2, CallTyped, WaitingTyped
  <2>2. Marks' /\ Runs' /\ Told'
    BY <1>17, <1>0 DEF WaitForAll, Marks, Runs, Told, managed, running
  <2> QED  BY <2>1, <2>2, TypeParts
<1>18. ASSUME NEW c \in Callers, WorkerAwaited(c)  PROVE  TypeOK'
  <2>1. Calls'
    BY <1>18, <1>0 DEF WorkerAwaited, Calls, CallRecords
  <2>2. Marks' /\ Runs' /\ Told'
    BY <1>18, <1>0 DEF WorkerAwaited, Marks, Runs, Told, managed, running
  <2> QED  BY <2>1, <2>2, TypeParts
<1>19. ASSUME NEW c \in Callers, CancelPublished(c)  PROVE  TypeOK'
  <2>1. Marks'
    <3>1. call[c].task \in Tasks /\ call[c].op \in {"none", "cancel", "sweep", "any", "all"}
              /\ call[c].todo \in SUBSET Tasks
      BY <1>19, <1>0, CancellerParts DEF CancelPublished
    <3> QED
      BY <1>19, <1>0, <3>1, FinishTyped, CancelTyped DEF CancelPublished, Marks, Runs, Calls
  <2>2. Runs'
    <3>1. call[c].task \in Tasks /\ call[c].op \in {"none", "cancel", "sweep", "any", "all"}
              /\ call[c].todo \in SUBSET Tasks
      BY <1>19, <1>0, CancellerParts DEF CancelPublished
    <3> QED
      BY <1>19, <1>0, <3>1, FinishTyped, CancelTyped DEF CancelPublished, Marks, Runs, Calls
  <2>3. Told'
    <3>1. call[c].task \in Tasks  BY <1>19, <1>0, CancellerParts DEF CancelPublished
    <3> QED  BY <1>19, <1>0, <3>1, FinishTyped DEF CancelPublished, Told, Publish, DoneStates
  <2>4. Calls'
    <3>1. call[c].task \in Tasks /\ call[c].op \in {"none", "cancel", "sweep", "any", "all"}
              /\ call[c].todo \in SUBSET Tasks
      BY <1>19, <1>0, CancellerParts DEF CancelPublished
    <3> QED
      BY <1>19, <1>0, <3>1, FinishTyped, CancelTyped DEF CancelPublished, Marks, Runs, Calls
  <2> QED  BY <2>1, <2>2, <2>3, <2>4, TypeParts
<1>20. ASSUME NEW c \in Callers, WaitReturns(c)  PROVE  TypeOK'
  <2>1. Calls'
    BY <1>20, <1>0, CallTyped, WaitingTyped DEF WaitReturns, Return
  <2>2. Marks' /\ Runs' /\ Told'
    BY <1>20, <1>0 DEF WaitReturns, Marks, Runs, Told, managed, running
  <2> QED  BY <2>1, <2>2, TypeParts
<1>21. ASSUME NEW c \in Callers, CancellerInterrupted(c)  PROVE  TypeOK'
  <2>1. Marks'
    <3>1. call[c].task \in Tasks  BY <1>21, <1>0, CancellerParts DEF CancellerInterrupted
    <3>2. starts[call[c].task] > 0 => Current(call[c].task) \in Workers
      BY <1>21, <1>0, <3>1, CurrentLemma
    <3> QED
      BY <1>21, <1>0, <3>1, <3>2, FinishTyped DEF CancellerInterrupted, Marks, Runs, Awaited,
         managed, running
  <2>2. Runs'
    <3>1. call[c].task \in Tasks  BY <1>21, <1>0, CancellerParts DEF CancellerInterrupted
    <3>2. starts[call[c].task] > 0 => Current(call[c].task) \in Workers
      BY <1>21, <1>0, <3>1, CurrentLemma
    <3> QED
      BY <1>21, <1>0, <3>1, <3>2, FinishTyped DEF CancellerInterrupted, Marks, Runs, Awaited,
         managed, running
  <2>3. Told'
    <3>1. CASE UNCHANGED <<terminal, published>>  BY <1>21, <1>0, <3>1 DEF Told
    <3>2. CASE call[c].pc = "event" /\ Finish(call[c].task)
      <4>1. call[c].task \in Tasks /\ "cancelled" \in DoneStates
        BY <1>0, <3>2, CancellerParts DEF DoneStates
      <4>2. terminal' \in Seq(Tasks)  BY <1>21, <1>0, <3>2, <4>1, FinishTyped
      <4>3. CASE UNCHANGED published  BY <1>21, <1>0, <4>2, <4>3 DEF Told
      <4>4. CASE Publish(call[c].task, "cancelled")
        BY <1>21, <1>0, <4>1, <4>2, <4>4, PublishTyped DEF Told
      <4> QED  BY <1>21, <1>0, <3>2, <4>3, <4>4 DEF CancellerInterrupted
    <3> QED  BY <1>21, <1>0, <3>1, <3>2 DEF CancellerInterrupted
  <2>4. Calls'
    BY <1>21, <1>0, CallTyped, WaitingTyped DEF CancellerInterrupted, Return, Calls
  <2> QED  BY <2>1, <2>2, <2>3, <2>4, TypeParts
<1>22. ASSUME NEW c \in Callers, WaitAbandoned(c)  PROVE  TypeOK'
  <2>1. Calls'
    BY <1>22, <1>0, CallTyped, WaitingTyped DEF WaitAbandoned, Return
  <2>2. Marks' /\ Runs' /\ Told'
    BY <1>22, <1>0 DEF WaitAbandoned, Marks, Runs, Told, managed, running
  <2> QED  BY <2>1, <2>2, TypeParts
<1>23. ASSUME CleanupCompleted  PROVE  TypeOK'
  <2>1. Marks'
    BY <1>23, <1>0, WorkerParts DEF CleanupCompleted, Marks, Startable, Launch, Fail, Goto,
       IsDone, DoneStates, managed, running
  <2>2. Told'
    <3>0. PICK n \in 0 .. Len(terminal) : \E at \in [1 .. n -> DOMAIN terminal] :
                   terminal' = [i \in 1 .. n |-> terminal[at[i]]]
      BY <1>23, <1>0 DEF CleanupCompleted
    <3>1. PICK at \in [1 .. n -> DOMAIN terminal] : terminal' = [i \in 1 .. n |-> terminal[at[i]]]
      BY <3>0
    <3>2. \A i \in 1 .. n : terminal[at[i]] \in Tasks  BY <1>0, <3>1 DEF Told
    <3>3. n \in Nat  BY <1>0, <3>0 DEF Told
    <3> DEFINE f == [i \in 1 .. n |-> terminal[at[i]]]
    <3>5. \A i \in 1 .. n : f[i] \in Tasks  BY <3>2
    <3>6. f \in Seq(Tasks)
      <4> HIDE DEF f
      <4>1. [i \in 1 .. n |-> f[i]] \in Seq(Tasks)  BY <3>3, <3>5, IsASeq
      <4>2. f = [i \in 1 .. n |-> f[i]]  BY DEF f
      <4> QED  BY <4>1, <4>2
    <3>4. terminal' \in Seq(Tasks)  BY <3>1, <3>6
    <3> QED  BY <1>23, <1>0, <3>4 DEF CleanupCompleted, Told
  <2>3. Runs' /\ Calls'
    BY <1>23, <1>0 DEF CleanupCompleted, Runs, Calls, managed, running
  <2> QED  BY <2>1, <2>2, <2>3, TypeParts
<1>24. ASSUME LoopShutdown  PROVE  TypeOK'
  <2>1. Runs'
    BY <1>24, <1>0, WorkerParts DEF LoopShutdown, Runs, Marks, Launch, Fail, Goto, At, managed,
       running
  <2>2. Marks' /\ Told' /\ Calls'
    BY <1>24, <1>0 DEF LoopShutdown, Marks, Told, Calls, managed, running
  <2> QED  BY <2>1, <2>2, TypeParts
<1>25. ASSUME UNCHANGED vars  PROVE  TypeOK'
  BY <1>25, <1>0 DEF vars, TypeOK
<1> QED
  BY <1>1, <1>2, <1>3, <1>4, <1>5, <1>6, <1>7, <1>8, <1>9, <1>10, <1>11, <1>12, <1>13, <1>14,
     <1>15, <1>16, <1>17, <1>18, <1>19, <1>20, <1>21, <1>22, <1>23, <1>24, <1>25 DEF Next,
     WorkerAdvances, CallerCalls, CallerAdvances, CallerLeaves

-----------------------------------------------------------------------------
(* The shape of the workers *)

(* The worker a canceller awaits is alive.                                 *)
LEMMA AwaitedWorker ==
    ASSUME Marks, Shape, NEW t \in Tasks, Awaited(t)
    PROVE  Current(t) \in Workers /\ Current(t)[1] = t /\ worker[Current(t)] \notin Over
<1>1. /\ Current(t) \in Workers /\ Current(t)[1] = t /\ Current(t)[2] = starts[t]
             /\ starts[t] \in Nat
      /\ worker[Current(t)] # "ended"
  BY CurrentLemma DEF Awaited
<1>2. worker[Current(t)] # "none"  BY <1>1 DEF Shape
<1> QED  BY <1>1, <1>2 DEF Over

(* At first there is no worker.                                            *)
LEMMA InitShape == Init => Shape
<1>1. \A w \in Workers : w[1] \in Tasks /\ w[2] > 0  BY WorkerParts, TaskAssumption
<1> QED  BY <1>1 DEF Init, Shape

(* Every step keeps the shape of the workers.                              *)
LEMMA StepShape ==
    ASSUME TypeOK, Shape, [Next]_vars
    PROVE  Shape'
<1>0. Marks /\ Runs /\ Told /\ Calls /\ Shape  BY TypeParts
<1>1. ASSUME NEW t \in Tasks, CreateTask(t)  PROVE  Shape'
  BY <1>1, <1>0, WorkerParts DEF CreateTask, Shape, Over, Taken, Marks, Runs, Launch, Startable,
     running
<1>2. ASSUME NEW t \in Tasks, StartTask(t)  PROVE  Shape'
  <2>1. CASE Launch(t) /\ Startable(t)
    <3> DEFINE v == <<t, starts[t] + 1>>
    <3>1. v \in Workers /\ v[1] = t /\ v[2] = starts[t] + 1
      BY <1>0, <2>1, CurrentLemma DEF Startable
    <3>2. worker' = [worker EXCEPT ![v] = "acquire"]
              /\ starts' = [starts EXCEPT ![t] = starts[t] + 1]
      BY <2>1 DEF Launch
    <3>3. starts[t] \in Nat /\ worker[v] = "none"  BY <1>0, <3>1, CurrentLemma DEF Shape
    <3>4. \A w \in Workers : w[1] = t /\ w[2] = starts[t] + 1 => w = v  BY WorkerParts
    <3>5. \A w \in Workers : worker'[w] = "none" <=> w[2] > starts'[w[1]]
      <4> SUFFICES ASSUME NEW w \in Workers  PROVE  worker'[w] = "none" <=> w[2] > starts'[w[1]]
        OBVIOUS
      <4>1. CASE w = v  BY <4>1, <1>0, <3>1, <3>2, <3>3 DEF Marks, Runs
      <4>2. CASE w # v /\ w[1] = t
        <5>1. worker'[w] = worker[w] /\ starts'[t] = starts[t] + 1
          BY <4>2, <1>0, <3>2 DEF Marks, Runs
        <5>2. w[2] # starts[t] + 1 /\ w[2] \in Nat  BY <4>2, <3>4, WorkerParts
        <5> QED  BY <4>2, <1>0, <3>3, <5>1, <5>2 DEF Shape
      <4>3. CASE w # v /\ w[1] # t  BY <4>3, <1>0, <3>2, WorkerParts DEF Marks, Runs, Shape
      <4> QED  BY <4>1, <4>2, <4>3
    <3>6. creating'[t] = "no" /\ state' = state /\ interrupted' = interrupted
              /\ agents' = agents /\ \A u \in Tasks : u # t => creating'[u] = creating[u]
      BY <1>2, <1>0 DEF StartTask, Marks, running
    <3>7. \A w \in interrupted' : worker'[w] \notin Over
      BY <1>0, <3>2, <3>3, <3>6 DEF Shape, Over, Runs
    <3>8. \A w \in agents' : worker'[w] \in Taken \ {"starting"}
      BY <1>0, <3>2, <3>3, <3>6 DEF Shape, Taken, Runs
    <3>9. /\ \A u \in Tasks : starts'[u] > 0 => creating'[u] = "no"
          /\ \A u \in Tasks : state'[u] = "absent" => creating'[u] = "no" /\ starts'[u] = 0
      BY <1>0, <2>1, <3>2, <3>6 DEF Shape, Startable, Marks
    <3> QED  BY <3>5, <3>7, <3>8, <3>9 DEF Shape
  <2>2. CASE UNCHANGED <<starts, worker>>
    BY <1>2, <2>2, <1>0 DEF StartTask, Shape, Marks, Launch, running
  <2> QED  BY <1>2, <2>1, <2>2 DEF StartTask
<1>3. ASSUME NEW t \in Tasks, CreatedPublished(t)  PROVE  Shape'
  <2>1. CASE Launch(t) /\ Startable(t)
    <3> DEFINE v == <<t, starts[t] + 1>>
    <3>1. v \in Workers /\ v[1] = t /\ v[2] = starts[t] + 1
      BY <1>0, <2>1, CurrentLemma DEF Startable
    <3>2. worker' = [worker EXCEPT ![v] = "acquire"]
              /\ starts' = [starts EXCEPT ![t] = starts[t] + 1]
      BY <2>1 DEF Launch
    <3>3. starts[t] \in Nat /\ worker[v] = "none"  BY <1>0, <3>1, CurrentLemma DEF Shape
    <3>4. \A w \in Workers : w[1] = t /\ w[2] = starts[t] + 1 => w = v  BY WorkerParts
    <3>5. \A w \in Workers : worker'[w] = "none" <=> w[2] > starts'[w[1]]
      <4> SUFFICES ASSUME NEW w \in Workers  PROVE  worker'[w] = "none" <=> w[2] > starts'[w[1]]
        OBVIOUS
      <4>1. CASE w = v  BY <4>1, <1>0, <3>1, <3>2, <3>3 DEF Marks, Runs
      <4>2. CASE w # v /\ w[1] = t
        <5>1. worker'[w] = worker[w] /\ starts'[t] = starts[t] + 1
          BY <4>2, <1>0, <3>2 DEF Marks, Runs
        <5>2. w[2] # starts[t] + 1 /\ w[2] \in Nat  BY <4>2, <3>4, WorkerParts
        <5> QED  BY <4>2, <1>0, <3>3, <5>1, <5>2 DEF Shape
      <4>3. CASE w # v /\ w[1] # t  BY <4>3, <1>0, <3>2, WorkerParts DEF Marks, Runs, Shape
      <4> QED  BY <4>1, <4>2, <4>3
    <3>6. creating'[t] = "no" /\ state' = state /\ interrupted' = interrupted
              /\ agents' = agents /\ \A u \in Tasks : u # t => creating'[u] = creating[u]
      BY <1>3, <1>0 DEF CreatedPublished, Marks, running
    <3>7. \A w \in interrupted' : worker'[w] \notin Over
      BY <1>0, <3>2, <3>3, <3>6 DEF Shape, Over, Runs
    <3>8. \A w \in agents' : worker'[w] \in Taken \ {"starting"}
      BY <1>0, <3>2, <3>3, <3>6 DEF Shape, Taken, Runs
    <3>9. /\ \A u \in Tasks : starts'[u] > 0 => creating'[u] = "no"
          /\ \A u \in Tasks : state'[u] = "absent" => creating'[u] = "no" /\ starts'[u] = 0
      BY <1>0, <2>1, <3>2, <3>6 DEF Shape, Startable, Marks
    <3> QED  BY <3>5, <3>7, <3>8, <3>9 DEF Shape
  <2>2. CASE UNCHANGED <<starts, worker>>
    BY <1>3, <2>2, <1>0 DEF CreatedPublished, Shape, Marks, Launch, running
  <2> QED  BY <1>3, <2>1, <2>2 DEF CreatedPublished
<1>4. ASSUME NEW t \in Tasks, CreatorInterrupted(t)  PROVE  Shape'
  BY <1>4, <1>0, WorkerParts DEF CreatorInterrupted, Shape, Over, Taken, Marks, Runs, Launch,
     Startable, running
<1>5. ASSUME NEW w \in Workers, Acquire(w)  PROVE  Shape'
  BY <1>5, <1>0, WorkerParts DEF Acquire, Shape, Over, Taken, Marks, Runs, managed, At, Goto,
     Fail, IsDone, DoneStates
<1>6. ASSUME NEW w \in Workers, StartedPublished(w)  PROVE  Shape'
  BY <1>6, <1>0, WorkerParts DEF StartedPublished, Shape, Over, Taken, Marks, Runs, managed, At,
     Goto, Fail, IsDone, DoneStates
<1>7. ASSUME NEW w \in Workers, RunReturns(w)  PROVE  Shape'
  BY <1>7, <1>0, WorkerParts DEF RunReturns, Shape, Over, Taken, Marks, Runs, managed, At, Goto,
     Fail, IsDone, DoneStates
<1>8. ASSUME NEW w \in Workers, AgentClosed(w)  PROVE  Shape'
  BY <1>8, <1>0, WorkerParts DEF AgentClosed, Shape, Over, Taken, Marks, Runs, managed, At,
     Goto, Fail, IsDone, DoneStates
<1>9. ASSUME NEW w \in Workers, CloseInterrupted(w)  PROVE  Shape'
  BY <1>9, <1>0, WorkerParts DEF CloseInterrupted, Shape, Over, Taken, Marks, Runs, managed, At,
     Goto, Fail, IsDone, DoneStates
<1>10. ASSUME NEW w \in Workers, Settled(w)  PROVE  Shape'
  BY <1>10, <1>0, WorkerParts DEF Settled, Shape, Over, Taken, Marks, Runs, managed, At, Goto,
     Fail, IsDone, DoneStates
<1>11. ASSUME NEW w \in Workers, TerminalPublished(w)  PROVE  Shape'
  BY <1>11, <1>0, WorkerParts DEF TerminalPublished, Shape, Over, Taken, Marks, Runs, managed,
     At, Goto, Fail, IsDone, DoneStates
<1>12. ASSUME NEW w \in Workers, WorkerInterrupted(w)  PROVE  Shape'
  BY <1>12, <1>0, WorkerParts DEF WorkerInterrupted, Shape, Over, Taken, Marks, Runs, managed,
     At, Goto, Fail, IsDone, DoneStates
<1>13. ASSUME NEW c \in Callers, CancelTask(c)  PROVE  Shape'
  <2>1. CASE UNCHANGED <<state, interrupted>>  BY <1>13, <2>1, <1>0 DEF CancelTask, Shape
  <2>2. ASSUME NEW t \in Tasks, state' = [state EXCEPT ![t] = "cancelled"],
               interrupted' = IF Awaited(t) THEN interrupted \cup {Current(t)} ELSE interrupted
        PROVE  Shape'
    <3>1. UNCHANGED <<worker, agents, starts, creating>>  BY <1>13 DEF CancelTask
    <3>2. Awaited(t) => Current(t) \in Workers /\ worker[Current(t)] \notin Over
      BY <1>0, AwaitedWorker
    <3> QED  BY <1>0, <2>2, <3>1, <3>2 DEF Shape, Marks
  <2> QED  BY <1>13, <1>0, <2>1, <2>2, CancellerParts DEF CancelTask, CancelNext, Live, Marks
<1>14. ASSUME NEW c \in Callers, CancelForSession(c)  PROVE  Shape'
  <2>1. CASE UNCHANGED <<state, interrupted>>  BY <1>14, <2>1, <1>0 DEF CancelForSession, Shape
  <2>2. ASSUME NEW t \in Tasks, state' = [state EXCEPT ![t] = "cancelled"],
               interrupted' = IF Awaited(t) THEN interrupted \cup {Current(t)} ELSE interrupted
        PROVE  Shape'
    <3>1. UNCHANGED <<worker, agents, starts, creating>>  BY <1>14 DEF CancelForSession
    <3>2. Awaited(t) => Current(t) \in Workers /\ worker[Current(t)] \notin Over
      BY <1>0, AwaitedWorker
    <3> QED  BY <1>0, <2>2, <3>1, <3>2 DEF Shape, Marks
  <2> QED
    BY <1>14, <1>0, <2>1, <2>2, CancellerParts DEF CancelForSession, CancelNext, Live, Marks
<1>15. ASSUME NEW c \in Callers, WaitForTask(c)  PROVE  Shape'
  BY <1>15, <1>0 DEF WaitForTask, Shape, managed, running
<1>16. ASSUME NEW c \in Callers, WaitForAny(c)  PROVE  Shape'
  BY <1>16, <1>0 DEF WaitForAny, Shape, managed, running
<1>17. ASSUME NEW c \in Callers, WaitForAll(c)  PROVE  Shape'
  BY <1>17, <1>0 DEF WaitForAll, Shape, managed, running
<1>18. ASSUME NEW c \in Callers, WorkerAwaited(c)  PROVE  Shape'
  BY <1>18, <1>0 DEF WorkerAwaited, Shape, managed, running
<1>19. ASSUME NEW c \in Callers, CancelPublished(c)  PROVE  Shape'
  <2>1. CASE UNCHANGED <<state, interrupted>>  BY <1>19, <2>1, <1>0 DEF CancelPublished, Shape
  <2>2. ASSUME NEW t \in Tasks, state' = [state EXCEPT ![t] = "cancelled"],
               interrupted' = IF Awaited(t) THEN interrupted \cup {Current(t)} ELSE interrupted
        PROVE  Shape'
    <3>1. UNCHANGED <<worker, agents, starts, creating>>  BY <1>19 DEF CancelPublished
    <3>2. Awaited(t) => Current(t) \in Workers /\ worker[Current(t)] \notin Over
      BY <1>0, AwaitedWorker
    <3> QED  BY <1>0, <2>2, <3>1, <3>2 DEF Shape, Marks
  <2> QED
    BY <1>19, <1>0, <2>1, <2>2, CancellerParts DEF CancelPublished, CancelNext, Live, Marks
<1>20. ASSUME NEW c \in Callers, WaitReturns(c)  PROVE  Shape'
  BY <1>20, <1>0 DEF WaitReturns, Shape, managed, running
<1>21. ASSUME NEW c \in Callers, CancellerInterrupted(c)  PROVE  Shape'
  <2>1. UNCHANGED <<state, worker, agents, starts, creating>>
    BY <1>21 DEF CancellerInterrupted, managed, running
  <2>2. Awaited(call[c].task) /\ call[c].task \in Tasks =>
            Current(call[c].task) \in Workers /\ worker[Current(call[c].task)] \notin Over
    BY <1>0, AwaitedWorker
  <2> QED  BY <1>21, <1>0, <2>1, <2>2, CancellerParts DEF CancellerInterrupted, Shape, running
<1>22. ASSUME NEW c \in Callers, WaitAbandoned(c)  PROVE  Shape'
  BY <1>22, <1>0 DEF WaitAbandoned, Shape, managed, running
<1>23. ASSUME CleanupCompleted  PROVE  Shape'
  BY <1>23, <1>0 DEF CleanupCompleted, Shape, running
<1>24. ASSUME LoopShutdown  PROVE  Shape'
  BY <1>24, <1>0 DEF LoopShutdown, Shape, managed, Over
<1>25. ASSUME UNCHANGED vars  PROVE  Shape'
  BY <1>25, <1>0 DEF Shape, vars
<1> QED
  BY <1>1, <1>2, <1>3, <1>4, <1>5, <1>6, <1>7, <1>8, <1>9, <1>10, <1>11, <1>12, <1>13, <1>14,
     <1>15, <1>16, <1>17, <1>18, <1>19, <1>20, <1>21, <1>22, <1>23, <1>24, <1>25 DEF Next,
     WorkerAdvances, CallerCalls, CallerAdvances, CallerLeaves

-----------------------------------------------------------------------------
(* The slots *)

(* Only Acquire lets another worker into the semaphore, and when there is room.*)
LEMMA StepHolders ==
    ASSUME TypeOK, [Next]_vars
    PROVE  \/ Holders' \subseteq Holders
           \/ \E w \in Workers : Holders' \subseteq Holders \cup {w}
                  /\ Cardinality(Holders) < MaxConcurrent
<1> DEFINE Given == \/ Holders' \subseteq Holders
                    \/ \E w \in Workers : Holders' \subseteq Holders \cup {w}
                           /\ Cardinality(Holders) < MaxConcurrent
<1>0. Marks /\ Runs /\ Told /\ Calls  BY TypeParts
<1>1. ASSUME NEW t \in Tasks, CreateTask(t)  PROVE  Given
  BY <1>1 DEF CreateTask, Holders, managed, running
<1>2. ASSUME NEW t \in Tasks, StartTask(t)  PROVE  Given
  <2>1. Startable(t) => <<t, starts[t] + 1>> \in Workers  BY <1>0, CurrentLemma DEF Startable
  <2> QED  BY <1>2, <1>0, <2>1 DEF StartTask, Launch, Holders, Runs, running
<1>3. ASSUME NEW t \in Tasks, CreatedPublished(t)  PROVE  Given
  <2>1. Startable(t) => <<t, starts[t] + 1>> \in Workers  BY <1>0, CurrentLemma DEF Startable
  <2> QED  BY <1>3, <1>0, <2>1 DEF CreatedPublished, Launch, Holders, Runs, running
<1>4. ASSUME NEW t \in Tasks, CreatorInterrupted(t)  PROVE  Given
  BY <1>4 DEF CreatorInterrupted, Holders, managed, running
<1>5. ASSUME NEW w \in Workers, Acquire(w)  PROVE  Given
  <2>1. Holders' \subseteq Holders \cup {w} /\ Cardinality(Holders) < MaxConcurrent
    BY <1>5, <1>0 DEF Acquire, Holders, Runs, At, Goto
  <2> QED  BY <2>1
<1>6. ASSUME NEW w \in Workers, StartedPublished(w)  PROVE  Given
  BY <1>6, <1>0 DEF StartedPublished, Holders, Runs, managed, At, Goto, Fail, IsDone
<1>7. ASSUME NEW w \in Workers, RunReturns(w)  PROVE  Given
  BY <1>7, <1>0 DEF RunReturns, Holders, Runs, managed, At, Goto, Fail, IsDone
<1>8. ASSUME NEW w \in Workers, AgentClosed(w)  PROVE  Given
  BY <1>8, <1>0 DEF AgentClosed, Holders, Runs, managed, At, Goto, Fail, IsDone
<1>9. ASSUME NEW w \in Workers, CloseInterrupted(w)  PROVE  Given
  BY <1>9, <1>0 DEF CloseInterrupted, Holders, Runs, managed, At, Goto, Fail, IsDone
<1>10. ASSUME NEW w \in Workers, Settled(w)  PROVE  Given
  BY <1>10, <1>0 DEF Settled, Holders, Runs, managed, At, Goto, Fail, IsDone
<1>11. ASSUME NEW w \in Workers, TerminalPublished(w)  PROVE  Given
  BY <1>11, <1>0 DEF TerminalPublished, Holders, Runs, managed, At, Goto, Fail, IsDone
<1>12. ASSUME NEW w \in Workers, WorkerInterrupted(w)  PROVE  Given
  BY <1>12, <1>0 DEF WorkerInterrupted, Holders, Runs, managed, At, Goto, Fail, IsDone
<1>13. ASSUME NEW c \in Callers, CancelTask(c)  PROVE  Given
  BY <1>13 DEF CancelTask, Holders, managed, running
<1>14. ASSUME NEW c \in Callers, CancelForSession(c)  PROVE  Given
  BY <1>14 DEF CancelForSession, Holders, managed, running
<1>15. ASSUME NEW c \in Callers, WaitForTask(c)  PROVE  Given
  BY <1>15 DEF WaitForTask, Holders, managed, running
<1>16. ASSUME NEW c \in Callers, WaitForAny(c)  PROVE  Given
  BY <1>16 DEF WaitForAny, Holders, managed, running
<1>17. ASSUME NEW c \in Callers, WaitForAll(c)  PROVE  Given
  BY <1>17 DEF WaitForAll, Holders, managed, running
<1>18. ASSUME NEW c \in Callers, WorkerAwaited(c)  PROVE  Given
  BY <1>18 DEF WorkerAwaited, Holders, managed, running
<1>19. ASSUME NEW c \in Callers, CancelPublished(c)  PROVE  Given
  BY <1>19 DEF CancelPublished, Holders, managed, running
<1>20. ASSUME NEW c \in Callers, WaitReturns(c)  PROVE  Given
  BY <1>20 DEF WaitReturns, Holders, managed, running
<1>21. ASSUME NEW c \in Callers, CancellerInterrupted(c)  PROVE  Given
  BY <1>21 DEF CancellerInterrupted, Holders, managed, running
<1>22. ASSUME NEW c \in Callers, WaitAbandoned(c)  PROVE  Given
  BY <1>22 DEF WaitAbandoned, Holders, managed, running
<1>23. ASSUME CleanupCompleted  PROVE  Given
  BY <1>23 DEF CleanupCompleted, Holders, managed, running
<1>24. ASSUME LoopShutdown  PROVE  Given
  BY <1>24 DEF LoopShutdown, Holders, managed, running
<1>25. ASSUME UNCHANGED vars  PROVE  Given
  BY <1>25 DEF Holders, vars
<1> QED
  BY <1>1, <1>2, <1>3, <1>4, <1>5, <1>6, <1>7, <1>8, <1>9, <1>10, <1>11, <1>12, <1>13, <1>14,
     <1>15, <1>16, <1>17, <1>18, <1>19, <1>20, <1>21, <1>22, <1>23, <1>24, <1>25 DEF Next,
     WorkerAdvances, CallerCalls, CallerAdvances, CallerLeaves

(* The workers inside the semaphore can be counted.                        *)
LEMMA HoldersFinite == IsFiniteSet(Holders) /\ Cardinality(Holders) \in Nat
<1>1. Holders \in SUBSET Workers  BY DEF Holders
<1>2. IsFiniteSet(Holders)  BY <1>1, WorkersFinite, FS_Subset
<1> QED  BY <1>2, FS_CardinalityType

(* At first no slot is taken.                                              *)
LEMMA InitSlots == Init => Slots
<1>1. SUFFICES ASSUME Init  PROVE Slots
  OBVIOUS
<1>2. Holders = {}  BY <1>1 DEF Init, Holders
<1> QED  BY <1>2, FS_EmptySet, TaskAssumption DEF Slots

(* The semaphore never admits more than it has slots.                      *)
LEMMA StepSlots ==
    ASSUME TypeOK, Slots, [Next]_vars
    PROVE  Slots'
<1>1. MaxConcurrent \in Nat  BY TaskAssumption
<1>2. CASE Holders' \subseteq Holders
  <2>1. Cardinality(Holders') <= Cardinality(Holders) /\ IsFiniteSet(Holders')
    BY <1>2, HoldersFinite, FS_Subset
  <2>2. Cardinality(Holders') \in Nat  BY <2>1, FS_CardinalityType
  <2> QED  BY <1>1, <2>1, <2>2, HoldersFinite DEF Slots
<1>3. ASSUME NEW w \in Workers, Holders' \subseteq Holders \cup {w},
             Cardinality(Holders) < MaxConcurrent
      PROVE  Slots'
  <2>1. IsFiniteSet(Holders \cup {w}) /\ Cardinality(Holders \cup {w}) <= Cardinality(Holders) + 1
        /\ Cardinality(Holders \cup {w}) \in Nat
    BY HoldersFinite, FS_AddElement
  <2>2. Cardinality(Holders') <= Cardinality(Holders \cup {w}) /\ IsFiniteSet(Holders')
    BY <1>3, <2>1, FS_Subset
  <2>3. Cardinality(Holders') \in Nat  BY <2>2, FS_CardinalityType
  <2> QED  BY <1>1, <1>3, <2>1, <2>2, <2>3, HoldersFinite DEF Slots
<1> QED  BY <1>2, <1>3, StepHolders

-----------------------------------------------------------------------------
(* One worker takes a task *)

(* What a canceller does up to its next await.                             *)
LEMMA CancelEffect ==
    ASSUME Marks, Calls, NEW c \in Callers, NEW op, NEW todo \in SUBSET Tasks,
           CancelNext(c, op, todo)
    PROVE  /\ \A d \in Callers : d # c => call'[d] = call[d]
           /\ \/ UNCHANGED <<state, interrupted>> /\ call'[c].pc = "idle"
              \/ \E t \in Tasks :
                    /\ ~IsDone(t) /\ t \in registry /\ state' = [state EXCEPT ![t] = "cancelled"]
                    /\ Awaited(t) =>
                           interrupted' = interrupted \cup {Current(t)} /\ call'[c].pc = "worker"
                    /\ ~Awaited(t) => interrupted' = interrupted /\ call'[c].pc = "event"
                    /\ call'[c].task = t
<1>1. CASE Live(todo) = {} /\ Return(c) /\ UNCHANGED <<state, interrupted>>
  BY <1>1 DEF Return, Calls, Idle
<1>2. ASSUME NEW t \in Live(todo),
             state' = [state EXCEPT ![t] = "cancelled"],
             interrupted' = IF Awaited(t) THEN interrupted \cup {Current(t)} ELSE interrupted,
             call' = [call EXCEPT ![c] = [Idle EXCEPT !.pc = IF Awaited(t) THEN "worker" ELSE "event",
                                          !.op = op, !.task = t, !.todo = Live(todo) \ {t}]]
      PROVE  /\ \A d \in Callers : d # c => call'[d] = call[d]
             /\ \E x \in Tasks :
                    /\ ~IsDone(x) /\ x \in registry /\ state' = [state EXCEPT ![x] = "cancelled"]
                    /\ Awaited(x) =>
                           interrupted' = interrupted \cup {Current(x)} /\ call'[c].pc = "worker"
                    /\ ~Awaited(x) => interrupted' = interrupted /\ call'[c].pc = "event"
                    /\ call'[c].task = x
  <2>1. t \in Tasks /\ ~IsDone(t) /\ t \in registry  BY DEF Live
  <2>2. call'[c] = [Idle EXCEPT !.pc = IF Awaited(t) THEN "worker" ELSE "event",
                                !.op = op, !.task = t, !.todo = Live(todo) \ {t}]
        /\ \A d \in Callers : d # c => call'[d] = call[d]
    BY <1>2 DEF Calls
  <2>3. call'[c].task = t /\ call'[c].pc = IF Awaited(t) THEN "worker" ELSE "event"
    BY <2>2 DEF Idle
  <2> QED  BY <1>2, <2>1, <2>2, <2>3
<1> QED  BY <1>1, <1>2 DEF CancelNext

(* A task with a worker was created, started and announced.                *)
LEMMA NoneAbsent ==
    ASSUME Marks, Shape, NEW w \in Workers, worker[w] # "none"
    PROVE  state[w[1]] # "absent" /\ starts[w[1]] > 0 /\ creating[w[1]] = "no"
<1>1. w[1] \in Tasks /\ w[2] \in Nat /\ w[2] >= 1  BY WorkerParts, TaskAssumption
<1>2. ~(w[2] > starts[w[1]]) /\ starts[w[1]] \in Nat  BY <1>1, CurrentLemma DEF Shape
<1> QED  BY <1>1, <1>2 DEF Shape

(* At first no worker has taken a task.                                    *)
LEMMA InitTakes == Init => Takes
BY DEF Init, Takes, Fresh, Taken

(* A task is taken by one worker.                                          *)
LEMMA StepTakes ==
    ASSUME TypeOK, Shape, Takes, [Next]_vars
    PROVE  Takes'
<1>0. Marks /\ Runs /\ Told /\ Calls /\ Shape /\ Takes  BY TypeParts
<1>1. ASSUME NEW t \in Tasks, CreateTask(t)  PROVE  Takes'
  BY <1>1, <1>0, WorkerParts DEF CreateTask, Takes, Fresh, Taken, Marks, Runs, Launch,
     Startable, running
<1>2. ASSUME NEW t \in Tasks, StartTask(t)  PROVE  Takes'
  <2>1. Startable(t) => <<t, starts[t] + 1>> \in Workers /\ <<t, starts[t] + 1>>[1] = t
    BY <1>0, CurrentLemma, WorkerParts DEF Startable
  <2>2. Startable(t) => worker[<<t, starts[t] + 1>>] \in {"none", "acquire"}
    BY <1>0, <2>1 DEF Takes, Fresh, Startable
  <2> QED
    BY <1>2, <1>0, <2>1, <2>2 DEF StartTask, Takes, Fresh, Taken, Marks, Runs, Launch, running
<1>3. ASSUME NEW t \in Tasks, CreatedPublished(t)  PROVE  Takes'
  <2>1. Startable(t) => <<t, starts[t] + 1>> \in Workers /\ <<t, starts[t] + 1>>[1] = t
    BY <1>0, CurrentLemma, WorkerParts DEF Startable
  <2>2. Startable(t) => worker[<<t, starts[t] + 1>>] \in {"none", "acquire"}
    BY <1>0, <2>1 DEF Takes, Fresh, Startable
  <2> QED
    BY <1>3, <1>0, <2>1, <2>2 DEF CreatedPublished, Takes, Fresh, Taken, Marks, Runs, Launch,
       running
<1>4. ASSUME NEW t \in Tasks, CreatorInterrupted(t)  PROVE  Takes'
  BY <1>4, <1>0, WorkerParts DEF CreatorInterrupted, Takes, Fresh, Taken, Marks, Runs, Launch,
     Startable, running
<1>5. ASSUME NEW w \in Workers, Acquire(w)  PROVE  Takes'
  <2>1. CASE state[w[1]] # "pending"
    <3>1. state' = state /\ worker'[w] = "ended" /\ \A v \in Workers : v # w =>
              worker'[v] = worker[v]
      BY <1>5, <2>1, <1>0 DEF Acquire, Runs, Goto
    <3>2. state[w[1]] # "absent"  BY <1>5, <1>0, NoneAbsent DEF Acquire, At
    <3> QED  BY <1>0, <2>1, <3>1, <3>2, WorkerParts DEF Takes, Fresh, Taken
  <2>2. CASE state[w[1]] = "pending"
    <3>1. \A v \in Workers : v[1] = w[1] => worker[v] \notin Taken
      BY <2>2, <1>0 DEF Takes, Fresh, Taken
    <3>2. /\ \A v \in Workers : v # w => worker'[v] = worker[v]
          /\ worker'[w] = "starting" /\ state'[w[1]] = "running"
          /\ \A u \in Tasks : u # w[1] => state'[u] = state[u]
      BY <1>5, <2>2, <1>0, WorkerParts DEF Acquire, Marks, Runs, Goto
    <3> QED  BY <1>0, <3>1, <3>2, WorkerParts DEF Takes, Fresh
  <2> QED  BY <2>1, <2>2
<1>6. ASSUME NEW w \in Workers, StartedPublished(w)  PROVE  Takes'
  BY <1>6, <1>0, WorkerParts DEF StartedPublished, Takes, Fresh, Taken, Marks, Runs, managed,
     At, Goto, Fail, IsDone, DoneStates
<1>7. ASSUME NEW w \in Workers, RunReturns(w)  PROVE  Takes'
  BY <1>7, <1>0, WorkerParts DEF RunReturns, Takes, Fresh, Taken, Marks, Runs, managed, At,
     Goto, Fail, IsDone, DoneStates
<1>8. ASSUME NEW w \in Workers, AgentClosed(w)  PROVE  Takes'
  BY <1>8, <1>0, WorkerParts DEF AgentClosed, Takes, Fresh, Taken, Marks, Runs, managed, At,
     Goto, Fail, IsDone, DoneStates
<1>9. ASSUME NEW w \in Workers, CloseInterrupted(w)  PROVE  Takes'
  BY <1>9, <1>0, WorkerParts DEF CloseInterrupted, Takes, Fresh, Taken, Marks, Runs, managed,
     At, Goto, Fail, IsDone, DoneStates
<1>10. ASSUME NEW w \in Workers, Settled(w)  PROVE  Takes'
  <2>1. \A u \in Tasks : u # w[1] => state'[u] = state[u]
    BY <1>10, <1>0, WorkerParts DEF Settled, Fail, Marks
  <2>2. \A v \in Workers : v # w => worker'[v] = worker[v]
    BY <1>10, <1>0 DEF Settled, Fail, Goto, Runs
  <2>3. worker'[w] \in {"ended", "completing", "failing", "cancelling"}
    BY <1>10, <1>0 DEF Settled, Fail, Goto, Runs
  <2>4. IsDone(w[1])' BY <1>10, <1>0, WorkerParts DEF Settled, Fail, IsDone, Marks, DoneStates
  <2> QED
    BY <1>0, <2>1, <2>2, <2>3, <2>4, WorkerParts DEF Takes, Fresh, Taken, IsDone, DoneStates
<1>11. ASSUME NEW w \in Workers, TerminalPublished(w)  PROVE  Takes'
  BY <1>11, <1>0, WorkerParts DEF TerminalPublished, Takes, Fresh, Taken, Marks, Runs, managed,
     At, Goto, Fail, IsDone, DoneStates
<1>12. ASSUME NEW w \in Workers, WorkerInterrupted(w)  PROVE  Takes'
  <2>1. UNCHANGED state \/ state' = [state EXCEPT ![w[1]] = "cancelled"]
    BY <1>12 DEF WorkerInterrupted, Fail
  <2>2. \A v \in Workers : v # w => worker'[v] = worker[v]
    BY <1>12, <1>0 DEF WorkerInterrupted, Fail, Goto, Runs
  <2>3. worker'[w] \in {"ended", "cancelling"}
    BY <1>12, <1>0 DEF WorkerInterrupted, Fail, Goto, Runs
  <2>4. IsDone(w[1])'
    BY <1>12, <1>0, WorkerParts DEF WorkerInterrupted, Fail, IsDone, Marks, DoneStates
  <2> QED
    BY <1>0, <2>1, <2>2, <2>3, <2>4, WorkerParts DEF Takes, Fresh, Taken, Marks, IsDone,
       DoneStates
<1>13. ASSUME NEW c \in Callers, CancelTask(c)  PROVE  Takes'
  <2>1. worker' = worker /\ \E op : \E todo \in SUBSET Tasks : CancelNext(c, op, todo)
    BY <1>13, <1>0, CancellerParts DEF CancelTask, Marks
  <2>2. \A u \in Tasks : state'[u] \in Fresh => state[u] \in Fresh
    <3>1. PICK op : \E todo \in SUBSET Tasks : CancelNext(c, op, todo)  BY <2>1
    <3>2. PICK todo \in SUBSET Tasks : CancelNext(c, op, todo)  BY <3>1
    <3> QED  BY <1>0, <3>2, CancelEffect DEF Marks, Fresh
  <2> QED  BY <1>0, <2>1, <2>2, WorkerParts DEF Takes, Fresh
<1>14. ASSUME NEW c \in Callers, CancelForSession(c)  PROVE  Takes'
  <2>1. worker' = worker /\ CancelNext(c, "sweep", registry)  BY <1>14 DEF CancelForSession
  <2>2. \A u \in Tasks : state'[u] \in Fresh => state[u] \in Fresh
    BY <1>0, <2>1, CancelEffect DEF Marks, Fresh
  <2> QED  BY <1>0, <2>1, <2>2, WorkerParts DEF Takes, Fresh
<1>15. ASSUME NEW c \in Callers, WaitForTask(c)  PROVE  Takes'
  BY <1>15, <1>0 DEF WaitForTask, Takes, Fresh, managed, running
<1>16. ASSUME NEW c \in Callers, WaitForAny(c)  PROVE  Takes'
  BY <1>16, <1>0 DEF WaitForAny, Takes, Fresh, managed, running
<1>17. ASSUME NEW c \in Callers, WaitForAll(c)  PROVE  Takes'
  BY <1>17, <1>0 DEF WaitForAll, Takes, Fresh, managed, running
<1>18. ASSUME NEW c \in Callers, WorkerAwaited(c)  PROVE  Takes'
  BY <1>18, <1>0 DEF WorkerAwaited, Takes, Fresh, managed, running
<1>19. ASSUME NEW c \in Callers, CancelPublished(c)  PROVE  Takes'
  <2>1. worker' = worker /\ \E op : \E todo \in SUBSET Tasks : CancelNext(c, op, todo)
    BY <1>19, <1>0, CancellerParts DEF CancelPublished, Marks
  <2>2. \A u \in Tasks : state'[u] \in Fresh => state[u] \in Fresh
    <3>1. PICK op : \E todo \in SUBSET Tasks : CancelNext(c, op, todo)  BY <2>1
    <3>2. PICK todo \in SUBSET Tasks : CancelNext(c, op, todo)  BY <3>1
    <3> QED  BY <1>0, <3>2, CancelEffect DEF Marks, Fresh
  <2> QED  BY <1>0, <2>1, <2>2, WorkerParts DEF Takes, Fresh
<1>20. ASSUME NEW c \in Callers, WaitReturns(c)  PROVE  Takes'
  BY <1>20, <1>0 DEF WaitReturns, Takes, Fresh, managed, running
<1>21. ASSUME NEW c \in Callers, CancellerInterrupted(c)  PROVE  Takes'
  BY <1>21, <1>0 DEF CancellerInterrupted, Takes, Fresh, managed, running
<1>22. ASSUME NEW c \in Callers, WaitAbandoned(c)  PROVE  Takes'
  BY <1>22, <1>0 DEF WaitAbandoned, Takes, Fresh, managed, running
<1>23. ASSUME CleanupCompleted  PROVE  Takes'
  BY <1>23, <1>0 DEF CleanupCompleted, Takes, Fresh, managed, running
<1>24. ASSUME LoopShutdown  PROVE  Takes'
  BY <1>24, <1>0 DEF LoopShutdown, Takes, Fresh, managed, running
<1>25. ASSUME UNCHANGED vars  PROVE  Takes'
  BY <1>25, <1>0 DEF Takes, Fresh, vars
<1> QED
  BY <1>1, <1>2, <1>3, <1>4, <1>5, <1>6, <1>7, <1>8, <1>9, <1>10, <1>11, <1>12, <1>13, <1>14,
     <1>15, <1>16, <1>17, <1>18, <1>19, <1>20, <1>21, <1>22, <1>23, <1>24, <1>25 DEF Next,
     WorkerAdvances, CallerCalls, CallerAdvances, CallerLeaves

-----------------------------------------------------------------------------
(* What a step may do to any task *)

(* What no step takes back: outcomes, and that a task is no longer fresh.  *)
Advance ==
    /\ \A t \in Tasks : state'[t] \in Fresh => state[t] \in Fresh
    /\ \A t \in Tasks : IsDone(t) => state'[t] \in DoneStates
    /\ \A w \in Workers : worker'[w] = "starting" => worker[w] = "starting" \/ state[w[1]] \in Fresh

(* No step takes an outcome back or makes a taken task fresh.              *)
LEMMA StepAdvances ==
    ASSUME TypeOK, [Next]_vars
    PROVE  Advance
<1>0. Marks /\ Runs /\ Told /\ Calls  BY TypeParts
<1>1. ASSUME NEW t \in Tasks, CreateTask(t)  PROVE  Advance
  BY <1>1, <1>0, WorkerParts DEF CreateTask, Advance, Fresh, IsDone, DoneStates, Marks, Runs,
     Launch, Startable, running
<1>2. ASSUME NEW t \in Tasks, StartTask(t)  PROVE  Advance
  <2>1. Startable(t) => <<t, starts[t] + 1>> \in Workers  BY <1>0, CurrentLemma DEF Startable
  <2> QED  BY <1>2, <1>0, <2>1 DEF StartTask, Launch, Runs, Advance, Fresh, IsDone, running
<1>3. ASSUME NEW t \in Tasks, CreatedPublished(t)  PROVE  Advance
  <2>1. Startable(t) => <<t, starts[t] + 1>> \in Workers  BY <1>0, CurrentLemma DEF Startable
  <2> QED
    BY <1>3, <1>0, <2>1 DEF CreatedPublished, Launch, Runs, Advance, Fresh, IsDone, running
<1>4. ASSUME NEW t \in Tasks, CreatorInterrupted(t)  PROVE  Advance
  BY <1>4, <1>0, WorkerParts DEF CreatorInterrupted, Advance, Fresh, IsDone, DoneStates, Marks,
     Runs, Launch, Startable, running
<1>5. ASSUME NEW w \in Workers, Acquire(w)  PROVE  Advance
  BY <1>5, <1>0, WorkerParts DEF Acquire, Advance, Fresh, IsDone, DoneStates, Marks, Runs,
     managed, At, Goto, Fail
<1>6. ASSUME NEW w \in Workers, StartedPublished(w)  PROVE  Advance
  BY <1>6, <1>0, WorkerParts DEF StartedPublished, Advance, Fresh, IsDone, DoneStates, Marks,
     Runs, managed, At, Goto, Fail
<1>7. ASSUME NEW w \in Workers, RunReturns(w)  PROVE  Advance
  BY <1>7, <1>0, WorkerParts DEF RunReturns, Advance, Fresh, IsDone, DoneStates, Marks, Runs,
     managed, At, Goto, Fail
<1>8. ASSUME NEW w \in Workers, AgentClosed(w)  PROVE  Advance
  BY <1>8, <1>0, WorkerParts DEF AgentClosed, Advance, Fresh, IsDone, DoneStates, Marks, Runs,
     managed, At, Goto, Fail
<1>9. ASSUME NEW w \in Workers, CloseInterrupted(w)  PROVE  Advance
  BY <1>9, <1>0, WorkerParts DEF CloseInterrupted, Advance, Fresh, IsDone, DoneStates, Marks,
     Runs, managed, At, Goto, Fail
<1>10. ASSUME NEW w \in Workers, Settled(w)  PROVE  Advance
  BY <1>10, <1>0, WorkerParts DEF Settled, Advance, Fresh, IsDone, DoneStates, Marks, Runs,
     managed, At, Goto, Fail
<1>11. ASSUME NEW w \in Workers, TerminalPublished(w)  PROVE  Advance
  BY <1>11, <1>0, WorkerParts DEF TerminalPublished, Advance, Fresh, IsDone, DoneStates, Marks,
     Runs, managed, At, Goto, Fail
<1>12. ASSUME NEW w \in Workers, WorkerInterrupted(w)  PROVE  Advance
  BY <1>12, <1>0, WorkerParts DEF WorkerInterrupted, Advance, Fresh, IsDone, DoneStates, Marks,
     Runs, managed, At, Goto, Fail
<1>13. ASSUME NEW c \in Callers, CancelTask(c)  PROVE  Advance
  <2>1. worker' = worker /\ \E op : \E todo \in SUBSET Tasks : CancelNext(c, op, todo)
    BY <1>13, <1>0, CancellerParts DEF CancelTask, Marks
  <2>2. PICK op : \E todo \in SUBSET Tasks : CancelNext(c, op, todo)  BY <2>1
  <2>3. PICK todo \in SUBSET Tasks : CancelNext(c, op, todo)  BY <2>2
  <2>4. UNCHANGED state \/ \E t \in Tasks : state' = [state EXCEPT ![t] = "cancelled"]
    BY <1>0, <2>3, CancelEffect
  <2> QED  BY <1>0, <2>1, <2>4 DEF Advance, Fresh, IsDone, DoneStates, Marks
<1>14. ASSUME NEW c \in Callers, CancelForSession(c)  PROVE  Advance
  <2>1. worker' = worker /\ \E op : \E todo \in SUBSET Tasks : CancelNext(c, op, todo)
    BY <1>14, <1>0, CancellerParts DEF CancelForSession, Marks
  <2>2. PICK op : \E todo \in SUBSET Tasks : CancelNext(c, op, todo)  BY <2>1
  <2>3. PICK todo \in SUBSET Tasks : CancelNext(c, op, todo)  BY <2>2
  <2>4. UNCHANGED state \/ \E t \in Tasks : state' = [state EXCEPT ![t] = "cancelled"]
    BY <1>0, <2>3, CancelEffect
  <2> QED  BY <1>0, <2>1, <2>4 DEF Advance, Fresh, IsDone, DoneStates, Marks
<1>15. ASSUME NEW c \in Callers, WaitForTask(c)  PROVE  Advance
  BY <1>15, <1>0 DEF WaitForTask, Advance, Fresh, IsDone, DoneStates, Marks, Runs, managed,
     running
<1>16. ASSUME NEW c \in Callers, WaitForAny(c)  PROVE  Advance
  BY <1>16, <1>0 DEF WaitForAny, Advance, Fresh, IsDone, DoneStates, Marks, Runs, managed,
     running
<1>17. ASSUME NEW c \in Callers, WaitForAll(c)  PROVE  Advance
  BY <1>17, <1>0 DEF WaitForAll, Advance, Fresh, IsDone, DoneStates, Marks, Runs, managed,
     running
<1>18. ASSUME NEW c \in Callers, WorkerAwaited(c)  PROVE  Advance
  BY <1>18, <1>0 DEF WorkerAwaited, Advance, Fresh, IsDone, DoneStates, Marks, Runs, managed,
     running
<1>19. ASSUME NEW c \in Callers, CancelPublished(c)  PROVE  Advance
  <2>1. worker' = worker /\ \E op : \E todo \in SUBSET Tasks : CancelNext(c, op, todo)
    BY <1>19, <1>0, CancellerParts DEF CancelPublished, Marks
  <2>2. PICK op : \E todo \in SUBSET Tasks : CancelNext(c, op, todo)  BY <2>1
  <2>3. PICK todo \in SUBSET Tasks : CancelNext(c, op, todo)  BY <2>2
  <2>4. UNCHANGED state \/ \E t \in Tasks : state' = [state EXCEPT ![t] = "cancelled"]
    BY <1>0, <2>3, CancelEffect
  <2> QED  BY <1>0, <2>1, <2>4 DEF Advance, Fresh, IsDone, DoneStates, Marks
<1>20. ASSUME NEW c \in Callers, WaitReturns(c)  PROVE  Advance
  BY <1>20, <1>0 DEF WaitReturns, Advance, Fresh, IsDone, DoneStates, Marks, Runs, managed,
     running
<1>21. ASSUME NEW c \in Callers, CancellerInterrupted(c)  PROVE  Advance
  BY <1>21, <1>0 DEF CancellerInterrupted, Advance, Fresh, IsDone, DoneStates, Marks, Runs,
     managed, running
<1>22. ASSUME NEW c \in Callers, WaitAbandoned(c)  PROVE  Advance
  BY <1>22, <1>0 DEF WaitAbandoned, Advance, Fresh, IsDone, DoneStates, Marks, Runs, managed,
     running
<1>23. ASSUME CleanupCompleted  PROVE  Advance
  BY <1>23, <1>0 DEF CleanupCompleted, Advance, Fresh, IsDone, DoneStates, Marks, Runs, managed,
     running
<1>24. ASSUME LoopShutdown  PROVE  Advance
  BY <1>24, <1>0 DEF LoopShutdown, Advance, Fresh, IsDone, DoneStates, Marks, Runs, managed,
     running
<1>25. ASSUME UNCHANGED vars  PROVE  Advance
  BY <1>25, <1>0 DEF vars, Advance, Fresh, IsDone
<1> QED
  BY <1>1, <1>2, <1>3, <1>4, <1>5, <1>6, <1>7, <1>8, <1>9, <1>10, <1>11, <1>12, <1>13, <1>14,
     <1>15, <1>16, <1>17, <1>18, <1>19, <1>20, <1>21, <1>22, <1>23, <1>24, <1>25 DEF Next,
     WorkerAdvances, CallerCalls, CallerAdvances, CallerLeaves

(* What listeners were told stays right when a step tells them nothing ... *)
LEMMA TellsQuiet ==
    ASSUME Tells, UNCHANGED published,
           \A t \in Tasks : state'[t] \in Fresh => state[t] \in Fresh,
           \A w \in Workers : worker'[w] = "starting" =>
               worker[w] = "starting" \/ state[w[1]] \in Fresh
    PROVE  Tells'
BY WorkerParts DEF Tells, Fresh

(* ... and when it publishes an event of a task.                           *)
LEMMA TellsPublish ==
    ASSUME Told, Tells, NEW t \in Tasks, NEW event \in {"created", "started"} \cup DoneStates,
           Publish(t, event),
           \A u \in Tasks : state'[u] \in Fresh => state[u] \in Fresh /\ (u = t =>
               event = "created"),
           \A w \in Workers : worker'[w] = "starting" => worker[w] = "starting" /\ (w[1] = t =>
               event # "started"),
           event = "started" => \E w \in Workers : w[1] = t /\ worker[w] = "starting"
    PROVE  Tells'
<1>1. /\ \A u \in Tasks : u # t => published'[u] = published[u]
      /\ Len(published[t]) \in Nat /\ DOMAIN published[t] = 1 .. Len(published[t])
      /\ DOMAIN published'[t] = 1 .. Len(published[t]) + 1
      /\ published'[t][Len(published[t]) + 1] = event
      /\ \A i \in 1 .. Len(published[t]) : published'[t][i] = published[t][i]
  BY PublishTyped
<1>2. \A i \in DOMAIN published'[t] : i \in DOMAIN published[t] \/ i = Len(published[t]) + 1
  BY <1>1
<1>3. event = "started" => \A i \in DOMAIN published[t] : published[t][i] # "started"
  BY DEF Tells
<1>4. ASSUME NEW u \in Tasks, state'[u] \in Fresh, NEW i \in DOMAIN published'[u]
      PROVE  published'[u][i] = "created"
  BY <1>1, <1>2, <1>4 DEF Tells, Fresh
<1>5. ASSUME NEW w \in Workers, worker'[w] = "starting", NEW i \in DOMAIN published'[w[1]]
      PROVE  published'[w[1]][i] # "started"
  <2>1. w[1] \in Tasks /\ worker[w] = "starting"  BY <1>5, WorkerParts
  <2>2. CASE w[1] # t
    <3>1. published'[w[1]] = published[w[1]]  BY <1>1, <2>1, <2>2
    <3> QED  BY <1>5, <2>1, <3>1 DEF Tells
  <2>3. CASE w[1] = t
    <3>1. event # "started" /\ \A k \in DOMAIN published[t] : published[t][k] # "started"
      BY <1>5, <2>1, <2>3 DEF Tells
    <3> QED  BY <1>1, <1>2, <1>5, <2>3, <3>1
  <2> QED  BY <2>2, <2>3
<1>6. ASSUME NEW u \in Tasks, NEW i \in DOMAIN published'[u], NEW j \in DOMAIN published'[u],
             published'[u][i] = "started", published'[u][j] = "started"
      PROVE  i = j
  <2>1. CASE u # t  BY <1>1, <1>6, <2>1 DEF Tells
  <2>2. CASE u = t /\ event = "started"
    <3>1. \A k \in DOMAIN published[t] : published'[t][k] # "started"  BY <1>1, <1>3, <2>2
    <3>2. \A k \in DOMAIN published'[t] : published'[t][k] = "started" => k = Len(published[t]) + 1
      BY <1>2, <3>1
    <3>3. i \in DOMAIN published'[t] /\ j \in DOMAIN published'[t]  BY <1>6, <2>2
    <3>4. published'[t][i] = "started" /\ published'[t][j] = "started"  BY <1>6, <2>2
    <3>5. i = Len(published[t]) + 1  BY <3>2, <3>3, <3>4
    <3>6. j = Len(published[t]) + 1  BY <3>2, <3>3, <3>4
    <3> QED  BY <3>5, <3>6
  <2>3. CASE u = t /\ event # "started"
    <3>1. \A k \in DOMAIN published'[t] : published'[t][k] = "started" =>
             k \in DOMAIN published[t] /\ published[t][k] = "started"
      BY <1>1, <1>2, <2>3
    <3>2. i \in DOMAIN published'[t] /\ j \in DOMAIN published'[t]  BY <1>6, <2>3
    <3>3. published'[t][i] = "started" /\ published'[t][j] = "started"  BY <1>6, <2>3
    <3>4. i \in DOMAIN published[t] /\ published[t][i] = "started"  BY <3>1, <3>2, <3>3
    <3>5. j \in DOMAIN published[t] /\ published[t][j] = "started"  BY <3>1, <3>2, <3>3
    <3> QED  BY <3>4, <3>5 DEF Tells
  <2> QED  BY <2>1, <2>2, <2>3
<1> QED  BY <1>4, <1>5, <1>6 DEF Tells, Fresh

(* At first nothing was told.                                              *)
LEMMA InitTells == Init => Tells
BY DEF Init, Tells

(* A task is announced as started once.                                    *)
LEMMA StepTells ==
    ASSUME TypeOK, Shape, Takes, Tells, Table, [Next]_vars
    PROVE  Tells'
<1>0. Marks /\ Runs /\ Told /\ Calls /\ Shape /\ Takes /\ Tells /\ Table  BY TypeParts
<1>a. Advance  BY StepAdvances
<1>1. ASSUME NEW t \in Tasks, CreateTask(t)  PROVE  Tells'
  BY <1>1, <1>0, <1>a, TellsQuiet DEF CreateTask, Advance, managed, running
<1>2. ASSUME NEW t \in Tasks, StartTask(t)  PROVE  Tells'
  BY <1>2, <1>0, <1>a, TellsQuiet DEF StartTask, Advance, managed, running
<1>3. ASSUME NEW t \in Tasks, CreatedPublished(t)  PROVE  Tells'
  <2>1. Publish(t, "created") /\ state' = state  BY <1>3 DEF CreatedPublished
  <2>2. \A w \in Workers : worker'[w] = "starting" => worker[w] = "starting"
    <3>1. Startable(t) => <<t, starts[t] + 1>> \in Workers  BY <1>0, CurrentLemma DEF Startable
    <3> QED  BY <1>3, <1>0, <3>1 DEF CreatedPublished, Launch, Runs
  <2> QED  BY <1>0, <2>1, <2>2, TellsPublish
<1>4. ASSUME NEW t \in Tasks, CreatorInterrupted(t)  PROVE  Tells'
  <2>1. state' = state /\ worker' = worker  BY <1>4 DEF CreatorInterrupted, running
  <2> QED  BY <1>4, <1>0, <1>a, <2>1, TellsQuiet, TellsPublish DEF CreatorInterrupted, Advance
<1>5. ASSUME NEW w \in Workers, Acquire(w)  PROVE  Tells'
  BY <1>5, <1>0, <1>a, TellsQuiet DEF Acquire, Advance, managed, running
<1>6. ASSUME NEW w \in Workers, StartedPublished(w)  PROVE  Tells'
  <2>1. Publish(w[1], "started") /\ worker[w] = "starting" /\ w[1] \in Tasks
    BY <1>6, WorkerParts DEF StartedPublished, At
  <2>2. /\ \A v \in Workers : v # w => worker'[v] = worker[v]
        /\ worker'[w] # "starting"
    BY <1>6, <1>0 DEF StartedPublished, Runs, Goto, Fail
  <2>a. \A u \in Tasks : state'[u] \in Fresh => state[u] \in Fresh
    BY <1>a DEF Advance
  <2>3. state[w[1]] \notin Fresh /\ \A v \in Workers : v # w /\ v[1] = w[1] =>
            worker[v] # "starting"
    BY <1>0, <2>1 DEF Takes, Taken, Fresh
  <2>b. \A v \in Workers : worker'[v] = "starting" => worker[v] = "starting" /\ v[1] # w[1]
    BY <2>2, <2>3
  <2> QED  BY <1>0, <2>1, <2>3, <2>a, <2>b, TellsPublish
<1>7. ASSUME NEW w \in Workers, RunReturns(w)  PROVE  Tells'
  BY <1>7, <1>0, <1>a, TellsQuiet DEF RunReturns, Advance, managed, running
<1>8. ASSUME NEW w \in Workers, AgentClosed(w)  PROVE  Tells'
  BY <1>8, <1>0, <1>a, TellsQuiet DEF AgentClosed, Advance, managed, running
<1>9. ASSUME NEW w \in Workers, CloseInterrupted(w)  PROVE  Tells'
  BY <1>9, <1>0, <1>a, TellsQuiet DEF CloseInterrupted, Advance, managed, running
<1>10. ASSUME NEW w \in Workers, Settled(w)  PROVE  Tells'
  BY <1>10, <1>0, <1>a, TellsQuiet DEF Settled, Advance, managed, running
<1>11. ASSUME NEW w \in Workers, TerminalPublished(w)  PROVE  Tells'
  <2>1. /\ worker[w] \in Finishes /\ w[1] \in Tasks /\ state' = state
        /\ \A v \in Workers : worker'[v] = "starting" => worker[v] = "starting"
    BY <1>11, <1>0, WorkerParts DEF TerminalPublished, Runs, Goto, Finishes
  <2>2. state[w[1]] \notin Fresh  BY <1>0, <2>1 DEF Takes, Finishes, Fresh
  <2>3. TerminalEvent(w) \in DoneStates /\ TerminalEvent(w) # "started"
    BY DEF TerminalEvent, DoneStates
  <2>4. CASE Publish(w[1], TerminalEvent(w))
    <3>1. PICK event \in DoneStates : event = TerminalEvent(w)  BY <2>3
    <3>2. event # "started" /\ Publish(w[1], event)  BY <2>3, <2>4, <3>1
    <3>3. \A u \in Tasks : state'[u] \in Fresh => state[u] \in Fresh /\ u # w[1]  BY <2>1, <2>2
    <3>4. event \in {"created", "started"} \cup DoneStates  BY <3>1
    <3>5. Told /\ Tells /\ w[1] \in Tasks  BY <1>0, <2>1
    <3>6. \A v \in Workers : worker'[v] = "starting" => worker[v] = "starting" /\ (v[1] = w[1] =>
              event # "started")
      BY <2>1, <3>2
    <3> QED  BY <3>2, <3>3, <3>4, <3>5, <3>6, TellsPublish
  <2>5. CASE UNCHANGED published  BY <1>0, <2>1, <2>5, TellsQuiet
  <2> QED  BY <1>11, <2>4, <2>5 DEF TerminalPublished
<1>12. ASSUME NEW w \in Workers, WorkerInterrupted(w)  PROVE  Tells'
  <2>1. /\ w[1] \in Tasks /\ IsDone(w[1])'
        /\ \A v \in Workers : v # w => worker'[v] = worker[v]
        /\ worker'[w] # "starting"
        /\ \A u \in Tasks : state'[u] \in Fresh => state[u] \in Fresh
    BY <1>12, <1>0, <1>a, WorkerParts DEF WorkerInterrupted, Runs, Marks, Goto, Fail, Advance,
       IsDone, DoneStates
  <2>2. CASE worker[w] = "starting" /\ Publish(w[1], "started")
    <3>1. \A v \in Workers : v # w /\ v[1] = w[1] => worker[v] # "starting"
      BY <1>0, <2>2 DEF Takes, Taken
    <3>2. state'[w[1]] \notin Fresh  BY <2>1 DEF IsDone, DoneStates, Fresh
    <3>3. \A v \in Workers : worker'[v] = "starting" => worker[v] = "starting" /\ v[1] # w[1]
      BY <2>1, <3>1
    <3> QED  BY <1>0, <2>1, <2>2, <3>2, <3>3, TellsPublish
  <2>3. CASE UNCHANGED published
    <3>1. \A v \in Workers : worker'[v] = "starting" => worker[v] = "starting"  BY <2>1
    <3> QED  BY <1>0, <2>1, <2>3, <3>1, TellsQuiet
  <2> QED  BY <1>12, <2>2, <2>3 DEF WorkerInterrupted
<1>13. ASSUME NEW c \in Callers, CancelTask(c)  PROVE  Tells'
  BY <1>13, <1>0, <1>a, TellsQuiet DEF CancelTask, Advance, managed, running
<1>14. ASSUME NEW c \in Callers, CancelForSession(c)  PROVE  Tells'
  BY <1>14, <1>0, <1>a, TellsQuiet DEF CancelForSession, Advance, managed, running
<1>15. ASSUME NEW c \in Callers, WaitForTask(c)  PROVE  Tells'
  BY <1>15, <1>0, <1>a, TellsQuiet DEF WaitForTask, Advance, managed, running
<1>16. ASSUME NEW c \in Callers, WaitForAny(c)  PROVE  Tells'
  BY <1>16, <1>0, <1>a, TellsQuiet DEF WaitForAny, Advance, managed, running
<1>17. ASSUME NEW c \in Callers, WaitForAll(c)  PROVE  Tells'
  BY <1>17, <1>0, <1>a, TellsQuiet DEF WaitForAll, Advance, managed, running
<1>18. ASSUME NEW c \in Callers, WorkerAwaited(c)  PROVE  Tells'
  BY <1>18, <1>0, <1>a, TellsQuiet DEF WorkerAwaited, Advance, managed, running
<1>19. ASSUME NEW c \in Callers, CancelPublished(c)  PROVE  Tells'
  <2>1. Publish(call[c].task, "cancelled") /\ worker' = worker /\ call[c].pc = "event"
    BY <1>19 DEF CancelPublished
  <2>2. call[c].task \in Tasks /\ IsDone(call[c].task)
    BY <1>0, <2>1, CancellerParts DEF Table, Cancels
  <2>3. state'[call[c].task] \notin Fresh  BY <1>a, <2>2 DEF Advance, DoneStates, Fresh
  <2>4. "cancelled" \in DoneStates  BY DEF DoneStates
  <2>5. \A t \in Tasks : state'[t] \in Fresh => state[t] \in Fresh  BY <1>a DEF Advance
  <2> QED  BY <1>0, <2>1, <2>2, <2>3, <2>4, <2>5, TellsPublish
<1>20. ASSUME NEW c \in Callers, WaitReturns(c)  PROVE  Tells'
  BY <1>20, <1>0, <1>a, TellsQuiet DEF WaitReturns, Advance, managed, running
<1>21. ASSUME NEW c \in Callers, CancellerInterrupted(c)  PROVE  Tells'
  <2>1. worker' = worker /\ state' = state  BY <1>21 DEF CancellerInterrupted, managed, running
  <2>2. CASE call[c].pc = "event" /\ Publish(call[c].task, "cancelled")
    <3>1. call[c].task \in Tasks /\ IsDone(call[c].task)
      BY <1>0, <2>2, CancellerParts DEF Table, Cancels
    <3>2. state'[call[c].task] \notin Fresh  BY <2>1, <3>1 DEF IsDone, DoneStates, Fresh
    <3>3. "cancelled" \in DoneStates  BY DEF DoneStates
    <3> QED  BY <1>0, <2>1, <2>2, <3>1, <3>2, <3>3, TellsPublish
  <2>3. CASE UNCHANGED published  BY <1>0, <2>1, <2>3, TellsQuiet
  <2> QED  BY <1>21, <2>2, <2>3 DEF CancellerInterrupted
<1>22. ASSUME NEW c \in Callers, WaitAbandoned(c)  PROVE  Tells'
  BY <1>22, <1>0, <1>a, TellsQuiet DEF WaitAbandoned, Advance, managed, running
<1>23. ASSUME CleanupCompleted  PROVE  Tells'
  BY <1>23, <1>0, <1>a, TellsQuiet DEF CleanupCompleted, Advance, managed, running
<1>24. ASSUME LoopShutdown  PROVE  Tells'
  BY <1>24, <1>0, <1>a, TellsQuiet DEF LoopShutdown, Advance, managed, running
<1>25. ASSUME UNCHANGED vars  PROVE  Tells'
  BY <1>25, <1>0, <1>a, TellsQuiet DEF vars, Advance
<1> QED
  BY <1>1, <1>2, <1>3, <1>4, <1>5, <1>6, <1>7, <1>8, <1>9, <1>10, <1>11, <1>12, <1>13, <1>14,
     <1>15, <1>16, <1>17, <1>18, <1>19, <1>20, <1>21, <1>22, <1>23, <1>24, <1>25 DEF Next,
     WorkerAdvances, CallerCalls, CallerAdvances, CallerLeaves

-----------------------------------------------------------------------------
(* The table of tasks *)

(* An end that is being announced has been marked.                         *)
MarksEnds ==
    /\ \A w \in Workers : worker'[w] \in Finishes => worker[w] \in Finishes \/ IsDone(w[1])'
    /\ \A c \in Callers, t \in Tasks : Cancels(c, t)' => Cancels(c, t) \/ IsDone(t)'

(* Whoever begins to announce an end has marked it.                        *)
LEMMA StepMarksEnds ==
    ASSUME TypeOK, [Next]_vars
    PROVE  MarksEnds
<1>0. Marks /\ Runs /\ Told /\ Calls  BY TypeParts
<1>1. ASSUME NEW t \in Tasks, CreateTask(t)  PROVE  MarksEnds
  BY <1>1, <1>0, WorkerParts DEF CreateTask, MarksEnds, Finishes, Cancels, Runs, Launch, running
<1>2. ASSUME NEW t \in Tasks, StartTask(t)  PROVE  MarksEnds
  <2>1. Startable(t) => <<t, starts[t] + 1>> \in Workers  BY <1>0, CurrentLemma DEF Startable
  <2> QED
    BY <1>2, <1>0, <2>1 DEF StartTask, Launch, Runs, MarksEnds, Finishes, Cancels, running
<1>3. ASSUME NEW t \in Tasks, CreatedPublished(t)  PROVE  MarksEnds
  <2>1. Startable(t) => <<t, starts[t] + 1>> \in Workers  BY <1>0, CurrentLemma DEF Startable
  <2> QED
    BY <1>3, <1>0, <2>1 DEF CreatedPublished, Launch, Runs, MarksEnds, Finishes, Cancels,
       running
<1>4. ASSUME NEW t \in Tasks, CreatorInterrupted(t)  PROVE  MarksEnds
  BY <1>4, <1>0, WorkerParts DEF CreatorInterrupted, MarksEnds, Finishes, Cancels, Runs, Launch,
     running
<1>5. ASSUME NEW w \in Workers, Acquire(w)  PROVE  MarksEnds
  BY <1>5, <1>0, WorkerParts DEF Acquire, MarksEnds, Finishes, Cancels, IsDone, DoneStates,
     Marks, Runs, managed, At, Goto, Fail
<1>6. ASSUME NEW w \in Workers, StartedPublished(w)  PROVE  MarksEnds
  BY <1>6, <1>0, WorkerParts DEF StartedPublished, MarksEnds, Finishes, Cancels, IsDone,
     DoneStates, Marks, Runs, managed, At, Goto, Fail
<1>7. ASSUME NEW w \in Workers, RunReturns(w)  PROVE  MarksEnds
  BY <1>7, <1>0, WorkerParts DEF RunReturns, MarksEnds, Finishes, Cancels, IsDone, DoneStates,
     Marks, Runs, managed, At, Goto, Fail
<1>8. ASSUME NEW w \in Workers, AgentClosed(w)  PROVE  MarksEnds
  BY <1>8, <1>0, WorkerParts DEF AgentClosed, MarksEnds, Finishes, Cancels, IsDone, DoneStates,
     Marks, Runs, managed, At, Goto, Fail
<1>9. ASSUME NEW w \in Workers, CloseInterrupted(w)  PROVE  MarksEnds
  BY <1>9, <1>0, WorkerParts DEF CloseInterrupted, MarksEnds, Finishes, Cancels, IsDone,
     DoneStates, Marks, Runs, managed, At, Goto, Fail
<1>10. ASSUME NEW w \in Workers, Settled(w)  PROVE  MarksEnds
  BY <1>10, <1>0, WorkerParts DEF Settled, MarksEnds, Finishes, Cancels, IsDone, DoneStates,
     Marks, Runs, managed, At, Goto, Fail
<1>11. ASSUME NEW w \in Workers, TerminalPublished(w)  PROVE  MarksEnds
  BY <1>11, <1>0, WorkerParts DEF TerminalPublished, MarksEnds, Finishes, Cancels, IsDone,
     DoneStates, Marks, Runs, managed, At, Goto, Fail
<1>12. ASSUME NEW w \in Workers, WorkerInterrupted(w)  PROVE  MarksEnds
  BY <1>12, <1>0, WorkerParts DEF WorkerInterrupted, MarksEnds, Finishes, Cancels, IsDone,
     DoneStates, Marks, Runs, managed, At, Goto, Fail
<1>13. ASSUME NEW c \in Callers, CancelTask(c)  PROVE  MarksEnds
  <2>1. worker' = worker /\ \E op : \E todo \in SUBSET Tasks : CancelNext(c, op, todo)
    BY <1>13, <1>0, CancellerParts DEF CancelTask, Marks
  <2>2. PICK op : \E todo \in SUBSET Tasks : CancelNext(c, op, todo)  BY <2>1
  <2>3. PICK todo \in SUBSET Tasks : CancelNext(c, op, todo)  BY <2>2
  <2>4. /\ \A d \in Callers : d # c => call'[d] = call[d]
        /\ \/ call'[c].pc = "idle"
           \/ \E t \in Tasks : state' = [state EXCEPT ![t] = "cancelled"] /\ call'[c].task = t
    BY <1>0, <2>3, CancelEffect
  <2>5. \A d \in Callers, u \in Tasks : Cancels(d, u)' => Cancels(d, u) \/ IsDone(u)'
    BY <1>0, <2>4 DEF Cancels, IsDone, DoneStates, Marks
  <2> QED  BY <2>1, <2>5 DEF MarksEnds
<1>14. ASSUME NEW c \in Callers, CancelForSession(c)  PROVE  MarksEnds
  <2>1. worker' = worker /\ \E op : \E todo \in SUBSET Tasks : CancelNext(c, op, todo)
    BY <1>14, <1>0, CancellerParts DEF CancelForSession, Marks
  <2>2. PICK op : \E todo \in SUBSET Tasks : CancelNext(c, op, todo)  BY <2>1
  <2>3. PICK todo \in SUBSET Tasks : CancelNext(c, op, todo)  BY <2>2
  <2>4. /\ \A d \in Callers : d # c => call'[d] = call[d]
        /\ \/ call'[c].pc = "idle"
           \/ \E t \in Tasks : state' = [state EXCEPT ![t] = "cancelled"] /\ call'[c].task = t
    BY <1>0, <2>3, CancelEffect
  <2>5. \A d \in Callers, u \in Tasks : Cancels(d, u)' => Cancels(d, u) \/ IsDone(u)'
    BY <1>0, <2>4 DEF Cancels, IsDone, DoneStates, Marks
  <2> QED  BY <2>1, <2>5 DEF MarksEnds
<1>15. ASSUME NEW c \in Callers, WaitForTask(c)  PROVE  MarksEnds
  BY <1>15, <1>0 DEF WaitForTask, MarksEnds, Finishes, Cancels, Calls, Return, Idle, Waiting,
     managed, running
<1>16. ASSUME NEW c \in Callers, WaitForAny(c)  PROVE  MarksEnds
  BY <1>16, <1>0 DEF WaitForAny, MarksEnds, Finishes, Cancels, Calls, Return, Idle, Waiting,
     managed, running
<1>17. ASSUME NEW c \in Callers, WaitForAll(c)  PROVE  MarksEnds
  BY <1>17, <1>0 DEF WaitForAll, MarksEnds, Finishes, Cancels, Calls, Return, Idle, Waiting,
     managed, running
<1>18. ASSUME NEW c \in Callers, WorkerAwaited(c)  PROVE  MarksEnds
  BY <1>18, <1>0 DEF WorkerAwaited, MarksEnds, Finishes, Cancels, Calls, Return, Idle, Waiting,
     managed, running
<1>19. ASSUME NEW c \in Callers, CancelPublished(c)  PROVE  MarksEnds
  <2>1. worker' = worker /\ \E op : \E todo \in SUBSET Tasks : CancelNext(c, op, todo)
    BY <1>19, <1>0, CancellerParts DEF CancelPublished, Marks
  <2>2. PICK op : \E todo \in SUBSET Tasks : CancelNext(c, op, todo)  BY <2>1
  <2>3. PICK todo \in SUBSET Tasks : CancelNext(c, op, todo)  BY <2>2
  <2>4. /\ \A d \in Callers : d # c => call'[d] = call[d]
        /\ \/ call'[c].pc = "idle"
           \/ \E t \in Tasks : state' = [state EXCEPT ![t] = "cancelled"] /\ call'[c].task = t
    BY <1>0, <2>3, CancelEffect
  <2>5. \A d \in Callers, u \in Tasks : Cancels(d, u)' => Cancels(d, u) \/ IsDone(u)'
    BY <1>0, <2>4 DEF Cancels, IsDone, DoneStates, Marks
  <2> QED  BY <2>1, <2>5 DEF MarksEnds
<1>20. ASSUME NEW c \in Callers, WaitReturns(c)  PROVE  MarksEnds
  BY <1>20, <1>0 DEF WaitReturns, MarksEnds, Finishes, Cancels, Calls, Return, Idle, Waiting,
     managed, running
<1>21. ASSUME NEW c \in Callers, CancellerInterrupted(c)  PROVE  MarksEnds
  BY <1>21, <1>0 DEF CancellerInterrupted, MarksEnds, Finishes, Cancels, Calls, Return, Idle,
     Waiting, managed, running
<1>22. ASSUME NEW c \in Callers, WaitAbandoned(c)  PROVE  MarksEnds
  BY <1>22, <1>0 DEF WaitAbandoned, MarksEnds, Finishes, Cancels, Calls, Return, Idle, Waiting,
     managed, running
<1>23. ASSUME CleanupCompleted  PROVE  MarksEnds
  BY <1>23, <1>0 DEF CleanupCompleted, MarksEnds, Finishes, Cancels, managed, running
<1>24. ASSUME LoopShutdown  PROVE  MarksEnds
  BY <1>24, <1>0 DEF LoopShutdown, MarksEnds, Finishes, Cancels, managed, running
<1>25. ASSUME UNCHANGED vars  PROVE  MarksEnds
  BY <1>25, <1>0 DEF vars, MarksEnds, Finishes, Cancels
<1> QED
  BY <1>1, <1>2, <1>3, <1>4, <1>5, <1>6, <1>7, <1>8, <1>9, <1>10, <1>11, <1>12, <1>13, <1>14,
     <1>15, <1>16, <1>17, <1>18, <1>19, <1>20, <1>21, <1>22, <1>23, <1>24, <1>25 DEF Next,
     WorkerAdvances, CallerCalls, CallerAdvances, CallerLeaves

(* The table stays exact when no task is finished ...                      *)
LEMMA TableQuiet ==
    ASSUME Table, Advance, MarksEnds, registry \subseteq registry', terminal' = terminal,
           \A t \in Tasks : state'[t] \in {"pending", "running"} =>
               state[t] \in {"pending", "running"} \/ t \in registry',
           \A t \in registry' : IsDone(t)' /\ ~Finishing(t)' =>
               t \in registry /\ IsDone(t) /\ ~Finishing(t)
    PROVE  Table'
<1>1. \A w \in Workers : worker'[w] \in Finishes => IsDone(w[1])'
  BY WorkerParts DEF Table, Advance, MarksEnds, IsDone
<1>2. \A c \in Callers, t \in Tasks : Cancels(c, t)' => IsDone(t)'
  BY DEF Table, Advance, MarksEnds, IsDone
<1> QED  BY <1>1, <1>2 DEF Table

(* ... and when _finish_task runs.                                         *)
LEMMA TableFinish ==
    ASSUME TypeOK, Table, Advance, MarksEnds, NEW t \in Tasks, IsDone(t), Finish(t),
           \A u \in Tasks : state'[u] \in {"pending", "running"} =>
               state[u] \in {"pending", "running"},
           \A u \in Tasks : IsDone(u)' /\ ~Finishing(u)' => IsDone(u) /\ (u = t \/ ~Finishing(u))
    PROVE  Table'
<1>1. \A w \in Workers : worker'[w] \in Finishes => IsDone(w[1])'
  BY WorkerParts DEF Table, Advance, MarksEnds, IsDone
<1>2. \A c \in Callers, u \in Tasks : Cancels(c, u)' => IsDone(u)'
  BY DEF Table, Advance, MarksEnds, IsDone
<1>3. /\ registry' \subseteq registry /\ Len(terminal') <= MaxTerminal
      /\ \A u \in registry : ~IsDone(u) => u \in registry'
      /\ \A u \in registry' : (IsDone(u) /\ (u = t \/ u \in ToSet(terminal))) =>
             u \in ToSet(terminal')
  BY FinishLemma DEF Table
<1>4. \A u \in Tasks : state'[u] \in {"pending", "running"} => u \in registry'
  BY <1>3 DEF Table, IsDone, DoneStates
<1>5. \A u \in registry' : IsDone(u)' /\ ~Finishing(u)' => u \in ToSet(terminal')
  BY <1>3 DEF Table, TypeOK
<1> QED  BY <1>1, <1>2, <1>3, <1>4, <1>5 DEF Table

(* At first the table is empty.                                            *)
LEMMA InitTable == Init => Table
BY TaskAssumption DEF Init, Table, Finishes, Cancels, Idle

(* Every step keeps the table exact.                                       *)
LEMMA StepTable ==
    ASSUME TypeOK, Shape, Table, [Next]_vars
    PROVE  Table'
<1>0. Marks /\ Runs /\ Told /\ Calls /\ TypeOK /\ Shape /\ Table  BY TypeParts
<1>a. Advance /\ MarksEnds  BY StepAdvances, StepMarksEnds
<1>1. ASSUME NEW t \in Tasks, CreateTask(t)  PROVE  Table'
  <2>1. \A u \in registry' : IsDone(u)' /\ ~Finishing(u)' =>
            u \in registry /\ IsDone(u) /\ ~Finishing(u)
    BY <1>1, <1>0, WorkerParts DEF CreateTask, Finishing, IsDone, DoneStates, Marks, Runs,
       Calls, Launch, Startable, running
  <2>2. \A u \in Tasks : state'[u] \in {"pending", "running"} =>
            state[u] \in {"pending", "running"} \/ u \in registry'
    BY <1>1, <1>0, WorkerParts DEF CreateTask, Marks, DoneStates, Launch, Startable, running
  <2>3. registry \subseteq registry' /\ terminal' = terminal  BY <1>1 DEF CreateTask, managed
  <2> QED  BY <1>0, <1>a, <2>1, <2>2, <2>3, TableQuiet
<1>2. ASSUME NEW t \in Tasks, StartTask(t)  PROVE  Table'
  <2>1. Startable(t) => <<t, starts[t] + 1>> \in Workers /\ worker[<<t, starts[t] + 1>>] = "none"
    BY <1>0, CurrentLemma, WorkerParts DEF Startable, Shape
  <2>2. UNCHANGED <<registry, state, call, terminal>>  BY <1>2 DEF StartTask
  <2>3. \A u \in registry' : IsDone(u)' /\ ~Finishing(u)' =>
            u \in registry /\ IsDone(u) /\ ~Finishing(u)
    BY <1>2, <1>0, <2>1, <2>2 DEF StartTask, Launch, Finishing, IsDone, Runs
  <2> QED  BY <1>0, <1>a, <2>2, <2>3, TableQuiet
<1>3. ASSUME NEW t \in Tasks, CreatedPublished(t)  PROVE  Table'
  <2>1. Startable(t) => <<t, starts[t] + 1>> \in Workers /\ worker[<<t, starts[t] + 1>>] = "none"
    BY <1>0, CurrentLemma, WorkerParts DEF Startable, Shape
  <2>2. UNCHANGED <<registry, state, call, terminal>>  BY <1>3 DEF CreatedPublished
  <2>3. \A u \in registry' : IsDone(u)' /\ ~Finishing(u)' =>
            u \in registry /\ IsDone(u) /\ ~Finishing(u)
    BY <1>3, <1>0, <2>1, <2>2 DEF CreatedPublished, Launch, Finishing, IsDone, Runs
  <2> QED  BY <1>0, <1>a, <2>2, <2>3, TableQuiet
<1>4. ASSUME NEW t \in Tasks, CreatorInterrupted(t)  PROVE  Table'
  <2>1. \A u \in registry' : IsDone(u)' /\ ~Finishing(u)' =>
            u \in registry /\ IsDone(u) /\ ~Finishing(u)
    BY <1>4, <1>0, WorkerParts DEF CreatorInterrupted, Finishing, IsDone, DoneStates, Marks,
       Runs, Calls, Launch, Startable, running
  <2>2. \A u \in Tasks : state'[u] \in {"pending", "running"} =>
            state[u] \in {"pending", "running"} \/ u \in registry'
    BY <1>4, <1>0, WorkerParts DEF CreatorInterrupted, Marks, DoneStates, Launch, Startable,
       running
  <2>3. registry \subseteq registry' /\ terminal' = terminal
    BY <1>4 DEF CreatorInterrupted, managed
  <2> QED  BY <1>0, <1>a, <2>1, <2>2, <2>3, TableQuiet
<1>5. ASSUME NEW w \in Workers, Acquire(w)  PROVE  Table'
  <2>1. \A u \in registry' : IsDone(u)' /\ ~Finishing(u)' =>
            u \in registry /\ IsDone(u) /\ ~Finishing(u)
    BY <1>5, <1>0, WorkerParts DEF Acquire, Finishing, IsDone, DoneStates, Marks, Runs, Calls,
       managed, At, Goto, Fail
  <2>2. \A u \in Tasks : state'[u] \in {"pending", "running"} =>
            state[u] \in {"pending", "running"} \/ u \in registry'
    BY <1>5, <1>0, WorkerParts DEF Acquire, Marks, DoneStates, managed, At, Goto, Fail
  <2>3. registry \subseteq registry' /\ terminal' = terminal  BY <1>5 DEF Acquire, managed
  <2> QED  BY <1>0, <1>a, <2>1, <2>2, <2>3, TableQuiet
<1>6. ASSUME NEW w \in Workers, StartedPublished(w)  PROVE  Table'
  <2>1. \A u \in registry' : IsDone(u)' /\ ~Finishing(u)' =>
            u \in registry /\ IsDone(u) /\ ~Finishing(u)
    BY <1>6, <1>0, WorkerParts DEF StartedPublished, Finishing, IsDone, DoneStates, Marks, Runs,
       Calls, managed, At, Goto, Fail
  <2>2. \A u \in Tasks : state'[u] \in {"pending", "running"} =>
            state[u] \in {"pending", "running"} \/ u \in registry'
    BY <1>6, <1>0, WorkerParts DEF StartedPublished, Marks, DoneStates, managed, At, Goto, Fail
  <2>3. registry \subseteq registry' /\ terminal' = terminal
    BY <1>6 DEF StartedPublished, managed
  <2> QED  BY <1>0, <1>a, <2>1, <2>2, <2>3, TableQuiet
<1>7. ASSUME NEW w \in Workers, RunReturns(w)  PROVE  Table'
  <2>1. \A u \in registry' : IsDone(u)' /\ ~Finishing(u)' =>
            u \in registry /\ IsDone(u) /\ ~Finishing(u)
    BY <1>7, <1>0, WorkerParts DEF RunReturns, Finishing, IsDone, DoneStates, Marks, Runs,
       Calls, managed, At, Goto, Fail
  <2>2. \A u \in Tasks : state'[u] \in {"pending", "running"} =>
            state[u] \in {"pending", "running"} \/ u \in registry'
    BY <1>7, <1>0, WorkerParts DEF RunReturns, Marks, DoneStates, managed, At, Goto, Fail
  <2>3. registry \subseteq registry' /\ terminal' = terminal  BY <1>7 DEF RunReturns, managed
  <2> QED  BY <1>0, <1>a, <2>1, <2>2, <2>3, TableQuiet
<1>8. ASSUME NEW w \in Workers, AgentClosed(w)  PROVE  Table'
  <2>1. \A u \in registry' : IsDone(u)' /\ ~Finishing(u)' =>
            u \in registry /\ IsDone(u) /\ ~Finishing(u)
    BY <1>8, <1>0, WorkerParts DEF AgentClosed, Finishing, IsDone, DoneStates, Marks, Runs,
       Calls, managed, At, Goto, Fail
  <2>2. \A u \in Tasks : state'[u] \in {"pending", "running"} =>
            state[u] \in {"pending", "running"} \/ u \in registry'
    BY <1>8, <1>0, WorkerParts DEF AgentClosed, Marks, DoneStates, managed, At, Goto, Fail
  <2>3. registry \subseteq registry' /\ terminal' = terminal  BY <1>8 DEF AgentClosed, managed
  <2> QED  BY <1>0, <1>a, <2>1, <2>2, <2>3, TableQuiet
<1>9. ASSUME NEW w \in Workers, CloseInterrupted(w)  PROVE  Table'
  <2>1. \A u \in registry' : IsDone(u)' /\ ~Finishing(u)' =>
            u \in registry /\ IsDone(u) /\ ~Finishing(u)
    BY <1>9, <1>0, WorkerParts DEF CloseInterrupted, Finishing, IsDone, DoneStates, Marks, Runs,
       Calls, managed, At, Goto, Fail
  <2>2. \A u \in Tasks : state'[u] \in {"pending", "running"} =>
            state[u] \in {"pending", "running"} \/ u \in registry'
    BY <1>9, <1>0, WorkerParts DEF CloseInterrupted, Marks, DoneStates, managed, At, Goto, Fail
  <2>3. registry \subseteq registry' /\ terminal' = terminal
    BY <1>9 DEF CloseInterrupted, managed
  <2> QED  BY <1>0, <1>a, <2>1, <2>2, <2>3, TableQuiet
<1>10. ASSUME NEW w \in Workers, Settled(w)  PROVE  Table'
  <2>1. \A u \in registry' : IsDone(u)' /\ ~Finishing(u)' =>
            u \in registry /\ IsDone(u) /\ ~Finishing(u)
    BY <1>10, <1>0, WorkerParts DEF Settled, Finishing, IsDone, DoneStates, Marks, Runs, Calls,
       managed, At, Goto, Fail
  <2>2. \A u \in Tasks : state'[u] \in {"pending", "running"} =>
            state[u] \in {"pending", "running"} \/ u \in registry'
    BY <1>10, <1>0, WorkerParts DEF Settled, Marks, DoneStates, managed, At, Goto, Fail
  <2>3. registry \subseteq registry' /\ terminal' = terminal  BY <1>10 DEF Settled, managed
  <2> QED  BY <1>0, <1>a, <2>1, <2>2, <2>3, TableQuiet
<1>11. ASSUME NEW w \in Workers, TerminalPublished(w)  PROVE  Table'
  <2>1. /\ worker[w] \in Finishes /\ Finish(w[1]) /\ w[1] \in Tasks /\ UNCHANGED <<state, call>>
        /\ \A v \in Workers : v # w => worker'[v] = worker[v]
    BY <1>11, <1>0, WorkerParts DEF TerminalPublished, Goto, Runs, Finishes
  <2>2. IsDone(w[1])  BY <1>0, <2>1 DEF Table
  <2>3. \A u \in Tasks : IsDone(u)' /\ ~Finishing(u)' => IsDone(u) /\ (u = w[1] \/ ~Finishing(u))
    BY <2>1 DEF Finishing, IsDone
  <2> QED  BY <1>0, <1>a, <2>1, <2>2, <2>3, TableFinish
<1>12. ASSUME NEW w \in Workers, WorkerInterrupted(w)  PROVE  Table'
  <2>1. \A u \in registry' : IsDone(u)' /\ ~Finishing(u)' =>
            u \in registry /\ IsDone(u) /\ ~Finishing(u)
    BY <1>12, <1>0, WorkerParts DEF WorkerInterrupted, Finishing, IsDone, DoneStates, Marks,
       Runs, Calls, managed, At, Goto, Fail
  <2>2. \A u \in Tasks : state'[u] \in {"pending", "running"} =>
            state[u] \in {"pending", "running"} \/ u \in registry'
    BY <1>12, <1>0, WorkerParts DEF WorkerInterrupted, Marks, DoneStates, managed, At, Goto,
       Fail
  <2>3. registry \subseteq registry' /\ terminal' = terminal
    BY <1>12 DEF WorkerInterrupted, managed
  <2> QED  BY <1>0, <1>a, <2>1, <2>2, <2>3, TableQuiet
<1>13. ASSUME NEW c \in Callers, CancelTask(c)  PROVE  Table'
  <2>1. UNCHANGED <<registry, worker, terminal>> /\ call[c].pc = "idle"
        /\ \E op : \E todo \in SUBSET Tasks : CancelNext(c, op, todo)
    BY <1>13, <1>0, CancellerParts DEF CancelTask, Marks
  <2>2. PICK op : \E todo \in SUBSET Tasks : CancelNext(c, op, todo)  BY <2>1
  <2>3. PICK todo \in SUBSET Tasks : CancelNext(c, op, todo)  BY <2>2
  <2>4. /\ \A d \in Callers : d # c => call'[d] = call[d]
        /\ \/ state' = state
           \/ \E t \in Tasks : /\ state' = [state EXCEPT ![t] = "cancelled"] /\ call'[c].task = t
                             /\ call'[c].pc \in {"worker", "event"}
    BY <1>0, <2>3, CancelEffect
  <2>5. \A u \in registry' : IsDone(u)' /\ ~Finishing(u)' =>
            u \in registry /\ IsDone(u) /\ ~Finishing(u)
    BY <1>0, <2>1, <2>4 DEF Finishing, IsDone, Marks
  <2>6. \A u \in Tasks : state'[u] \in {"pending", "running"} => state[u] \in {"pending", "running"}
    BY <1>0, <2>4 DEF Marks
  <2> QED  BY <1>0, <1>a, <2>1, <2>5, <2>6, TableQuiet
<1>14. ASSUME NEW c \in Callers, CancelForSession(c)  PROVE  Table'
  <2>1. UNCHANGED <<registry, worker, terminal>> /\ call[c].pc = "idle"
        /\ \E op : \E todo \in SUBSET Tasks : CancelNext(c, op, todo)
    BY <1>14, <1>0, CancellerParts DEF CancelForSession, Marks
  <2>2. PICK op : \E todo \in SUBSET Tasks : CancelNext(c, op, todo)  BY <2>1
  <2>3. PICK todo \in SUBSET Tasks : CancelNext(c, op, todo)  BY <2>2
  <2>4. /\ \A d \in Callers : d # c => call'[d] = call[d]
        /\ \/ state' = state
           \/ \E t \in Tasks : /\ state' = [state EXCEPT ![t] = "cancelled"] /\ call'[c].task = t
                             /\ call'[c].pc \in {"worker", "event"}
    BY <1>0, <2>3, CancelEffect
  <2>5. \A u \in registry' : IsDone(u)' /\ ~Finishing(u)' =>
            u \in registry /\ IsDone(u) /\ ~Finishing(u)
    BY <1>0, <2>1, <2>4 DEF Finishing, IsDone, Marks
  <2>6. \A u \in Tasks : state'[u] \in {"pending", "running"} => state[u] \in {"pending", "running"}
    BY <1>0, <2>4 DEF Marks
  <2> QED  BY <1>0, <1>a, <2>1, <2>5, <2>6, TableQuiet
<1>15. ASSUME NEW c \in Callers, WaitForTask(c)  PROVE  Table'
  <2>1. \A u \in registry' : IsDone(u)' /\ ~Finishing(u)' =>
            u \in registry /\ IsDone(u) /\ ~Finishing(u)
    BY <1>15, <1>0, WorkerParts DEF WaitForTask, Finishing, IsDone, DoneStates, Marks, Runs,
       Calls, Return, Idle, Waiting, managed, running
  <2>2. \A u \in Tasks : state'[u] \in {"pending", "running"} =>
            state[u] \in {"pending", "running"} \/ u \in registry'
    BY <1>15, <1>0, WorkerParts DEF WaitForTask, Marks, DoneStates, Return, Idle, Waiting,
       managed, running
  <2>3. registry \subseteq registry' /\ terminal' = terminal  BY <1>15 DEF WaitForTask, managed
  <2> QED  BY <1>0, <1>a, <2>1, <2>2, <2>3, TableQuiet
<1>16. ASSUME NEW c \in Callers, WaitForAny(c)  PROVE  Table'
  <2>1. \A u \in registry' : IsDone(u)' /\ ~Finishing(u)' =>
            u \in registry /\ IsDone(u) /\ ~Finishing(u)
    BY <1>16, <1>0, WorkerParts DEF WaitForAny, Finishing, IsDone, DoneStates, Marks, Runs,
       Calls, Return, Idle, Waiting, managed, running
  <2>2. \A u \in Tasks : state'[u] \in {"pending", "running"} =>
            state[u] \in {"pending", "running"} \/ u \in registry'
    BY <1>16, <1>0, WorkerParts DEF WaitForAny, Marks, DoneStates, Return, Idle, Waiting,
       managed, running
  <2>3. registry \subseteq registry' /\ terminal' = terminal  BY <1>16 DEF WaitForAny, managed
  <2> QED  BY <1>0, <1>a, <2>1, <2>2, <2>3, TableQuiet
<1>17. ASSUME NEW c \in Callers, WaitForAll(c)  PROVE  Table'
  <2>1. \A u \in registry' : IsDone(u)' /\ ~Finishing(u)' =>
            u \in registry /\ IsDone(u) /\ ~Finishing(u)
    BY <1>17, <1>0, WorkerParts DEF WaitForAll, Finishing, IsDone, DoneStates, Marks, Runs,
       Calls, Return, Idle, Waiting, managed, running
  <2>2. \A u \in Tasks : state'[u] \in {"pending", "running"} =>
            state[u] \in {"pending", "running"} \/ u \in registry'
    BY <1>17, <1>0, WorkerParts DEF WaitForAll, Marks, DoneStates, Return, Idle, Waiting,
       managed, running
  <2>3. registry \subseteq registry' /\ terminal' = terminal  BY <1>17 DEF WaitForAll, managed
  <2> QED  BY <1>0, <1>a, <2>1, <2>2, <2>3, TableQuiet
<1>18. ASSUME NEW c \in Callers, WorkerAwaited(c)  PROVE  Table'
  <2>1. \A u \in registry' : IsDone(u)' /\ ~Finishing(u)' =>
            u \in registry /\ IsDone(u) /\ ~Finishing(u)
    BY <1>18, <1>0, WorkerParts DEF WorkerAwaited, Finishing, IsDone, DoneStates, Marks, Runs,
       Calls, Return, Idle, Waiting, managed, running
  <2>2. \A u \in Tasks : state'[u] \in {"pending", "running"} =>
            state[u] \in {"pending", "running"} \/ u \in registry'
    BY <1>18, <1>0, WorkerParts DEF WorkerAwaited, Marks, DoneStates, Return, Idle, Waiting,
       managed, running
  <2>3. registry \subseteq registry' /\ terminal' = terminal
    BY <1>18 DEF WorkerAwaited, managed
  <2> QED  BY <1>0, <1>a, <2>1, <2>2, <2>3, TableQuiet
<1>19. ASSUME NEW c \in Callers, CancelPublished(c)  PROVE  Table'
  <2>1. UNCHANGED worker /\ call[c].pc = "event" /\ Finish(call[c].task)
        /\ \E op : \E todo \in SUBSET Tasks : CancelNext(c, op, todo)
    BY <1>19, <1>0, CancellerParts DEF CancelPublished
  <2>2. PICK op : \E todo \in SUBSET Tasks : CancelNext(c, op, todo)  BY <2>1
  <2>3. PICK todo \in SUBSET Tasks : CancelNext(c, op, todo)  BY <2>2
  <2>4. /\ \A d \in Callers : d # c => call'[d] = call[d]
        /\ \/ state' = state
           \/ \E t \in Tasks : /\ state' = [state EXCEPT ![t] = "cancelled"] /\ call'[c].task = t
                             /\ call'[c].pc \in {"worker", "event"}
    BY <1>0, <2>3, CancelEffect
  <2>5. call[c].task \in Tasks /\ IsDone(call[c].task)
    BY <1>0, <2>1, CancellerParts DEF Table, Cancels
  <2>6. \A u \in Tasks : IsDone(u)' /\ ~Finishing(u)' =>
            IsDone(u) /\ (u = call[c].task \/ ~Finishing(u))
    BY <1>0, <2>1, <2>4 DEF Finishing, IsDone, Marks
  <2>7. \A u \in Tasks : state'[u] \in {"pending", "running"} => state[u] \in {"pending", "running"}
    BY <1>0, <2>4 DEF Marks
  <2> QED  BY <1>0, <1>a, <2>1, <2>5, <2>6, <2>7, TableFinish
<1>20. ASSUME NEW c \in Callers, WaitReturns(c)  PROVE  Table'
  <2>1. \A u \in registry' : IsDone(u)' /\ ~Finishing(u)' =>
            u \in registry /\ IsDone(u) /\ ~Finishing(u)
    BY <1>20, <1>0, WorkerParts DEF WaitReturns, Finishing, IsDone, DoneStates, Marks, Runs,
       Calls, Return, Idle, Waiting, managed, running
  <2>2. \A u \in Tasks : state'[u] \in {"pending", "running"} =>
            state[u] \in {"pending", "running"} \/ u \in registry'
    BY <1>20, <1>0, WorkerParts DEF WaitReturns, Marks, DoneStates, Return, Idle, Waiting,
       managed, running
  <2>3. registry \subseteq registry' /\ terminal' = terminal  BY <1>20 DEF WaitReturns, managed
  <2> QED  BY <1>0, <1>a, <2>1, <2>2, <2>3, TableQuiet
<1>21. ASSUME NEW c \in Callers, CancellerInterrupted(c)  PROVE  Table'
  <2>1. CASE call[c].pc = "worker"
    <3>1. UNCHANGED <<registry, state, worker, terminal, call>>
      BY <1>21, <2>1 DEF CancellerInterrupted, managed
    <3> QED  BY <1>0, <3>1 DEF Table, Finishing, IsDone, Cancels
  <2>2. CASE call[c].pc = "event"
    <3>1. UNCHANGED <<state, worker>> /\ Finish(call[c].task) /\ call' = [call EXCEPT ![c] = Idle]
      BY <1>21, <2>2 DEF CancellerInterrupted, running, Return
    <3>2. call[c].task \in Tasks /\ IsDone(call[c].task)
      BY <1>0, <2>2, CancellerParts DEF Table, Cancels
    <3>3. \A d \in Callers : d # c => call'[d] = call[d]  BY <1>0, <3>1 DEF Calls
    <3>4. \A u \in Tasks : IsDone(u)' /\ ~Finishing(u)' =>
              IsDone(u) /\ (u = call[c].task \/ ~Finishing(u))
      BY <2>2, <3>1, <3>3 DEF Finishing, IsDone
    <3> QED  BY <1>0, <1>a, <3>1, <3>2, <3>4, TableFinish
  <2> QED  BY <1>21, <2>1, <2>2 DEF CancellerInterrupted
<1>22. ASSUME NEW c \in Callers, WaitAbandoned(c)  PROVE  Table'
  <2>1. \A u \in registry' : IsDone(u)' /\ ~Finishing(u)' =>
            u \in registry /\ IsDone(u) /\ ~Finishing(u)
    BY <1>22, <1>0, WorkerParts DEF WaitAbandoned, Finishing, IsDone, DoneStates, Marks, Runs,
       Calls, Return, Idle, Waiting, managed, running
  <2>2. \A u \in Tasks : state'[u] \in {"pending", "running"} =>
            state[u] \in {"pending", "running"} \/ u \in registry'
    BY <1>22, <1>0, WorkerParts DEF WaitAbandoned, Marks, DoneStates, Return, Idle, Waiting,
       managed, running
  <2>3. registry \subseteq registry' /\ terminal' = terminal
    BY <1>22 DEF WaitAbandoned, managed
  <2> QED  BY <1>0, <1>a, <2>1, <2>2, <2>3, TableQuiet
<1>23. ASSUME CleanupCompleted  PROVE  Table'
  <2>1. UNCHANGED <<state, worker, call>>  BY <1>23 DEF CleanupCompleted, running
  <2>2. PICK old \in SUBSET {t \in registry : IsDone(t)} \ {{}} :
          /\ registry' = registry \ old
          /\ \E n \in 0 .. Len(terminal) : \E at \in [1 .. n -> DOMAIN terminal] :
               /\ \A i, j \in 1 .. n : i < j => at[i] < at[j]
               /\ \A k \in DOMAIN terminal : terminal[k] \notin old <=> \E i \in 1 .. n : at[i] = k
               /\ terminal' = [i \in 1 .. n |-> terminal[at[i]]]
    BY <1>23, Zenon DEF CleanupCompleted
  <2>3. PICK n \in 0 .. Len(terminal) : \E at \in [1 .. n -> DOMAIN terminal] :
               /\ \A k \in DOMAIN terminal : terminal[k] \notin old <=> \E i \in 1 .. n : at[i] = k
               /\ terminal' = [i \in 1 .. n |-> terminal[at[i]]]
    BY <2>2
  <2>4. PICK at \in [1 .. n -> DOMAIN terminal] :
               /\ \A k \in DOMAIN terminal : terminal[k] \notin old <=> \E i \in 1 .. n : at[i] = k
               /\ terminal' = [i \in 1 .. n |-> terminal[at[i]]]
    BY <2>3
  <2>5. Len(terminal) \in Nat /\ n \in Nat /\ Len(terminal') = n /\ DOMAIN terminal' = 1 .. n
    BY <1>0, <2>3, <2>4 DEF Told
  <2>6. Len(terminal') <= MaxTerminal
    BY <1>0, <2>3, <2>5, TaskAssumption DEF Table
  <2>7. ASSUME NEW u \in registry', IsDone(u), ~Finishing(u)  PROVE  u \in ToSet(terminal')
    <3>1. u \in ToSet(terminal) /\ u \notin old  BY <1>0, <2>2, <2>7 DEF Table
    <3>2. PICK k \in DOMAIN terminal : terminal[k] = u  BY <3>1 DEF ToSet
    <3>3. PICK i \in 1 .. n : at[i] = k  BY <2>4, <3>1, <3>2
    <3>4. terminal'[i] = u /\ i \in DOMAIN terminal'  BY <2>4, <2>5, <3>2, <3>3
    <3> QED  BY <3>4 DEF ToSet
  <2>8. \A u \in registry' : IsDone(u)' /\ ~Finishing(u)' => u \in ToSet(terminal')
    BY <2>1, <2>7 DEF IsDone, Finishing
  <2>9. \A u \in Tasks : state'[u] \in {"pending", "running"} => u \in registry'
    BY <1>0, <2>1, <2>2 DEF Table, IsDone, DoneStates
  <2>a. \A v \in Workers : worker'[v] \in Finishes => IsDone(v[1])'
    BY <1>0, <2>1 DEF Table, IsDone
  <2>b. \A d \in Callers, u \in Tasks : Cancels(d, u)' => IsDone(u)'
    BY <1>0, <2>1 DEF Table, IsDone, Cancels
  <2> QED  BY <2>6, <2>8, <2>9, <2>a, <2>b DEF Table
<1>24. ASSUME LoopShutdown  PROVE  Table'
  <2>1. \A u \in registry' : IsDone(u)' /\ ~Finishing(u)' =>
            u \in registry /\ IsDone(u) /\ ~Finishing(u)
    BY <1>24, <1>0, WorkerParts DEF LoopShutdown, Finishing, IsDone, DoneStates, Marks, Runs,
       Calls, managed
  <2>2. \A u \in Tasks : state'[u] \in {"pending", "running"} =>
            state[u] \in {"pending", "running"} \/ u \in registry'
    BY <1>24, <1>0, WorkerParts DEF LoopShutdown, Marks, DoneStates, managed
  <2>3. registry \subseteq registry' /\ terminal' = terminal  BY <1>24 DEF LoopShutdown, managed
  <2> QED  BY <1>0, <1>a, <2>1, <2>2, <2>3, TableQuiet
<1>25. ASSUME UNCHANGED vars  PROVE  Table'
  BY <1>25, <1>0 DEF vars, Table, IsDone, Cancels, Finishing
<1> QED
  BY <1>1, <1>2, <1>3, <1>4, <1>5, <1>6, <1>7, <1>8, <1>9, <1>10, <1>11, <1>12, <1>13, <1>14,
     <1>15, <1>16, <1>17, <1>18, <1>19, <1>20, <1>21, <1>22, <1>23, <1>24, <1>25 DEF Next,
     WorkerAdvances, CallerCalls, CallerAdvances, CallerLeaves

-----------------------------------------------------------------------------
(* The first outcome *)

(* A task that is not done has no end announced or under way.              *)
LEMMA NotYet ==
    ASSUME Table, NEW t \in Tasks, ~IsDone(t), EndsOnce(t)
    PROVE  /\ \A w \in Workers : w[1] = t => worker[w] \notin Finishes
           /\ \A c \in Callers : ~Cancels(c, t)
           /\ \A i \in DOMAIN published[t] : published[t][i] \notin DoneStates
BY DEF Table, EndsOnce, Announced, IsDone

(* A task of which nothing has ended satisfies what is said of ends.       *)
LEMMA EndsNotYet ==
    ASSUME NEW t \in Tasks, ~IsDone(t)', UNCHANGED <<worker, call, published>>,
           \A w \in Workers : w[1] = t => worker[w] \notin Finishes,
           \A c \in Callers : ~Cancels(c, t),
           \A i \in DOMAIN published[t] : published[t][i] \notin DoneStates
    PROVE  EndsOnce(t)'
<1>1. \A c \in Callers : ~Cancels(c, t)'  BY DEF Cancels
<1> QED  BY <1>1 DEF EndsOnce, Announced

(* What a step does not disturb.                                           *)
LEMMA EndsUntouched ==
    ASSUME NEW t \in Tasks, EndsOnce(t), state'[t] = state[t], published'[t] = published[t],
           creating'[t] \in {"no", creating[t]},
           \A w \in Workers : w[1] = t => worker'[w] = worker[w] /\ outcome'[w] = outcome[w]
                                        /\ (w \in interrupted => w \in interrupted'),
           \A c \in Callers : Cancels(c, t)' => Cancels(c, t) /\ call'[c].pc = call[c].pc
    PROVE  EndsOnce(t)'
<1>1. \A w \in Workers : (w[1] = t /\ Stopped(w)) => Stopped(w)'  BY DEF Stopped
<1>2. \A w \in Workers : w[1] = t => TerminalEvent(w)' = TerminalEvent(w)  BY DEF TerminalEvent
<1>3. IsDone(t)' => IsDone(t)  BY DEF IsDone
<1>4. IsDone(t)' => \A w \in Workers : w[1] = t => Stopped(w)'  BY <1>1, <1>3 DEF EndsOnce
<1>5. \A w \in Workers : (w[1] = t /\ worker'[w] \in Finishes) =>
          state'[t] = TerminalEvent(w)' /\ \A c \in Callers : ~Cancels(c, t)'
  BY <1>2 DEF EndsOnce
<1>6. \A c \in Callers : Cancels(c, t)' =>
          /\ state'[t] = "cancelled"
          /\ call'[c].pc = "event" => \A w \in Workers : w[1] = t => worker'[w] \in Over
          /\ \A d \in Callers : Cancels(d, t)' => c = d
  BY DEF EndsOnce
<1>7. Announced(t)'  BY DEF EndsOnce, Announced
<1> QED  BY <1>4, <1>5, <1>6, <1>7 DEF EndsOnce

(* The worker of a task started once.                                      *)
LEMMA OneWorker ==
    ASSUME Marks, Shape, NEW v \in Workers, NEW w \in Workers, v[1] = w[1], starts[v[1]] <= 1,
           worker[v] # "none", worker[w] # "none"
    PROVE  v = w
<1>1. v[1] \in Tasks /\ v[2] \in Nat /\ v[2] >= 1 /\ w[2] \in Nat /\ w[2] >= 1
  BY WorkerParts, TaskAssumption
<1>2. starts[v[1]] \in Nat  BY <1>1, CurrentLemma
<1>3. ~(v[2] > starts[v[1]]) /\ ~(w[2] > starts[v[1]])  BY DEF Shape
<1>4. v[2] = w[2]  BY <1>1, <1>2, <1>3
<1> QED  BY <1>4, WorkerParts

(* A task without a live worker has only workers that are over.            *)
LEMMA NotAwaited ==
    ASSUME Marks, Shape, NEW t \in Tasks, starts[t] <= 1, ~Awaited(t)
    PROVE  \A w \in Workers : w[1] = t => worker[w] \in Over
<1> SUFFICES ASSUME NEW w \in Workers, w[1] = t, worker[w] # "none"  PROVE  worker[w] = "ended"
  BY DEF Over
<1>1. starts[t] > 0  BY NoneAbsent
<1>2. Current(t) \in Workers /\ Current(t)[1] = t /\ Current(t)[2] = starts[t] /\ starts[t] \in Nat
  BY <1>1, CurrentLemma
<1>3. worker[Current(t)] = "ended"  BY <1>1 DEF Awaited
<1>4. w = Current(t)  BY <1>2, <1>3, OneWorker
<1> QED  BY <1>3, <1>4

(* What is known of the task of a live worker.                             *)
LEMMA OwnFacts ==
    ASSUME Table, NEW w \in Workers, worker[w] \notin Over, EndsOnce(w[1])
    PROVE  /\ IsDone(w[1]) => Stopped(w)
           /\ worker[w] \in Finishes =>
                  state[w[1]] = TerminalEvent(w) /\ \A c \in Callers : ~Cancels(c, w[1])
           /\ \A c \in Callers : Cancels(c, w[1]) => state[w[1]] = "cancelled"
           /\ \A i \in DOMAIN published[w[1]] : published[w[1]][i] \notin DoneStates
           /\ ~IsDone(w[1]) => \A c \in Callers : ~Cancels(c, w[1])
<1>1. w[1] \in Tasks  BY WorkerParts
<1>2. IsDone(w[1]) => Stopped(w)  BY DEF EndsOnce
<1>3. worker[w] \in Finishes =>
          state[w[1]] = TerminalEvent(w) /\ \A c \in Callers : ~Cancels(c, w[1])
  BY DEF EndsOnce
<1>4. \A c \in Callers : Cancels(c, w[1]) => state[w[1]] = "cancelled"  BY DEF EndsOnce
<1>5. \A i \in DOMAIN published[w[1]] : published[w[1]][i] \notin DoneStates
  BY DEF EndsOnce, Announced
<1>6. ~IsDone(w[1]) => \A c \in Callers : ~Cancels(c, w[1])  BY <1>1 DEF Table
<1> QED  BY <1>2, <1>3, <1>4, <1>5, <1>6

(* A step of one worker.                                                   *)
OnlyOf(w) ==
    /\ \A t \in Tasks : t # w[1] => state'[t] = state[t] /\ published'[t] = published[t]
    /\ \A v \in Workers : v # w => worker'[v] = worker[v] /\ outcome'[v] = outcome[v]
                                 /\ (v \in interrupted => v \in interrupted')
    /\ UNCHANGED <<call, creating, starts>>

(* What a step of a worker has to leave of its task.                       *)
EndsWell(w) ==
    /\ IsDone(w[1])' => Stopped(w)'
    /\ worker'[w] \in Finishes =>
           state'[w[1]] = TerminalEvent(w)' /\ \A c \in Callers : ~Cancels(c, w[1])
    /\ \A c \in Callers : Cancels(c, w[1]) => state'[w[1]] = "cancelled"
    /\ \A i \in DOMAIN published'[w[1]] : published'[w[1]][i] \in DoneStates =>
          /\ i = Len(published'[w[1]]) /\ published'[w[1]][i] = state'[w[1]]
                 /\ creating[w[1]] = "no"
          /\ \A c \in Callers : ~Cancels(c, w[1])
          /\ worker'[w] \in Over

(* A step of a worker disturbs its own task only.                          *)
LEMMA EndsOfOwn ==
    ASSUME Marks, Shape, First, NEW w \in Workers, OnlyOf(w), worker[w] \notin Over,
           starts[w[1]] <= 1 => EndsWell(w)
    PROVE  First'
<1>1. w[1] \in Tasks /\ starts' = starts /\ creating' = creating  BY WorkerParts DEF OnlyOf
<1>2. \A c \in Callers, t \in Tasks : Cancels(c, t)' <=> Cancels(c, t)  BY DEF OnlyOf, Cancels
<1>3. \A c \in Callers : call'[c].pc = call[c].pc  BY DEF OnlyOf
<1>4. ASSUME NEW t \in Tasks, t # w[1], starts[t] <= 1  PROVE  EndsOnce(t)'
  <2>1. EndsOnce(t)  BY <1>4 DEF First
  <2>2. \A v \in Workers : v[1] = t => worker'[v] = worker[v] /\ outcome'[v] = outcome[v]
                                      /\ (v \in interrupted => v \in interrupted')
    BY <1>4 DEF OnlyOf
  <2>3. state'[t] = state[t] /\ published'[t] = published[t]  BY <1>4 DEF OnlyOf
  <2> QED  BY <1>1, <1>2, <1>3, <2>1, <2>2, <2>3, EndsUntouched
<1>5. ASSUME starts[w[1]] <= 1  PROVE  EndsOnce(w[1])'
  <2>0. EndsWell(w)  BY <1>5
  <2>1. \A v \in Workers : (v # w /\ v[1] = w[1]) => worker'[v] = "none"
    <3>1. worker[w] # "none"  BY DEF Over
    <3> QED  BY <1>5, <2>0, <3>1, OneWorker DEF OnlyOf, EndsWell
  <2>2. EndsOnce(w[1])  BY <1>1, <1>5, <2>0 DEF First, EndsWell
  <2>3. IsDone(w[1])' => \A v \in Workers : v[1] = w[1] => Stopped(v)'
    BY <1>5, <2>0, <2>1 DEF Stopped, Over, EndsWell
  <2>4. \A v \in Workers : (v[1] = w[1] /\ worker'[v] \in Finishes) =>
          state'[w[1]] = TerminalEvent(v)' /\ \A c \in Callers : ~Cancels(c, w[1])'
    <3>1. \A v \in Workers : (v[1] = w[1] /\ worker'[v] \in Finishes) => v = w
      BY <2>1 DEF Finishes
    <3>2. worker'[w] \in Finishes => \A c \in Callers : ~Cancels(c, w[1])'
      BY <1>1, <1>2, <1>5, <2>0 DEF EndsWell
    <3> QED  BY <1>5, <2>0, <3>1, <3>2 DEF EndsWell
  <2>5. \A c \in Callers : Cancels(c, w[1])' =>
          /\ state'[w[1]] = "cancelled"
          /\ call'[c].pc = "event" => \A v \in Workers : v[1] = w[1] => worker'[v] \in Over
          /\ \A d \in Callers : Cancels(d, w[1])' => c = d
    <3> SUFFICES ASSUME NEW c \in Callers, Cancels(c, w[1])'
                 PROVE  /\ state'[w[1]] = "cancelled"
                        /\ call'[c].pc # "event"
                        /\ \A d \in Callers : Cancels(d, w[1])' => c = d
      OBVIOUS
    <3>1. Cancels(c, w[1])  BY <1>1, <1>2
    <3>2. call[c].pc # "event"  BY <2>2, <3>1 DEF EndsOnce
    <3>3. \A d \in Callers : Cancels(d, w[1])' => c = d  BY <1>1, <1>2, <2>2, <3>1 DEF EndsOnce
    <3> QED  BY <1>3, <1>5, <2>0, <3>1, <3>2, <3>3 DEF EndsWell
  <2>6. Announced(w[1])'
    <3>1. \A i \in DOMAIN published'[w[1]] : published'[w[1]][i] \in DoneStates =>
            \A v \in Workers : v[1] = w[1] => worker'[v] \in Over
      BY <1>5, <2>0, <2>1 DEF Over, EndsWell
    <3>2. \A c \in Callers : ~Cancels(c, w[1]) => ~Cancels(c, w[1])'  BY <1>1, <1>2
    <3>3. \A i \in DOMAIN published'[w[1]] : published'[w[1]][i] \in DoneStates =>
                     /\ i = Len(published'[w[1]]) /\ published'[w[1]][i] = state'[w[1]]
                            /\ creating'[w[1]] = "no"
                     /\ \A c \in Callers : ~Cancels(c, w[1])'
      BY <1>1, <1>5, <2>0, <3>2 DEF EndsWell
    <3> QED  BY <3>1, <3>3 DEF Announced
  <2> QED  BY <2>3, <2>4, <2>5, <2>6 DEF EndsOnce
<1> QED  BY <1>1, <1>4, <1>5 DEF First

(* A task that has no end announced, whose workers are over if it is done. *)
LEMMA EndsUnstarted ==
    ASSUME NEW t \in Tasks, EndsOnce(t), UNCHANGED state,
           \A c \in Callers : Cancels(c, t)' => Cancels(c, t),
           \A i \in DOMAIN published'[t] : published'[t][i] \notin DoneStates,
           \A w \in Workers : w[1] = t => worker'[w] \notin Finishes /\ (IsDone(t) =>
               worker'[w] \in Over)
    PROVE  EndsOnce(t)'
<1>1. IsDone(t)' <=> IsDone(t)  BY DEF IsDone
<1>2. IsDone(t)' => \A w \in Workers : w[1] = t => Stopped(w)'  BY <1>1 DEF Stopped
<1>3. \A c \in Callers : Cancels(c, t)' =>
          /\ state'[t] = "cancelled"
          /\ call'[c].pc = "event" => \A w \in Workers : w[1] = t => worker'[w] \in Over
          /\ \A d \in Callers : Cancels(d, t)' => c = d
  <2>1. \A c \in Callers : Cancels(c, t) =>
            state[t] = "cancelled" /\ \A d \in Callers : Cancels(d, t) => c = d
    BY DEF EndsOnce
  <2>2. state[t] = "cancelled" => IsDone(t)  BY DEF IsDone, DoneStates
  <2> QED  BY <2>1, <2>2
<1>4. Announced(t)'  BY DEF Announced
<1> QED  BY <1>2, <1>3, <1>4 DEF EndsOnce

(* Starting a task ends nothing.                                           *)
LEMMA EndsLaunched ==
    ASSUME Marks, Runs, Table, First, NEW t \in Tasks, Startable(t), Launch(t),
           UNCHANGED <<published, state, call, outcome, interrupted, creating>>
    PROVE  First'
<1>1. \A u \in Tasks : u # t => starts'[u] = starts[u]  BY DEF Launch, Marks
<1>2. starts'[t] = starts[t] + 1 /\ starts[t] \in Nat  BY CurrentLemma DEF Launch, Marks
<1>3. <<t, starts[t] + 1>> \in Workers /\ <<t, starts[t] + 1>>[1] = t
  BY CurrentLemma, WorkerParts DEF Startable
<1>4. \A u \in Tasks : \A c \in Callers : Cancels(c, u)' <=> Cancels(c, u)  BY DEF Cancels
<1>5. ASSUME NEW u \in Tasks, u # t, EndsOnce(u)  PROVE  EndsOnce(u)'
  <2>1. \A w \in Workers : w[1] = u => worker'[w] = worker[w]  BY <1>3, <1>5 DEF Launch, Runs
  <2> QED  BY <1>4, <1>5, <2>1, EndsUntouched
<1>6. ASSUME EndsOnce(t)  PROVE  EndsOnce(t)'
  <2>1. ~IsDone(t)  BY DEF Startable, IsDone, DoneStates
  <2>2. \A w \in Workers : worker'[w] \in {worker[w], "acquire"}  BY <1>3 DEF Launch, Runs
  <2>3. /\ \A w \in Workers : w[1] = t => worker'[w] \notin Finishes
        /\ \A i \in DOMAIN published[t] : published[t][i] \notin DoneStates
    BY <1>6, <2>1, <2>2, NotYet DEF Finishes
  <2> QED  BY <1>4, <1>6, <2>1, <2>3, EndsUnstarted
<1> QED  BY <1>1, <1>2, <1>5, <1>6 DEF First

(* A canceller goes on to its next task.                                   *)
LEMMA EndsCancelled ==
    ASSUME Marks, Runs, Calls, Shape, Table, NEW c \in Callers, NEW op, NEW todo \in SUBSET Tasks,
           CancelNext(c, op, todo), UNCHANGED <<worker, outcome, creating>>,
           NEW t \in Tasks,
           EndsOnce(t), starts[t] <= 1, ~Cancels(c, t), published'[t] = published[t]
    PROVE  EndsOnce(t)'
<1>1. \A d \in Callers : d # c => call'[d] = call[d]  BY CancelEffect
<1>2. \A d \in Callers : d # c /\ Cancels(d, t)' => Cancels(d, t) /\ call'[d].pc = call[d].pc
  BY <1>1 DEF Cancels
<1>3. CASE UNCHANGED <<state, interrupted>> /\ call'[c].pc = "idle"
  <2>1. ~Cancels(c, t)'  BY <1>3 DEF Cancels
  <2> QED  BY <1>2, <1>3, <2>1, EndsUntouched
<1>4. ASSUME NEW x \in Tasks,
             ~IsDone(x), state' = [state EXCEPT ![x] = "cancelled"],
             Awaited(x) => interrupted' = interrupted \cup {Current(x)} /\ call'[c].pc = "worker",
             ~Awaited(x) => interrupted' = interrupted /\ call'[c].pc = "event",
             call'[c].task = x
      PROVE  EndsOnce(t)'
  <2>1. interrupted \subseteq interrupted'  BY <1>4
  <2>2. CASE x # t
    <3>1. ~Cancels(c, t)' /\ state'[t] = state[t]  BY <1>4, <2>2 DEF Cancels, Marks
    <3> QED  BY <1>2, <2>1, <3>1, EndsUntouched
  <2>3. CASE x = t
    <3>1. state'[t] = "cancelled"  BY <1>4, <2>3 DEF Marks
    <3>2. /\ \A w \in Workers : w[1] = t => worker[w] \notin Finishes
          /\ \A d \in Callers : ~Cancels(d, t)
          /\ \A i \in DOMAIN published[t] : published[t][i] \notin DoneStates
      BY <1>4, <2>3, NotYet
    <3>3. ~Awaited(t) => \A w \in Workers : w[1] = t => worker[w] \in Over  BY NotAwaited
    <3>4. ASSUME NEW w \in Workers, w[1] = t  PROVE  Stopped(w)'
      <4>1. CASE worker[w] = "none"  BY <4>1 DEF Stopped, Over
      <4>2. CASE worker[w] # "none" /\ Awaited(t)
        <5>1. w = Current(t)  BY <3>4, <4>2, AwaitedWorker, OneWorker DEF Over
        <5> QED  BY <1>4, <2>3, <4>2, <5>1 DEF Stopped
      <4>3. CASE ~Awaited(t)  BY <3>3, <3>4, <4>3 DEF Stopped
      <4> QED  BY <4>1, <4>2, <4>3
    <3>5. \A d \in Callers : Cancels(d, t)' => d = c  BY <1>2, <3>2
    <3>6. call'[c].pc = "event" => \A w \in Workers : w[1] = t => worker'[w] \in Over
      BY <1>4, <2>3, <3>3
    <3>7. Announced(t)'  BY <3>2 DEF Announced
    <3>8. \A d \in Callers : Cancels(d, t)' =>
            /\ state'[t] = "cancelled"
            /\ call'[d].pc = "event" => \A w \in Workers : w[1] = t => worker'[w] \in Over
            /\ \A e \in Callers : Cancels(e, t)' => d = e
      BY <3>1, <3>5, <3>6
    <3> QED  BY <3>2, <3>4, <3>7, <3>8 DEF EndsOnce
  <2> QED  BY <2>2, <2>3
<1> QED  BY <1>3, <1>4, CancelEffect

(* At first no worker settles.                                             *)
LEMMA InitSettles == Init => Settles
BY DEF Init, Settles

(* A worker that settles was interrupted, and does not complete.           *)
LEMMA StepSettles ==
    ASSUME TypeOK, Settles, [Next]_vars
    PROVE  Settles'
<1>0. Marks /\ Runs /\ Told /\ Calls /\ Settles  BY TypeParts
<1>1. ASSUME NEW t \in Tasks, CreateTask(t)  PROVE  Settles'
  BY <1>1, <1>0 DEF CreateTask, Settles, Runs, Launch, running
<1>2. ASSUME NEW t \in Tasks, StartTask(t)  PROVE  Settles'
  <2>1. Startable(t) => <<t, starts[t] + 1>> \in Workers  BY <1>0, CurrentLemma DEF Startable
  <2> QED  BY <1>2, <1>0, <2>1 DEF StartTask, Settles, Runs, Launch, running
<1>3. ASSUME NEW t \in Tasks, CreatedPublished(t)  PROVE  Settles'
  <2>1. Startable(t) => <<t, starts[t] + 1>> \in Workers  BY <1>0, CurrentLemma DEF Startable
  <2> QED  BY <1>3, <1>0, <2>1 DEF CreatedPublished, Settles, Runs, Launch, running
<1>4. ASSUME NEW t \in Tasks, CreatorInterrupted(t)  PROVE  Settles'
  BY <1>4, <1>0 DEF CreatorInterrupted, Settles, Runs, Launch, running
<1>5. ASSUME NEW w \in Workers, Acquire(w)  PROVE  Settles'
  BY <1>5, <1>0 DEF Acquire, Settles, Runs, managed, At, Goto, Fail
<1>6. ASSUME NEW w \in Workers, StartedPublished(w)  PROVE  Settles'
  BY <1>6, <1>0 DEF StartedPublished, Settles, Runs, managed, At, Goto, Fail
<1>7. ASSUME NEW w \in Workers, RunReturns(w)  PROVE  Settles'
  BY <1>7, <1>0 DEF RunReturns, Settles, Runs, managed, At, Goto, Fail
<1>8. ASSUME NEW w \in Workers, AgentClosed(w)  PROVE  Settles'
  BY <1>8, <1>0 DEF AgentClosed, Settles, Runs, managed, At, Goto, Fail
<1>9. ASSUME NEW w \in Workers, CloseInterrupted(w)  PROVE  Settles'
  BY <1>9, <1>0 DEF CloseInterrupted, Settles, Runs, managed, At, Goto, Fail
<1>10. ASSUME NEW w \in Workers, Settled(w)  PROVE  Settles'
  BY <1>10, <1>0 DEF Settled, Settles, Runs, managed, At, Goto, Fail
<1>11. ASSUME NEW w \in Workers, TerminalPublished(w)  PROVE  Settles'
  BY <1>11, <1>0 DEF TerminalPublished, Settles, Runs, managed, At, Goto, Fail
<1>12. ASSUME NEW w \in Workers, WorkerInterrupted(w)  PROVE  Settles'
  BY <1>12, <1>0 DEF WorkerInterrupted, Settles, Runs, managed, At, Goto, Fail
<1>13. ASSUME NEW c \in Callers, CancelTask(c)  PROVE  Settles'
  BY <1>13, <1>0 DEF CancelTask, Settles, managed, running
<1>14. ASSUME NEW c \in Callers, CancelForSession(c)  PROVE  Settles'
  BY <1>14, <1>0 DEF CancelForSession, Settles, managed, running
<1>15. ASSUME NEW c \in Callers, WaitForTask(c)  PROVE  Settles'
  BY <1>15, <1>0 DEF WaitForTask, Settles, managed, running
<1>16. ASSUME NEW c \in Callers, WaitForAny(c)  PROVE  Settles'
  BY <1>16, <1>0 DEF WaitForAny, Settles, managed, running
<1>17. ASSUME NEW c \in Callers, WaitForAll(c)  PROVE  Settles'
  BY <1>17, <1>0 DEF WaitForAll, Settles, managed, running
<1>18. ASSUME NEW c \in Callers, WorkerAwaited(c)  PROVE  Settles'
  BY <1>18, <1>0 DEF WorkerAwaited, Settles, managed, running
<1>19. ASSUME NEW c \in Callers, CancelPublished(c)  PROVE  Settles'
  BY <1>19, <1>0 DEF CancelPublished, Settles, managed, running
<1>20. ASSUME NEW c \in Callers, WaitReturns(c)  PROVE  Settles'
  BY <1>20, <1>0 DEF WaitReturns, Settles, managed, running
<1>21. ASSUME NEW c \in Callers, CancellerInterrupted(c)  PROVE  Settles'
  BY <1>21, <1>0 DEF CancellerInterrupted, Settles, managed, running
<1>22. ASSUME NEW c \in Callers, WaitAbandoned(c)  PROVE  Settles'
  BY <1>22, <1>0 DEF WaitAbandoned, Settles, managed, running
<1>23. ASSUME CleanupCompleted  PROVE  Settles'
  BY <1>23, <1>0 DEF CleanupCompleted, Settles, managed, running
<1>24. ASSUME LoopShutdown  PROVE  Settles'
  BY <1>24, <1>0 DEF LoopShutdown, Settles, managed, running
<1>25. ASSUME UNCHANGED vars  PROVE  Settles'
  BY <1>25, <1>0 DEF vars, Settles
<1> QED
  BY <1>1, <1>2, <1>3, <1>4, <1>5, <1>6, <1>7, <1>8, <1>9, <1>10, <1>11, <1>12, <1>13, <1>14,
     <1>15, <1>16, <1>17, <1>18, <1>19, <1>20, <1>21, <1>22, <1>23, <1>24, <1>25 DEF Next,
     WorkerAdvances, CallerCalls, CallerAdvances, CallerLeaves

(* At first nothing has ended.                                             *)
LEMMA InitFirst == Init => First
<1>1. SUFFICES ASSUME Init, NEW t \in Tasks  PROVE EndsOnce(t)
  BY DEF First
<1>2. ~IsDone(t) /\ \A c \in Callers : ~Cancels(c, t)
  BY <1>1 DEF Init, IsDone, DoneStates, Cancels, Idle
<1>3. \A w \in Workers : worker[w] \notin Finishes  BY <1>1 DEF Init, Finishes
<1>4. Announced(t)  BY <1>1 DEF Init, Announced
<1> QED  BY <1>2, <1>3, <1>4 DEF EndsOnce

(* Every step keeps what is said of ends.                                  *)
LEMMA StepFirst ==
    ASSUME TypeOK, Shape, Table, Settles, First, [Next]_vars
    PROVE  First'
<1>0. Marks /\ Runs /\ Told /\ Calls /\ Shape /\ Table /\ Settles /\ First  BY TypeParts
<1>1. ASSUME NEW t \in Tasks, CreateTask(t)  PROVE  First'
  <2>1. /\ UNCHANGED <<published, starts, worker, outcome, interrupted, call>>
        /\ state[t] = "absent" /\ state'[t] = "pending"
        /\ \A u \in Tasks : u # t => state'[u] = state[u] /\ creating'[u] = creating[u]
    BY <1>1, <1>0 DEF CreateTask, Marks, running
  <2>2. ASSUME NEW u \in Tasks, u # t  PROVE  EndsOnce(u) => EndsOnce(u)'
    <3>1. \A d \in Callers : Cancels(d, u)' => Cancels(d, u) /\ call'[d].pc = call[d].pc
      BY <2>1 DEF Cancels
    <3> QED  BY <2>1, <2>2, <3>1, EndsUntouched
  <2>3. EndsOnce(t) => EndsOnce(t)'
    <3> SUFFICES ASSUME EndsOnce(t)  PROVE  EndsOnce(t)'
      OBVIOUS
    <3>1. ~IsDone(t)  BY <2>1 DEF IsDone, DoneStates
    <3>2. ~IsDone(t)'  BY <2>1 DEF IsDone, DoneStates
    <3> QED  BY <1>0, <2>1, <3>1, <3>2, NotYet, EndsNotYet
  <2> QED  BY <1>0, <2>1, <2>2, <2>3 DEF First
<1>2. ASSUME NEW t \in Tasks, StartTask(t)  PROVE  First'
  <2>1. UNCHANGED <<published, state, call, outcome, interrupted>> /\ Startable(t) /\ Launch(t)
            /\ creating' = creating
    BY <1>2 DEF StartTask, running
  <2> QED  BY <1>0, <2>1, EndsLaunched
<1>3. ASSUME NEW t \in Tasks, CreatedPublished(t)  PROVE  First'
  <2>1. /\ UNCHANGED <<state, call, outcome, interrupted>> /\ Publish(t, "created")
               /\ creating[t] # "no"
        /\ \A u \in Tasks : creating'[u] \in {"no", creating[u]}
        /\ (Startable(t) /\ Launch(t)) \/ UNCHANGED <<starts, worker>>
    BY <1>3, <1>0 DEF CreatedPublished, Marks, running
  <2>2. \A u \in Tasks : u # t => published'[u] = published[u]  BY <1>0, <2>1, PublishTyped
  <2>3. \A u \in Tasks : \A d \in Callers : Cancels(d, u)' =>
            Cancels(d, u) /\ call'[d].pc = call[d].pc
    BY <2>1 DEF Cancels
  <2>4. \A w \in Workers : w[1] = t => worker[w] = "none"
    BY <1>0, <2>1, NoneAbsent
  <2>5. \A w \in Workers : (w[1] = t /\ worker'[w] # worker[w]) =>
            Startable(t) /\ worker'[w] = "acquire"
    <3>1. Startable(t) => <<t, starts[t] + 1>> \in Workers  BY <1>0, CurrentLemma DEF Startable
    <3> QED  BY <1>0, <2>1, <3>1 DEF Launch, Runs
  <2>6. \A w \in Workers : w[1] # t => worker'[w] = worker[w]
    <3>1. Startable(t) => <<t, starts[t] + 1>> \in Workers /\ <<t, starts[t] + 1>>[1] = t
      BY <1>0, CurrentLemma, WorkerParts DEF Startable
    <3> QED  BY <1>0, <2>1, <3>1 DEF Launch, Runs
  <2>7. \A u \in Tasks : u # t => starts'[u] = starts[u]  BY <1>0, <2>1 DEF Launch, Marks
  <2>8. ASSUME NEW u \in Tasks, u # t, starts'[u] <= 1  PROVE  EndsOnce(u)'
    <3>1. EndsOnce(u)  BY <1>0, <2>7, <2>8 DEF First
    <3> QED  BY <2>1, <2>2, <2>3, <2>6, <2>8, <3>1, EndsUntouched
  <2>9. EndsOnce(t)'
    <3>0. starts[t] \in Nat /\ creating[t] # "no"  BY <1>0, <2>1, CurrentLemma
    <3>1. starts[t] = 0  BY <1>0, <3>0 DEF Shape
    <3>2. EndsOnce(t)  BY <1>0, <3>1 DEF First
    <3>3. \A i \in DOMAIN published[t] : published[t][i] \notin DoneStates
      BY <2>1, <3>2 DEF EndsOnce, Announced
    <3>4. \A i \in DOMAIN published'[t] : published'[t][i] \notin DoneStates
      BY <1>0, <2>1, <3>3, PublishTyped DEF DoneStates
    <3>5. Startable(t) => ~IsDone(t)  BY DEF Startable, IsDone, DoneStates
    <3>6. \A w \in Workers : w[1] = t => worker'[w] \in {"none", "acquire"} /\ (IsDone(t) =>
              worker'[w] = "none")
      BY <2>4, <2>5, <3>5
    <3>7. \A w \in Workers : w[1] = t => worker'[w] \notin Finishes /\ (IsDone(t) =>
              worker'[w] \in Over)
      BY <3>6 DEF Finishes, Over
    <3>8. UNCHANGED state /\ \A d \in Callers : Cancels(d, t)' => Cancels(d, t)  BY <2>1, <2>3
    <3> QED  BY <3>2, <3>4, <3>7, <3>8, EndsUnstarted
  <2> QED  BY <2>8, <2>9 DEF First
<1>4. ASSUME NEW t \in Tasks, CreatorInterrupted(t)  PROVE  First'
  <2>1. /\ UNCHANGED <<state, call, outcome, interrupted, starts, worker>> /\ creating[t] # "no"
        /\ Publish(t, "created") \/ UNCHANGED published
        /\ \A u \in Tasks : creating'[u] \in {"no", creating[u]}
    BY <1>4, <1>0 DEF CreatorInterrupted, Marks, running
  <2>2. \A u \in Tasks : u # t => published'[u] = published[u]  BY <1>0, <2>1, PublishTyped
  <2>3. \A u \in Tasks : \A d \in Callers : Cancels(d, u)' =>
            Cancels(d, u) /\ call'[d].pc = call[d].pc
    BY <2>1 DEF Cancels
  <2>4. \A w \in Workers : w[1] = t => worker[w] = "none"
    BY <1>0, <2>1, NoneAbsent
  <2>8. ASSUME NEW u \in Tasks, u # t, starts'[u] <= 1  PROVE  EndsOnce(u)'
    <3>1. EndsOnce(u)  BY <1>0, <2>1, <2>8 DEF First
    <3> QED  BY <2>1, <2>2, <2>3, <2>8, <3>1, EndsUntouched
  <2>9. EndsOnce(t)'
    <3>0. starts[t] \in Nat /\ creating[t] # "no"  BY <1>0, <2>1, CurrentLemma
    <3>1. starts[t] = 0  BY <1>0, <3>0 DEF Shape
    <3>2. EndsOnce(t)  BY <1>0, <3>1 DEF First
    <3>3. \A i \in DOMAIN published[t] : published[t][i] \notin DoneStates
      BY <2>1, <3>2 DEF EndsOnce, Announced
    <3>4. \A i \in DOMAIN published'[t] : published'[t][i] \notin DoneStates
      BY <1>0, <2>1, <3>3, PublishTyped DEF DoneStates
    <3>7. \A w \in Workers : w[1] = t => worker'[w] \notin Finishes /\ (IsDone(t) =>
              worker'[w] \in Over)
      BY <2>1, <2>4 DEF Finishes, Over
    <3>8. UNCHANGED state /\ \A d \in Callers : Cancels(d, t)' => Cancels(d, t)  BY <2>1, <2>3
    <3> QED  BY <3>2, <3>4, <3>7, <3>8, EndsUnstarted
  <2> QED  BY <2>8, <2>9 DEF First
<1>5. ASSUME NEW w \in Workers, Acquire(w)  PROVE  First'
  <2>1. OnlyOf(w) /\ worker[w] \notin Over
    BY <1>5, <1>0, WorkerParts DEF Acquire, Shape, Runs, Marks, Over, Taken, OnlyOf, managed,
       At, Goto, Fail
  <2>2. ASSUME starts[w[1]] <= 1  PROVE  EndsWell(w)
    <3>1. EndsOnce(w[1]) /\ w[1] \in Tasks  BY <1>0, <2>2, WorkerParts DEF First
    <3>2. /\ IsDone(w[1]) => Stopped(w)
          /\ worker[w] \in Finishes =>
                 state[w[1]] = TerminalEvent(w) /\ \A c \in Callers : ~Cancels(c, w[1])
          /\ \A c \in Callers : Cancels(c, w[1]) => state[w[1]] = "cancelled"
          /\ \A i \in DOMAIN published[w[1]] : published[w[1]][i] \notin DoneStates
          /\ ~IsDone(w[1]) => \A c \in Callers : ~Cancels(c, w[1])
      BY <1>0, <2>1, <3>1, OwnFacts
    <3>3. \A i \in DOMAIN published'[w[1]] : published'[w[1]][i] \notin DoneStates
      BY <1>5, <1>0, <3>1, <3>2, PublishTyped DEF Acquire, DoneStates, managed
    <3>4. CASE IsDone(w[1])
      <4>1. state' = state /\ worker'[w] = "ended"
        BY <1>5, <1>0, <3>4 DEF Acquire, Goto, Runs, IsDone, DoneStates
      <4> QED  BY <3>2, <3>3, <4>1 DEF Stopped, Over, Finishes, EndsWell
    <3>5. CASE ~IsDone(w[1])
      <4>1. ~IsDone(w[1])' /\ worker'[w] \notin Finishes
        BY <1>5, <1>0, <3>1, <3>5 DEF Acquire, Goto, Runs, Marks, IsDone, DoneStates, Finishes
      <4> QED  BY <3>2, <3>3, <3>5, <4>1 DEF EndsWell
    <3> QED  BY <3>4, <3>5 DEF EndsWell
  <2> QED  BY <1>0, <2>1, <2>2, EndsOfOwn
<1>6. ASSUME NEW w \in Workers, StartedPublished(w)  PROVE  First'
  <2>1. OnlyOf(w) /\ worker[w] \notin Over
    <3>1. Publish(w[1], "started") /\ w[1] \in Tasks  BY <1>6, WorkerParts DEF StartedPublished
    <3>2. \A u \in Tasks : u # w[1] => published'[u] = published[u]  BY <1>0, <3>1, PublishTyped
    <3> QED
      BY <1>6, <1>0, <3>2, WorkerParts DEF StartedPublished, Runs, Marks, Over, OnlyOf, At,
         Goto, Fail
  <2>2. ASSUME starts[w[1]] <= 1  PROVE  EndsWell(w)
    <3>1. EndsOnce(w[1]) /\ w[1] \in Tasks  BY <1>0, <2>2, WorkerParts DEF First
    <3>2. /\ IsDone(w[1]) => Stopped(w)
          /\ worker[w] \in Finishes =>
                 state[w[1]] = TerminalEvent(w) /\ \A c \in Callers : ~Cancels(c, w[1])
          /\ \A c \in Callers : Cancels(c, w[1]) => state[w[1]] = "cancelled"
          /\ \A i \in DOMAIN published[w[1]] : published[w[1]][i] \notin DoneStates
          /\ ~IsDone(w[1]) => \A c \in Callers : ~Cancels(c, w[1])
      BY <1>0, <2>1, <3>1, OwnFacts
    <3>a. Publish(w[1], "started")  BY <1>6 DEF StartedPublished
    <3>3. \A i \in DOMAIN published'[w[1]] : published'[w[1]][i] \notin DoneStates
      BY <1>0, <3>1, <3>2, <3>a, PublishTyped DEF DoneStates
    <3>4. ~IsDone(w[1])  BY <1>6, <3>2 DEF StartedPublished, At, Stopped, Over, Finishes
    <3>5. \/ ~IsDone(w[1])' /\ worker'[w] = "running"
          \/ state'[w[1]] = "failed" /\ worker'[w] = "failing"
      BY <1>6, <1>0, <3>1, <3>4 DEF StartedPublished, Fail, Goto, Runs, Marks, IsDone
    <3> QED  BY <3>2, <3>3, <3>4, <3>5 DEF Stopped, Finishes, TerminalEvent, EndsWell
  <2> QED  BY <1>0, <2>1, <2>2, EndsOfOwn
<1>7. ASSUME NEW w \in Workers, RunReturns(w)  PROVE  First'
  <2>1. OnlyOf(w) /\ worker[w] \notin Over
    BY <1>7, <1>0, WorkerParts DEF RunReturns, Shape, Runs, Marks, Over, Taken, OnlyOf, managed,
       At, Goto, Fail
  <2>2. ASSUME starts[w[1]] <= 1  PROVE  EndsWell(w)
    <3>1. EndsOnce(w[1]) /\ w[1] \in Tasks  BY <1>0, <2>2, WorkerParts DEF First
    <3>2. /\ IsDone(w[1]) => Stopped(w)
          /\ worker[w] \in Finishes =>
                 state[w[1]] = TerminalEvent(w) /\ \A c \in Callers : ~Cancels(c, w[1])
          /\ \A c \in Callers : Cancels(c, w[1]) => state[w[1]] = "cancelled"
          /\ \A i \in DOMAIN published[w[1]] : published[w[1]][i] \notin DoneStates
          /\ ~IsDone(w[1]) => \A c \in Callers : ~Cancels(c, w[1])
      BY <1>0, <2>1, <3>1, OwnFacts
    <3>3. \A i \in DOMAIN published'[w[1]] : published'[w[1]][i] \notin DoneStates
      BY <1>7, <1>0, <3>1, <3>2, PublishTyped DEF RunReturns, DoneStates, managed
    <3>4. state' = state /\ worker'[w] = "closing" /\ (w \in interrupted =>
              outcome'[w] = "cancelled")
      BY <1>7, <1>0 DEF RunReturns, managed, Goto, Runs
    <3>5. IsDone(w[1]) => w \in interrupted
      BY <1>7, <3>2 DEF RunReturns, Stopped, Over, Finishes
    <3> QED  BY <3>2, <3>3, <3>4, <3>5 DEF Stopped, Finishes, IsDone, EndsWell
  <2> QED  BY <1>0, <2>1, <2>2, EndsOfOwn
<1>8. ASSUME NEW w \in Workers, AgentClosed(w)  PROVE  First'
  <2>1. OnlyOf(w) /\ worker[w] \notin Over
    BY <1>8, <1>0, WorkerParts DEF AgentClosed, Shape, Runs, Marks, Over, Taken, OnlyOf,
       managed, At, Goto, Fail
  <2>2. ASSUME starts[w[1]] <= 1  PROVE  EndsWell(w)
    <3>1. EndsOnce(w[1]) /\ w[1] \in Tasks  BY <1>0, <2>2, WorkerParts DEF First
    <3>2. /\ IsDone(w[1]) => Stopped(w)
          /\ worker[w] \in Finishes =>
                 state[w[1]] = TerminalEvent(w) /\ \A c \in Callers : ~Cancels(c, w[1])
          /\ \A c \in Callers : Cancels(c, w[1]) => state[w[1]] = "cancelled"
          /\ \A i \in DOMAIN published[w[1]] : published[w[1]][i] \notin DoneStates
          /\ ~IsDone(w[1]) => \A c \in Callers : ~Cancels(c, w[1])
      BY <1>0, <2>1, <3>1, OwnFacts
    <3>3. \A i \in DOMAIN published'[w[1]] : published'[w[1]][i] \notin DoneStates
      BY <1>8, <1>0, <3>1, <3>2, PublishTyped DEF AgentClosed, DoneStates, managed
    <3>4. state' = state /\ worker'[w] = worker[w] /\ interrupted' = interrupted
              /\ outcome'[w] \in {outcome[w], "error"}
      BY <1>8, <1>0 DEF AgentClosed, managed, Runs
    <3>5. Stopped(w) => Stopped(w)'  BY <3>4 DEF Stopped
    <3>6. TerminalEvent(w)' = TerminalEvent(w)  BY <3>4 DEF TerminalEvent
    <3> QED  BY <3>2, <3>3, <3>4, <3>5, <3>6 DEF IsDone, EndsWell
  <2> QED  BY <1>0, <2>1, <2>2, EndsOfOwn
<1>9. ASSUME NEW w \in Workers, CloseInterrupted(w)  PROVE  First'
  <2>1. OnlyOf(w) /\ worker[w] \notin Over
    BY <1>9, <1>0, WorkerParts DEF CloseInterrupted, Shape, Runs, Marks, Over, Taken, OnlyOf,
       managed, At, Goto, Fail
  <2>2. ASSUME starts[w[1]] <= 1  PROVE  EndsWell(w)
    <3>1. EndsOnce(w[1]) /\ w[1] \in Tasks  BY <1>0, <2>2, WorkerParts DEF First
    <3>2. /\ IsDone(w[1]) => Stopped(w)
          /\ worker[w] \in Finishes =>
                 state[w[1]] = TerminalEvent(w) /\ \A c \in Callers : ~Cancels(c, w[1])
          /\ \A c \in Callers : Cancels(c, w[1]) => state[w[1]] = "cancelled"
          /\ \A i \in DOMAIN published[w[1]] : published[w[1]][i] \notin DoneStates
          /\ ~IsDone(w[1]) => \A c \in Callers : ~Cancels(c, w[1])
      BY <1>0, <2>1, <3>1, OwnFacts
    <3>3. \A i \in DOMAIN published'[w[1]] : published'[w[1]][i] \notin DoneStates
      BY <1>9, <1>0, <3>1, <3>2, PublishTyped DEF CloseInterrupted, DoneStates, managed
    <3>4. state' = state /\ worker'[w] = "settling" /\ outcome'[w] = "cancelled"
      BY <1>9, <1>0 DEF CloseInterrupted, managed, Goto, Runs
    <3> QED  BY <3>2, <3>3, <3>4 DEF Stopped, Finishes, IsDone, EndsWell
  <2> QED  BY <1>0, <2>1, <2>2, EndsOfOwn
<1>10. ASSUME NEW w \in Workers, Settled(w)  PROVE  First'
  <2>1. OnlyOf(w) /\ worker[w] \notin Over
    BY <1>10, <1>0, WorkerParts DEF Settled, Shape, Runs, Marks, Over, Taken, OnlyOf, managed,
       At, Goto, Fail
  <2>2. ASSUME starts[w[1]] <= 1  PROVE  EndsWell(w)
    <3>1. EndsOnce(w[1]) /\ w[1] \in Tasks  BY <1>0, <2>2, WorkerParts DEF First
    <3>2. /\ IsDone(w[1]) => Stopped(w)
          /\ worker[w] \in Finishes =>
                 state[w[1]] = TerminalEvent(w) /\ \A c \in Callers : ~Cancels(c, w[1])
          /\ \A c \in Callers : Cancels(c, w[1]) => state[w[1]] = "cancelled"
          /\ \A i \in DOMAIN published[w[1]] : published[w[1]][i] \notin DoneStates
          /\ ~IsDone(w[1]) => \A c \in Callers : ~Cancels(c, w[1])
      BY <1>0, <2>1, <3>1, OwnFacts
    <3>3. \A i \in DOMAIN published'[w[1]] : published'[w[1]][i] \notin DoneStates
      BY <1>10, <1>0, <3>1, <3>2, PublishTyped DEF Settled, DoneStates, managed
    <3>4. CASE outcome[w] = "ok"
      <4>1. worker[w] = "closing" /\ w \notin interrupted
        BY <1>10, <1>0, <3>4 DEF Settled, At, Settles
      <4>2. ~IsDone(w[1])  BY <3>2, <3>4, <4>1 DEF Stopped, Over, Finishes
      <4>3. worker'[w] = "completing" /\ state'[w[1]] = "completed"
        BY <1>10, <1>0, <3>1, <3>4 DEF Settled, Goto, Runs, Marks
      <4> QED  BY <3>2, <3>3, <4>2, <4>3 DEF Stopped, Finishes, TerminalEvent, EndsWell
    <3>5. CASE outcome[w] # "ok" /\ IsDone(w[1])
      <4>1. worker'[w] = "ended" /\ state' = state
        BY <1>10, <1>0, <3>5 DEF Settled, Fail, Goto, Runs
      <4> QED  BY <3>2, <3>3, <4>1 DEF Stopped, Finishes, Over, EndsWell
    <3>6. CASE outcome[w] # "ok" /\ ~IsDone(w[1])
      <4>1. \/ worker'[w] = "failing" /\ state'[w[1]] = "failed"
            \/ worker'[w] = "cancelling" /\ state'[w[1]] = "cancelled"
        BY <1>10, <1>0, <3>1, <3>6 DEF Settled, Fail, Goto, Runs, Marks
      <4> QED  BY <3>2, <3>3, <3>6, <4>1 DEF Stopped, Finishes, TerminalEvent, EndsWell
    <3> QED  BY <3>4, <3>5, <3>6 DEF EndsWell
  <2> QED  BY <1>0, <2>1, <2>2, EndsOfOwn
<1>11. ASSUME NEW w \in Workers, TerminalPublished(w)  PROVE  First'
  <2>1. OnlyOf(w) /\ worker[w] \notin Over
    <3>1. (Publish(w[1], TerminalEvent(w)) \/ UNCHANGED published) /\ w[1] \in Tasks
      BY <1>11, WorkerParts DEF TerminalPublished
    <3>2. TerminalEvent(w) \in DoneStates  BY DEF TerminalEvent, DoneStates
    <3>3. \A u \in Tasks : u # w[1] => published'[u] = published[u]
      BY <1>0, <3>1, <3>2, PublishTyped
    <3> QED
      BY <1>11, <1>0, <3>3, WorkerParts DEF TerminalPublished, Runs, Marks, Over, OnlyOf, At,
         Goto
  <2>2. ASSUME starts[w[1]] <= 1  PROVE  EndsWell(w)
    <3>1. EndsOnce(w[1]) /\ w[1] \in Tasks  BY <1>0, <2>2, WorkerParts DEF First
    <3>2. /\ IsDone(w[1]) => Stopped(w)
          /\ worker[w] \in Finishes =>
                 state[w[1]] = TerminalEvent(w) /\ \A c \in Callers : ~Cancels(c, w[1])
          /\ \A c \in Callers : Cancels(c, w[1]) => state[w[1]] = "cancelled"
          /\ \A i \in DOMAIN published[w[1]] : published[w[1]][i] \notin DoneStates
          /\ ~IsDone(w[1]) => \A c \in Callers : ~Cancels(c, w[1])
      BY <1>0, <2>1, <3>1, OwnFacts
    <3>3. state' = state /\ worker'[w] = "ended" /\ worker[w] \in Finishes
      BY <1>11, <1>0 DEF TerminalPublished, Goto, Runs, Finishes
    <3>4. creating[w[1]] = "no"  BY <1>0, <2>1, NoneAbsent DEF Over
    <3>5. state[w[1]] = TerminalEvent(w) /\ \A c \in Callers : ~Cancels(c, w[1])  BY <3>2, <3>3
    <3>6. ASSUME NEW i \in DOMAIN published'[w[1]], published'[w[1]][i] \in DoneStates
          PROVE  i = Len(published'[w[1]]) /\ published'[w[1]][i] = state'[w[1]]
      <4>1. CASE UNCHANGED published  BY <3>2, <3>6, <4>1
      <4>2. CASE Publish(w[1], TerminalEvent(w))
        <5>1. PICK event \in DoneStates : event = TerminalEvent(w)
          BY DEF TerminalEvent, DoneStates
        <5>2. Publish(w[1], event)  BY <4>2, <5>1
        <5>3. /\ Len(published[w[1]]) \in Nat /\ DOMAIN published[w[1]] = 1 .. Len(published[w[1]])
              /\ DOMAIN published'[w[1]] = 1 .. Len(published[w[1]]) + 1
              /\ Len(published'[w[1]]) = Len(published[w[1]]) + 1
              /\ published'[w[1]][Len(published[w[1]]) + 1] = event
              /\ \A k \in 1 .. Len(published[w[1]]) : published'[w[1]][k] = published[w[1]][k]
          BY <1>0, <3>1, <5>2, PublishTyped
        <5>4. i = Len(published[w[1]]) + 1  BY <3>2, <3>6, <5>3
        <5> QED  BY <3>3, <3>5, <5>1, <5>3, <5>4
      <4> QED  BY <1>11, <4>1, <4>2 DEF TerminalPublished, EndsWell
    <3> QED  BY <3>3, <3>4, <3>5, <3>6 DEF Stopped, Over, Finishes, EndsWell
  <2> QED  BY <1>0, <2>1, <2>2, EndsOfOwn
<1>12. ASSUME NEW w \in Workers, WorkerInterrupted(w)  PROVE  First'
  <2>1. OnlyOf(w) /\ worker[w] \notin Over
    <3>1. (Publish(w[1], "started") \/ UNCHANGED published) /\ w[1] \in Tasks
      BY <1>12, WorkerParts DEF WorkerInterrupted
    <3>2. \A u \in Tasks : u # w[1] => published'[u] = published[u]  BY <1>0, <3>1, PublishTyped
    <3> QED
      BY <1>12, <1>0, <3>2, WorkerParts DEF WorkerInterrupted, Runs, Marks, Over, OnlyOf, At,
         Goto, Fail
  <2>2. ASSUME starts[w[1]] <= 1  PROVE  EndsWell(w)
    <3>1. EndsOnce(w[1]) /\ w[1] \in Tasks  BY <1>0, <2>2, WorkerParts DEF First
    <3>2. /\ IsDone(w[1]) => Stopped(w)
          /\ worker[w] \in Finishes =>
                 state[w[1]] = TerminalEvent(w) /\ \A c \in Callers : ~Cancels(c, w[1])
          /\ \A c \in Callers : Cancels(c, w[1]) => state[w[1]] = "cancelled"
          /\ \A i \in DOMAIN published[w[1]] : published[w[1]][i] \notin DoneStates
          /\ ~IsDone(w[1]) => \A c \in Callers : ~Cancels(c, w[1])
      BY <1>0, <2>1, <3>1, OwnFacts
    <3>3. \A i \in DOMAIN published'[w[1]] : published'[w[1]][i] \notin DoneStates
      BY <1>12, <1>0, <3>1, <3>2, PublishTyped DEF WorkerInterrupted, DoneStates, managed
    <3>4. CASE IsDone(w[1])
      <4>1. worker'[w] = "ended" /\ state' = state
        BY <1>12, <1>0, <3>4 DEF WorkerInterrupted, Fail, Goto, Runs
      <4> QED  BY <3>2, <3>3, <4>1 DEF Stopped, Finishes, Over, EndsWell
    <3>5. CASE ~IsDone(w[1])
      <4>1. worker'[w] = "cancelling" /\ state'[w[1]] = "cancelled"
        BY <1>12, <1>0, <3>1, <3>5 DEF WorkerInterrupted, Fail, Goto, Runs, Marks
      <4> QED  BY <3>2, <3>3, <3>5, <4>1 DEF Stopped, Finishes, TerminalEvent, EndsWell
    <3> QED  BY <3>4, <3>5 DEF EndsWell
  <2> QED  BY <1>0, <2>1, <2>2, EndsOfOwn
<1>13. ASSUME NEW c \in Callers, CancelTask(c)  PROVE  First'
  <2>1. /\ UNCHANGED <<worker, outcome, published, creating, starts>> /\ call[c].pc = "idle"
        /\ \E op : \E todo \in SUBSET Tasks : CancelNext(c, op, todo)
    BY <1>13, <1>0, CancellerParts DEF CancelTask, Marks
  <2>2. PICK op : \E todo \in SUBSET Tasks : CancelNext(c, op, todo)  BY <2>1
  <2>3. PICK todo \in SUBSET Tasks : CancelNext(c, op, todo)  BY <2>2
  <2>4. ASSUME NEW u \in Tasks, EndsOnce(u), starts[u] <= 1  PROVE  EndsOnce(u)'
    BY <1>0, <2>1, <2>3, <2>4, EndsCancelled DEF Cancels
  <2> QED  BY <1>0, <2>1, <2>4 DEF First
<1>14. ASSUME NEW c \in Callers, CancelForSession(c)  PROVE  First'
  <2>1. /\ UNCHANGED <<worker, outcome, published, creating, starts>> /\ call[c].pc = "idle"
        /\ \E op : \E todo \in SUBSET Tasks : CancelNext(c, op, todo)
    BY <1>14, <1>0, CancellerParts DEF CancelForSession, Marks
  <2>2. PICK op : \E todo \in SUBSET Tasks : CancelNext(c, op, todo)  BY <2>1
  <2>3. PICK todo \in SUBSET Tasks : CancelNext(c, op, todo)  BY <2>2
  <2>4. ASSUME NEW u \in Tasks, EndsOnce(u), starts[u] <= 1  PROVE  EndsOnce(u)'
    BY <1>0, <2>1, <2>3, <2>4, EndsCancelled DEF Cancels
  <2> QED  BY <1>0, <2>1, <2>4 DEF First
<1>15. ASSUME NEW c \in Callers, WaitForTask(c)  PROVE  First'
  <2>1. UNCHANGED <<state, published, creating, starts, worker, outcome>>
            /\ interrupted \subseteq interrupted'
    BY <1>15 DEF WaitForTask, managed, running
  <2>2. \A d \in Callers, u \in Tasks : Cancels(d, u)' => Cancels(d, u) /\ call'[d].pc = call[d].pc
    BY <1>15, <1>0 DEF WaitForTask, Cancels, Calls, Return, Waiting, Idle
  <2>3. \A u \in Tasks : EndsOnce(u) => EndsOnce(u)'
    BY <2>1, <2>2, EndsUntouched
  <2> QED  BY <1>0, <2>1, <2>3 DEF First
<1>16. ASSUME NEW c \in Callers, WaitForAny(c)  PROVE  First'
  <2>1. UNCHANGED <<state, published, creating, starts, worker, outcome>>
            /\ interrupted \subseteq interrupted'
    BY <1>16 DEF WaitForAny, managed, running
  <2>2. \A d \in Callers, u \in Tasks : Cancels(d, u)' => Cancels(d, u) /\ call'[d].pc = call[d].pc
    BY <1>16, <1>0 DEF WaitForAny, Cancels, Calls, Return, Waiting, Idle
  <2>3. \A u \in Tasks : EndsOnce(u) => EndsOnce(u)'
    BY <2>1, <2>2, EndsUntouched
  <2> QED  BY <1>0, <2>1, <2>3 DEF First
<1>17. ASSUME NEW c \in Callers, WaitForAll(c)  PROVE  First'
  <2>1. UNCHANGED <<state, published, creating, starts, worker, outcome>>
            /\ interrupted \subseteq interrupted'
    BY <1>17 DEF WaitForAll, managed, running
  <2>2. \A d \in Callers, u \in Tasks : Cancels(d, u)' => Cancels(d, u) /\ call'[d].pc = call[d].pc
    BY <1>17, <1>0 DEF WaitForAll, Cancels, Calls, Return, Waiting, Idle
  <2>3. \A u \in Tasks : EndsOnce(u) => EndsOnce(u)'
    BY <2>1, <2>2, EndsUntouched
  <2> QED  BY <1>0, <2>1, <2>3 DEF First
<1>18. ASSUME NEW c \in Callers, WorkerAwaited(c)  PROVE  First'
  <2>1. /\ UNCHANGED <<state, published, creating, starts, worker, outcome, interrupted>>
        /\ call[c].pc = "worker" /\ ~Awaited(call[c].task)
        /\ call' = [call EXCEPT ![c].pc = "event"]
    BY <1>18 DEF WorkerAwaited, managed, running
  <2>2. /\ call'[c].task = call[c].task /\ \A d \in Callers : d # c => call'[d] = call[d]
        /\ call[c].task \in Tasks
    BY <1>0, <2>1, CancellerParts DEF Calls, CallRecords
  <2>3. \A d \in Callers, u \in Tasks : Cancels(d, u)' => Cancels(d, u)
    BY <2>1, <2>2 DEF Cancels
  <2>4. ASSUME NEW u \in Tasks, starts[u] <= 1, EndsOnce(u), u # call[c].task
        PROVE  EndsOnce(u)'
    <3>1. \A d \in Callers : Cancels(d, u)' => call'[d].pc = call[d].pc
      BY <2>2, <2>4 DEF Cancels
    <3> QED  BY <2>1, <2>3, <2>4, <3>1, EndsUntouched
  <2>5. ASSUME starts[call[c].task] <= 1, EndsOnce(call[c].task)  PROVE  EndsOnce(call[c].task)'
    <3> DEFINE t == call[c].task
    <3>1. PICK u \in Tasks : u = call[c].task  BY <2>2
    <3>2. \A w \in Workers : w[1] = u => worker[w] \in Over
      BY <1>0, <2>1, <2>5, <3>1, NotAwaited
    <3>3. \A d \in Callers : Cancels(d, u)' => Cancels(d, u)  BY <2>3
    <3>4. Cancels(c, u)  BY <2>1, <3>1 DEF Cancels
    <3>5. \A d \in Callers : Cancels(d, u) => state[u] = "cancelled" /\ d = c
      BY <2>5, <3>1, <3>4 DEF EndsOnce
    <3>6. \A i \in DOMAIN published[u] : published[u][i] \notin DoneStates
      BY <2>5, <3>1, <3>4 DEF EndsOnce, Announced
    <3>8. \A w \in Workers : w[1] = u => worker'[w] \notin Finishes /\ (IsDone(u) =>
              worker'[w] \in Over)
      BY <2>1, <3>2 DEF Over, Finishes
    <3>9. /\ EndsOnce(u) /\ UNCHANGED state
          /\ \A i \in DOMAIN published'[u] : published'[u][i] \notin DoneStates
      BY <2>1, <2>5, <3>1, <3>6
    <3>7. EndsOnce(u)'
      BY <3>3, <3>8, <3>9, EndsUnstarted
    <3> QED  BY <2>1, <2>2, <3>1, <3>7
  <2> QED  BY <1>0, <2>1, <2>2, <2>4, <2>5 DEF First
<1>19. ASSUME NEW c \in Callers, CancelPublished(c)  PROVE  First'
  <2>1. /\ UNCHANGED <<worker, outcome, creating, starts>> /\ call[c].pc = "event"
        /\ creating[call[c].task] = "no" /\ Publish(call[c].task, "cancelled")
        /\ \E op : \E todo \in SUBSET Tasks : CancelNext(c, op, todo)
    BY <1>19, <1>0, CancellerParts DEF CancelPublished
  <2>2. PICK op : \E todo \in SUBSET Tasks : CancelNext(c, op, todo)  BY <2>1
  <2>3. PICK todo \in SUBSET Tasks : CancelNext(c, op, todo)  BY <2>2
  <2>4. PICK k \in Tasks : k = call[c].task  BY <1>0, <2>1, CancellerParts
  <2>5. Cancels(c, k) /\ IsDone(k)  BY <1>0, <2>1, <2>4 DEF Cancels, Table
  <2>6. "cancelled" \in DoneStates  BY DEF DoneStates
  <2>7. /\ \A u \in Tasks : u # k => published'[u] = published[u]
        /\ Len(published[k]) \in Nat /\ DOMAIN published[k] = 1 .. Len(published[k])
        /\ DOMAIN published'[k] = 1 .. Len(published[k]) + 1
               /\ Len(published'[k]) = Len(published[k]) + 1
        /\ published'[k][Len(published[k]) + 1] = "cancelled"
        /\ \A i \in 1 .. Len(published[k]) : published'[k][i] = published[k][i]
    BY <1>0, <2>1, <2>4, <2>6, PublishTyped
  <2>8. ASSUME NEW u \in Tasks, EndsOnce(u), starts[u] <= 1, u # k  PROVE  EndsOnce(u)'
    <3>1. ~Cancels(c, u)  BY <2>4, <2>8 DEF Cancels
    <3> QED  BY <1>0, <2>1, <2>3, <2>7, <2>8, <3>1, EndsCancelled
  <2>9. ASSUME EndsOnce(k)  PROVE  EndsOnce(k)'
    <3>1. /\ state[k] = "cancelled" /\ \A w \in Workers : w[1] = k => worker[w] \in Over
          /\ \A d \in Callers : Cancels(d, k) => d = c
      BY <2>1, <2>5, <2>9 DEF EndsOnce
    <3>2. /\ \A d \in Callers : d # c => call'[d] = call[d]
          /\ state'[k] = state[k]
          /\ ~Cancels(c, k)'
      <4>1. \/ state' = state /\ call'[c].pc = "idle"
            \/ \E x \in Tasks : ~IsDone(x) /\ state' = [state EXCEPT ![x] = "cancelled"]
                   /\ call'[c].task = x
        BY <1>0, <2>3, CancelEffect
      <4>2. \A d \in Callers : d # c => call'[d] = call[d]  BY <1>0, <2>3, CancelEffect
      <4> QED  BY <1>0, <2>5, <4>1, <4>2 DEF Cancels, Marks
    <3>3. \A d \in Callers : ~Cancels(d, k)'
      <4>1. \A d \in Callers : d # c /\ Cancels(d, k)' => Cancels(d, k)  BY <3>2 DEF Cancels
      <4> QED  BY <3>1, <3>2, <4>1
    <3>4. \A w \in Workers : w[1] = k => worker'[w] \in Over  BY <2>1, <3>1
    <3>5. \A i \in DOMAIN published[k] : published[k][i] \notin DoneStates
      BY <2>5, <2>9 DEF EndsOnce, Announced
    <3>6. \A i \in DOMAIN published'[k] : published'[k][i] \in DoneStates =>
             i = Len(published'[k]) /\ published'[k][i] = "cancelled"
      BY <2>7, <3>5
    <3>7. creating'[k] = "no" /\ state'[k] = "cancelled"  BY <2>1, <2>4, <3>1, <3>2
    <3>8. Announced(k)'  BY <3>3, <3>4, <3>6, <3>7 DEF Announced
    <3>9. \A w \in Workers : w[1] = k => Stopped(w)' /\ worker'[w] \notin Finishes
      BY <3>4 DEF Stopped, Over, Finishes
    <3> QED  BY <3>3, <3>8, <3>9 DEF EndsOnce
  <2> QED  BY <1>0, <2>1, <2>8, <2>9 DEF First
<1>20. ASSUME NEW c \in Callers, WaitReturns(c)  PROVE  First'
  <2>1. UNCHANGED <<state, published, creating, starts, worker, outcome>>
            /\ interrupted \subseteq interrupted'
    BY <1>20 DEF WaitReturns, managed, running
  <2>2. \A d \in Callers, u \in Tasks : Cancels(d, u)' => Cancels(d, u) /\ call'[d].pc = call[d].pc
    BY <1>20, <1>0 DEF WaitReturns, Cancels, Calls, Return, Waiting, Idle
  <2>3. \A u \in Tasks : EndsOnce(u) => EndsOnce(u)'
    BY <2>1, <2>2, EndsUntouched
  <2> QED  BY <1>0, <2>1, <2>3 DEF First
<1>21. ASSUME NEW c \in Callers, CancellerInterrupted(c)  PROVE  First'
  <2>1. CASE call[c].pc = "worker"
    <3>1. UNCHANGED <<state, published, creating, starts, worker, outcome, call>>
              /\ interrupted \subseteq interrupted'
      BY <1>21, <2>1 DEF CancellerInterrupted, managed
    <3>2. \A d \in Callers, u \in Tasks : Cancels(d, u)' =>
              Cancels(d, u) /\ call'[d].pc = call[d].pc
      BY <3>1 DEF Cancels
    <3>3. \A u \in Tasks : EndsOnce(u) => EndsOnce(u)'  BY <3>1, <3>2, EndsUntouched
    <3> QED  BY <1>0, <3>1, <3>3 DEF First
  <2>2. CASE call[c].pc = "event"
    <3>1. /\ UNCHANGED <<state, creating, starts, worker, outcome, interrupted>>
          /\ call' = [call EXCEPT ![c] = Idle]
          /\ UNCHANGED published \/ (creating[call[c].task] = "no"
                 /\ Publish(call[c].task, "cancelled"))
      BY <1>21, <2>2 DEF CancellerInterrupted, running, Return
    <3>2. PICK k \in Tasks : k = call[c].task  BY <1>0, <2>2, CancellerParts
    <3>3. "cancelled" \in DoneStates  BY DEF DoneStates
    <3>4. /\ \A d \in Callers : d # c => call'[d] = call[d]
          /\ call'[c].pc = "idle"
      BY <1>0, <3>1 DEF Calls, Idle
    <3>5. \A d \in Callers, u \in Tasks : Cancels(d, u)' =>
              Cancels(d, u) /\ call'[d].pc = call[d].pc /\ d # c
      BY <3>4 DEF Cancels
    <3>6. CASE UNCHANGED published
      <4>1. \A u \in Tasks : EndsOnce(u) => EndsOnce(u)'  BY <3>1, <3>5, <3>6, EndsUntouched
      <4> QED  BY <1>0, <3>1, <4>1 DEF First
    <3>7. CASE creating[k] = "no" /\ Publish(k, "cancelled")
      <4>1. /\ \A u \in Tasks : u # k => published'[u] = published[u]
            /\ Len(published[k]) \in Nat /\ DOMAIN published[k] = 1 .. Len(published[k])
            /\ DOMAIN published'[k] = 1 .. Len(published[k]) + 1
                   /\ Len(published'[k]) = Len(published[k]) + 1
            /\ published'[k][Len(published[k]) + 1] = "cancelled"
            /\ \A i \in 1 .. Len(published[k]) : published'[k][i] = published[k][i]
        BY <1>0, <3>3, <3>7, PublishTyped
      <4>2. ASSUME NEW u \in Tasks, EndsOnce(u), u # k  PROVE  EndsOnce(u)'
        BY <3>1, <3>5, <4>1, <4>2, EndsUntouched
      <4>3. ASSUME EndsOnce(k)  PROVE  EndsOnce(k)'
        <5>1. Cancels(c, k)  BY <2>2, <3>2 DEF Cancels
        <5>2. /\ state[k] = "cancelled" /\ \A w \in Workers : w[1] = k => worker[w] \in Over
              /\ \A d \in Callers : Cancels(d, k) => d = c
          BY <2>2, <4>3, <5>1 DEF EndsOnce
        <5>3. \A d \in Callers : ~Cancels(d, k)'  BY <3>5, <5>2
        <5>4. \A i \in DOMAIN published[k] : published[k][i] \notin DoneStates
          BY <4>3, <5>1 DEF EndsOnce, Announced
        <5>5. \A i \in DOMAIN published'[k] : published'[k][i] \in DoneStates =>
                 i = Len(published'[k]) /\ published'[k][i] = "cancelled"
          BY <4>1, <5>4
        <5>6. creating'[k] = "no" /\ state'[k] = "cancelled"  BY <3>1, <3>7, <5>2
        <5>7. \A w \in Workers : w[1] = k => worker'[w] \in Over  BY <3>1, <5>2
        <5>8. Announced(k)'  BY <5>3, <5>5, <5>6, <5>7 DEF Announced
        <5>9. \A w \in Workers : w[1] = k => Stopped(w)' /\ worker'[w] \notin Finishes
          BY <5>7 DEF Stopped, Over, Finishes
        <5> QED  BY <5>3, <5>8, <5>9 DEF EndsOnce
      <4> QED  BY <1>0, <3>1, <4>2, <4>3 DEF First
    <3> QED  BY <3>1, <3>2, <3>6, <3>7
  <2> QED  BY <1>21, <2>1, <2>2 DEF CancellerInterrupted
<1>22. ASSUME NEW c \in Callers, WaitAbandoned(c)  PROVE  First'
  <2>1. UNCHANGED <<state, published, creating, starts, worker, outcome>>
            /\ interrupted \subseteq interrupted'
    BY <1>22 DEF WaitAbandoned, managed, running
  <2>2. \A d \in Callers, u \in Tasks : Cancels(d, u)' => Cancels(d, u) /\ call'[d].pc = call[d].pc
    BY <1>22, <1>0 DEF WaitAbandoned, Cancels, Calls, Return, Waiting, Idle
  <2>3. \A u \in Tasks : EndsOnce(u) => EndsOnce(u)'
    BY <2>1, <2>2, EndsUntouched
  <2> QED  BY <1>0, <2>1, <2>3 DEF First
<1>23. ASSUME CleanupCompleted  PROVE  First'
  <2>1. UNCHANGED <<state, published, creating, starts, worker, outcome>>
            /\ interrupted \subseteq interrupted'
    BY <1>23 DEF CleanupCompleted, managed, running
  <2>2. \A d \in Callers, u \in Tasks : Cancels(d, u)' => Cancels(d, u) /\ call'[d].pc = call[d].pc
    BY <1>23, <1>0 DEF CleanupCompleted, Cancels
  <2>3. \A u \in Tasks : EndsOnce(u) => EndsOnce(u)'
    BY <2>1, <2>2, EndsUntouched
  <2> QED  BY <1>0, <2>1, <2>3 DEF First
<1>24. ASSUME LoopShutdown  PROVE  First'
  <2>1. UNCHANGED <<state, published, creating, starts, worker, outcome>>
            /\ interrupted \subseteq interrupted'
    BY <1>24 DEF LoopShutdown, managed, running
  <2>2. \A d \in Callers, u \in Tasks : Cancels(d, u)' => Cancels(d, u) /\ call'[d].pc = call[d].pc
    BY <1>24, <1>0 DEF LoopShutdown, Cancels
  <2>3. \A u \in Tasks : EndsOnce(u) => EndsOnce(u)'
    BY <2>1, <2>2, EndsUntouched
  <2> QED  BY <1>0, <2>1, <2>3 DEF First
<1>25. ASSUME UNCHANGED vars  PROVE  First'
  <2>1. UNCHANGED <<state, published, creating, starts, worker, outcome>>
            /\ interrupted \subseteq interrupted'
    BY <1>25 DEF vars
  <2>2. \A d \in Callers, u \in Tasks : Cancels(d, u)' => Cancels(d, u) /\ call'[d].pc = call[d].pc
    BY <1>25, <1>0 DEF vars, Cancels
  <2>3. \A u \in Tasks : EndsOnce(u) => EndsOnce(u)'
    BY <2>1, <2>2, EndsUntouched
  <2> QED  BY <1>0, <2>1, <2>3 DEF First
<1> QED
  BY <1>1, <1>2, <1>3, <1>4, <1>5, <1>6, <1>7, <1>8, <1>9, <1>10, <1>11, <1>12, <1>13, <1>14,
     <1>15, <1>16, <1>17, <1>18, <1>19, <1>20, <1>21, <1>22, <1>23, <1>24, <1>25 DEF Next,
     WorkerAdvances, CallerCalls, CallerAdvances, CallerLeaves

-----------------------------------------------------------------------------
(* The theorems *)

(* The strengthening holds of every reachable state.                       *)
THEOREM Invariance == Spec => []IInv
<1>1. Init => IInv
  BY InitTyped, InitShape, InitSlots, InitTakes, InitTells, InitTable, InitSettles, InitFirst
     DEF IInv, Once
<1>2. IInv /\ [Next]_vars => IInv'
  BY StepTyped, StepShape, StepSlots, StepTakes, StepTells, StepTable, StepSettles, StepFirst
     DEF IInv, Once
<1> QED  BY <1>1, <1>2, PTL DEF Spec

(* Every variable has its type.                                            *)
THEOREM TypeCorrect == Spec => []TypeOK
<1>1. IInv => TypeOK  BY DEF IInv
<1> QED  BY <1>1, Invariance, PTL

(* An open sub-agent belongs to a worker inside the semaphore.             *)
LEMMA BoundedAgents == IInv => AgentsBounded
<1> SUFFICES ASSUME IInv  PROVE AgentsBounded
  OBVIOUS
<1>1. agents \in SUBSET Holders  BY DEF IInv, TypeOK, Shape, Taken, Holders
<1>2. IsFiniteSet(agents) /\ Cardinality(agents) <= Cardinality(Holders)
  BY <1>1, HoldersFinite, FS_Subset
<1>3. Cardinality(agents) \in Nat /\ MaxConcurrent \in Nat /\ Cardinality(Holders) \in Nat
  BY <1>2, HoldersFinite, FS_CardinalityType, TaskAssumption
<1>4. Cardinality(Holders) <= MaxConcurrent  BY DEF IInv, Slots
<1> QED  BY <1>2, <1>3, <1>4 DEF AgentsBounded

(* A set whose members are all the same has at most one.                   *)
LEMMA AtMostOne ==
    ASSUME NEW S, \A x, y \in S : x = y
    PROVE  Cardinality(S) <= 1
<1>1. CASE S = {}  BY <1>1, FS_EmptySet
<1>2. ASSUME NEW x \in S  PROVE Cardinality(S) <= 1
  <2>1. S = {x}  OBVIOUS
  <2> QED  BY <2>1, FS_Singleton
<1> QED  BY <1>1, <1>2

(* One worker takes a task, so one executes it.                            *)
LEMMA OnceExecutes == IInv => ExecutesOnce
<1> SUFFICES ASSUME IInv  PROVE ExecutesOnce
  OBVIOUS
<1>1. ASSUME NEW t \in Tasks
      PROVE  Cardinality({i \in DOMAIN published[t] : published[t][i] = "started"}) <= 1
  <2>1. \A i, j \in {k \in DOMAIN published[t] : published[t][k] = "started"} : i = j
    BY DEF IInv, Once, Tells
  <2> QED  BY <2>1, AtMostOne
<1>2. \A v, w \in agents : v[1] = w[1] => v = w
  BY DEF IInv, TypeOK, Shape, Once, Takes, Taken
<1> QED  BY <1>1, <1>2 DEF ExecutesOnce

(* What was announced is the outcome, and nothing follows it.              *)
LEMMA AgreedEvents == IInv => EventsAgree
BY DEF IInv, First, EndsOnce, Announced, EventsAgree

(* A canceller at its event has seen the worker end.                       *)
LEMMA SettledCancels == IInv => CancelSettles
<1> SUFFICES ASSUME IInv, NEW c \in Callers, call[c].pc = "event", starts[call[c].task] <= 1,
                    NEW w \in agents, w[1] = call[c].task
             PROVE  FALSE
  BY DEF CancelSettles
<1>1. w \in Workers /\ w[1] \in Tasks /\ worker[w] \in Taken
  BY WorkerParts DEF IInv, TypeOK, Shape
<1>2. Cancels(c, w[1])  BY DEF Cancels
<1>3. worker[w] \in Over  BY <1>1, <1>2 DEF IInv, First, EndsOnce
<1> QED  BY <1>1, <1>3 DEF Taken, Over

(* A sequence has at most as many elements as places.                      *)
LEMMA Places ==
    ASSUME NEW seq \in Seq(Tasks)
    PROVE  IsFiniteSet(ToSet(seq)) /\ Cardinality(ToSet(seq)) <= Len(seq)
<1> DEFINE f == [i \in 1 .. Len(seq) |-> seq[i]]
<1>1. Len(seq) \in Nat /\ DOMAIN seq = 1 .. Len(seq)  OBVIOUS
<1>2. IsFiniteSet(1 .. Len(seq)) /\ Cardinality(1 .. Len(seq)) = Len(seq)
  <2>1. 1 \in Int /\ Len(seq) \in Int  BY <1>1
  <2>2. IsFiniteSet(1 .. Len(seq))
            /\ Cardinality(1 .. Len(seq)) = IF 1 > Len(seq) THEN 0 ELSE Len(seq) - 1 + 1
    BY <2>1, FS_Interval
  <2> QED  BY <1>1, <2>2
<1>3. f \in Surjection(1 .. Len(seq), ToSet(seq))
  BY <1>1 DEF Surjection, ToSet
<1>4. IsFiniteSet(ToSet(seq)) /\ Cardinality(ToSet(seq)) <= Cardinality(1 .. Len(seq))
  BY <1>2, <1>3, FS_Surjection
<1> QED  BY <1>2, <1>4

(* The finished tasks still listed are among the retained ids.             *)
LEMMA ExactTable == IInv => TableIsExact
<1> SUFFICES ASSUME IInv  PROVE TableIsExact
  OBVIOUS
<1> DEFINE kept == {t \in registry : IsDone(t) /\ ~Finishing(t)}
<1>1. terminal \in Seq(Tasks) /\ Len(terminal) <= MaxTerminal  BY DEF IInv, TypeOK, Table
<1>2. kept \in SUBSET ToSet(terminal)  BY DEF IInv, Table
<1>3. IsFiniteSet(ToSet(terminal)) /\ Cardinality(ToSet(terminal)) <= Len(terminal)
  BY <1>1, Places
<1>4. IsFiniteSet(kept) /\ Cardinality(kept) <= Cardinality(ToSet(terminal))
  BY <1>2, <1>3, FS_Subset
<1>5. Cardinality(kept) \in Nat /\ Cardinality(ToSet(terminal)) \in Nat
          /\ Len(terminal) \in Nat /\ MaxTerminal \in Nat
  BY <1>1, <1>3, <1>4, FS_CardinalityType, TaskAssumption
<1>6. Cardinality(kept) <= MaxTerminal  BY <1>1, <1>3, <1>4, <1>5
<1> HIDE DEF kept
<1>7. \A t \in Tasks : state[t] \in {"pending", "running"} => t \in registry  BY DEF IInv, Table
<1> USE DEF kept
<1> QED  BY <1>6, <1>7 DEF TableIsExact

(* However tasks are started, cancelled, waited for, finished and cleaned  *)
(* up: no more sub-agents than slots, one execution of a task, events that *)
(* agree with the outcome, a table that forgets what is over and no more,  *)
(* and a cancellation announced after the sub-agent has ended.             *)
THEOREM TasksSound == Spec => []TasksAreSound
<1>1. IInv => TasksAreSound
  BY BoundedAgents, OnceExecutes, AgreedEvents, SettledCancels, ExactTable DEF IInv,
     TasksAreSound
<1> QED  BY <1>1, Invariance, PTL

(* The step of FirstOutcomeWins.                                           *)
KeepsOutcome ==
    /\ \A t \in Tasks : IsDone(t) /\ starts[t] <= 1 => state'[t] = state[t]
    /\ \A w \in agents' \ agents : starts[w[1]] <= 1 => state'[w[1]] = "running"

(* Every step keeps outcomes and opens sub-agents of running tasks only.   *)
LEMMA StepKeepsOutcome ==
    ASSUME IInv, [Next]_vars
    PROVE  KeepsOutcome
<1>0. Marks /\ Runs /\ Told /\ Calls /\ Takes /\ Settles /\ First  BY TypeParts DEF IInv, Once
<1>1. ASSUME NEW t \in Tasks, CreateTask(t)  PROVE  KeepsOutcome
  BY <1>1, <1>0 DEF CreateTask, KeepsOutcome, IsDone, DoneStates, Marks, Runs, running
<1>2. ASSUME NEW t \in Tasks, StartTask(t)  PROVE  KeepsOutcome
  BY <1>2, <1>0 DEF StartTask, KeepsOutcome, IsDone, DoneStates, Marks, Runs, running
<1>3. ASSUME NEW t \in Tasks, CreatedPublished(t)  PROVE  KeepsOutcome
  BY <1>3, <1>0 DEF CreatedPublished, KeepsOutcome, IsDone, DoneStates, Marks, Runs, running
<1>4. ASSUME NEW t \in Tasks, CreatorInterrupted(t)  PROVE  KeepsOutcome
  BY <1>4, <1>0 DEF CreatorInterrupted, KeepsOutcome, IsDone, DoneStates, Marks, Runs, running
<1>5. ASSUME NEW w \in Workers, Acquire(w)  PROVE  KeepsOutcome
  BY <1>5, <1>0, WorkerParts DEF Acquire, KeepsOutcome, IsDone, DoneStates, Marks, Runs,
     managed, At, Goto, Fail
<1>6. ASSUME NEW w \in Workers, StartedPublished(w)  PROVE  KeepsOutcome
  <2>1. /\ w[1] \in Tasks /\ \A t \in Tasks : t # w[1] => state'[t] = state[t]
        /\ IsDone(w[1]) => UNCHANGED state
        /\ agents' # agents => agents' = agents \cup {w} /\ UNCHANGED state
    BY <1>6, <1>0, WorkerParts DEF StartedPublished, Fail, Marks
  <2>2. starts[w[1]] <= 1 => state[w[1]] = "running"
    <3>1. worker[w] = "starting" /\ w \notin interrupted  BY <1>6 DEF StartedPublished, At
    <3>2. starts[w[1]] <= 1 => ~IsDone(w[1])
      BY <1>0, <2>1, <3>1 DEF First, EndsOnce, Stopped, Over, Finishes
    <3>3. state[w[1]] \notin Fresh  BY <1>0, <3>1 DEF Takes
    <3>4. state[w[1]] \in {"absent", "pending", "running"} \cup DoneStates
      BY <1>0, <2>1 DEF Marks
    <3> QED  BY <3>2, <3>3, <3>4 DEF IsDone, Fresh
  <2> QED  BY <2>1, <2>2 DEF KeepsOutcome
<1>7. ASSUME NEW w \in Workers, RunReturns(w)  PROVE  KeepsOutcome
  BY <1>7, <1>0, WorkerParts DEF RunReturns, KeepsOutcome, IsDone, DoneStates, Marks, Runs,
     managed, At, Goto, Fail
<1>8. ASSUME NEW w \in Workers, AgentClosed(w)  PROVE  KeepsOutcome
  BY <1>8, <1>0, WorkerParts DEF AgentClosed, KeepsOutcome, IsDone, DoneStates, Marks, Runs,
     managed, At, Goto, Fail
<1>9. ASSUME NEW w \in Workers, CloseInterrupted(w)  PROVE  KeepsOutcome
  BY <1>9, <1>0, WorkerParts DEF CloseInterrupted, KeepsOutcome, IsDone, DoneStates, Marks,
     Runs, managed, At, Goto, Fail
<1>10. ASSUME NEW w \in Workers, Settled(w)  PROVE  KeepsOutcome
  <2>1. agents' = agents /\ w[1] \in Tasks /\ \A t \in Tasks : t # w[1] => state'[t] = state[t]
    BY <1>10, <1>0, WorkerParts DEF Settled, Fail, Marks
  <2>2. ASSUME starts[w[1]] <= 1, IsDone(w[1])  PROVE  UNCHANGED state
    <3>1. Stopped(w)  BY <1>0, <2>1, <2>2 DEF First, EndsOnce
    <3>2. worker[w] \in {"closing", "settling"} /\ (worker[w] = "closing" => w \notin interrupted)
      BY <1>10 DEF Settled, At
    <3>3. outcome[w] # "ok"  BY <1>0, <3>1, <3>2 DEF Stopped, Over, Finishes, Settles
    <3> QED  BY <1>10, <2>2, <3>3 DEF Settled, Fail
  <2> QED  BY <2>1, <2>2 DEF KeepsOutcome
<1>11. ASSUME NEW w \in Workers, TerminalPublished(w)  PROVE  KeepsOutcome
  BY <1>11, <1>0, WorkerParts DEF TerminalPublished, KeepsOutcome, IsDone, DoneStates, Marks,
     Runs, managed, At, Goto, Fail
<1>12. ASSUME NEW w \in Workers, WorkerInterrupted(w)  PROVE  KeepsOutcome
  BY <1>12, <1>0, WorkerParts DEF WorkerInterrupted, KeepsOutcome, IsDone, DoneStates, Marks,
     Runs, managed, At, Goto, Fail
<1>13. ASSUME NEW c \in Callers, CancelTask(c)  PROVE  KeepsOutcome
  <2>1. agents' = agents /\ \E op : \E todo \in SUBSET Tasks : CancelNext(c, op, todo)
    BY <1>13, <1>0, CancellerParts DEF CancelTask, Marks
  <2>2. PICK op : \E todo \in SUBSET Tasks : CancelNext(c, op, todo)  BY <2>1
  <2>3. PICK todo \in SUBSET Tasks : CancelNext(c, op, todo)  BY <2>2
  <2>4. UNCHANGED state \/ \E t \in Tasks : ~IsDone(t) /\ state' = [state EXCEPT ![t] = "cancelled"]
    BY <1>0, <2>3, CancelEffect
  <2> QED  BY <1>0, <2>1, <2>4 DEF KeepsOutcome, Marks
<1>14. ASSUME NEW c \in Callers, CancelForSession(c)  PROVE  KeepsOutcome
  <2>1. agents' = agents /\ \E op : \E todo \in SUBSET Tasks : CancelNext(c, op, todo)
    BY <1>14, <1>0, CancellerParts DEF CancelForSession, Marks
  <2>2. PICK op : \E todo \in SUBSET Tasks : CancelNext(c, op, todo)  BY <2>1
  <2>3. PICK todo \in SUBSET Tasks : CancelNext(c, op, todo)  BY <2>2
  <2>4. UNCHANGED state \/ \E t \in Tasks : ~IsDone(t) /\ state' = [state EXCEPT ![t] = "cancelled"]
    BY <1>0, <2>3, CancelEffect
  <2> QED  BY <1>0, <2>1, <2>4 DEF KeepsOutcome, Marks
<1>15. ASSUME NEW c \in Callers, WaitForTask(c)  PROVE  KeepsOutcome
  BY <1>15, <1>0 DEF WaitForTask, KeepsOutcome, managed, running
<1>16. ASSUME NEW c \in Callers, WaitForAny(c)  PROVE  KeepsOutcome
  BY <1>16, <1>0 DEF WaitForAny, KeepsOutcome, managed, running
<1>17. ASSUME NEW c \in Callers, WaitForAll(c)  PROVE  KeepsOutcome
  BY <1>17, <1>0 DEF WaitForAll, KeepsOutcome, managed, running
<1>18. ASSUME NEW c \in Callers, WorkerAwaited(c)  PROVE  KeepsOutcome
  BY <1>18, <1>0 DEF WorkerAwaited, KeepsOutcome, managed, running
<1>19. ASSUME NEW c \in Callers, CancelPublished(c)  PROVE  KeepsOutcome
  <2>1. agents' = agents /\ \E op : \E todo \in SUBSET Tasks : CancelNext(c, op, todo)
    BY <1>19, <1>0, CancellerParts DEF CancelPublished, Marks
  <2>2. PICK op : \E todo \in SUBSET Tasks : CancelNext(c, op, todo)  BY <2>1
  <2>3. PICK todo \in SUBSET Tasks : CancelNext(c, op, todo)  BY <2>2
  <2>4. UNCHANGED state \/ \E t \in Tasks : ~IsDone(t) /\ state' = [state EXCEPT ![t] = "cancelled"]
    BY <1>0, <2>3, CancelEffect
  <2> QED  BY <1>0, <2>1, <2>4 DEF KeepsOutcome, Marks
<1>20. ASSUME NEW c \in Callers, WaitReturns(c)  PROVE  KeepsOutcome
  BY <1>20, <1>0 DEF WaitReturns, KeepsOutcome, managed, running
<1>21. ASSUME NEW c \in Callers, CancellerInterrupted(c)  PROVE  KeepsOutcome
  BY <1>21, <1>0 DEF CancellerInterrupted, KeepsOutcome, managed, running
<1>22. ASSUME NEW c \in Callers, WaitAbandoned(c)  PROVE  KeepsOutcome
  BY <1>22, <1>0 DEF WaitAbandoned, KeepsOutcome, managed, running
<1>23. ASSUME CleanupCompleted  PROVE  KeepsOutcome
  BY <1>23, <1>0 DEF CleanupCompleted, KeepsOutcome, managed, running
<1>24. ASSUME LoopShutdown  PROVE  KeepsOutcome
  BY <1>24, <1>0 DEF LoopShutdown, KeepsOutcome, managed, running
<1>25. ASSUME UNCHANGED vars  PROVE  KeepsOutcome
  BY <1>25 DEF vars, KeepsOutcome
<1> QED
  BY <1>1, <1>2, <1>3, <1>4, <1>5, <1>6, <1>7, <1>8, <1>9, <1>10, <1>11, <1>12, <1>13, <1>14,
     <1>15, <1>16, <1>17, <1>18, <1>19, <1>20, <1>21, <1>22, <1>23, <1>24, <1>25 DEF Next,
     WorkerAdvances, CallerCalls, CallerAdvances, CallerLeaves

(* Of completion, failure and cancellation the first to come stays, and a  *)
(* task that is over opens no sub-agent.                                   *)
THEOREM OutcomeStays == Spec => FirstOutcomeWins
<1>1. IInv /\ [Next]_vars => [KeepsOutcome]_vars  BY StepKeepsOutcome
<1> QED  BY <1>1, Invariance, PTL DEF Spec, FirstOutcomeWins, KeepsOutcome

=============================================================================
