------------------------- MODULE ToolJournalProofs --------------------------
(***************************************************************************)
(* Theorems about ToolJournal, for any processes, calls and sizes of the   *)
(* journal, and any finite set of turns.                                   *)
(***************************************************************************)
EXTENDS ToolJournal, FiniteSetTheorems, SequenceTheorems, WellFoundedInduction, TLAPS

-----------------------------------------------------------------------------
(* Events *)

Acks == [turns : SUBSET Turns, ops : SUBSET Ops, seen : SUBSET Ops]

(* What is written: of an operation, its own turn. *)
Written ==
    {TurnEvent(k, t) : k \in TerminalEvents \cup {"turn_started"}, t \in Turns}
      \cup {ToolEvent(k, o) : k \in {"tool_intent", "tool_outcome"}, o \in Ops}
      \cup {AckEvent(a) : a \in Acks}

Has(e, t) == "turn" \in DOMAIN e /\ e.turn = t

LEMMA TurnEventFields ==
    ASSUME NEW k, NEW t
    PROVE  /\ TurnEvent(k, t).kind = k
           /\ TurnEvent(k, t).turn = t
           /\ \A u : Has(TurnEvent(k, t), u) <=> u = t
BY DEF TurnEvent, Has

LEMMA ToolEventFields ==
    ASSUME NEW k, NEW o
    PROVE  /\ ToolEvent(k, o).kind = k
           /\ ToolEvent(k, o).turn = o[1]
           /\ ToolEvent(k, o).op = o
           /\ \A u : Has(ToolEvent(k, o), u) <=> u = o[1]
BY DEF ToolEvent, Has

LEMMA AckEventFields ==
    ASSUME NEW a
    PROVE  /\ AckEvent(a).kind = "recovery_acknowledged"
           /\ AckEvent(a).turns = a.turns
           /\ AckEvent(a).ops = a.ops
           /\ \A u : ~Has(AckEvent(a), u)
BY DEF AckEvent, Has

LEMMA WrittenKinds ==
    ASSUME NEW e \in Written
    PROVE  /\ e.kind \in TerminalEvents \cup {"turn_started"}
                => e.turn \in Turns /\ (\A u : Has(e, u) <=> u = e.turn)
           /\ e.kind \in {"tool_intent", "tool_outcome"}
                => e.op \in Ops /\ (\A u : Has(e, u) <=> u = e.op[1])
           /\ e.kind = "recovery_acknowledged"
                => e.turns \subseteq Turns /\ e.ops \subseteq Ops
           /\ e.kind \in TerminalEvents \cup {"turn_started", "tool_intent", "tool_outcome",
                                              "recovery_acknowledged"}
<1>1. CASE \E k \in TerminalEvents \cup {"turn_started"}, t \in Turns : e = TurnEvent(k, t)
  BY <1>1, TurnEventFields DEF TerminalEvents
<1>2. CASE \E k \in {"tool_intent", "tool_outcome"}, o \in Ops : e = ToolEvent(k, o)
  BY <1>2, ToolEventFields DEF TerminalEvents
<1>3. CASE \E a \in Acks : e = AckEvent(a)
  BY <1>3, AckEventFields DEF TerminalEvents, Acks
<1> QED  BY <1>1, <1>2, <1>3 DEF Written

LEMMA WrittenIsEvents == Written \subseteq Events
<1>1. \A k \in TerminalEvents \cup {"turn_started"}, t \in Turns : TurnEvent(k, t) \in Events
  BY DEF TurnEvent, Events
<1>2. \A k \in {"tool_intent", "tool_outcome"}, o \in Ops : ToolEvent(k, o) \in Events
  BY DEF ToolEvent, Events, Ops
<1>3. \A a \in Acks : AckEvent(a) \in Events
  BY DEF AckEvent, Events, Acks
<1> QED  BY <1>1, <1>2, <1>3 DEF Written

-----------------------------------------------------------------------------
(* Writes *)

LEMMA SmallestIsLeast ==
    ASSUME NEW S \in SUBSET Nat, S # {}
    PROVE  Smallest(S) \in S /\ \A j \in S : Smallest(S) <= j
<1>1. PICK m \in S : \A y \in S : ~ (<<y, m>> \in OpToRel(<, Nat))
  BY NatLessThanWellFounded, WFMin
<1>2. \A y \in S : ~ (y < m)
  BY <1>1 DEF OpToRel
<1>3. \A y \in S : m <= y
  BY <1>2
<1> QED  BY <1>3 DEF Smallest

(* The journal after a write: what was written, without the first d events.*)
Cut(J, d) ==
    /\ d \in Nat /\ d < Len(J)
    /\ Len(journal') = Len(J) - d
    /\ \A k \in 1..Len(journal') : journal'[k] = J[k + d]
    /\ d > 0 => J[d + 1].kind = "turn_started"

LEMMA AppendFacts ==
    ASSUME NEW S, NEW s \in Seq(S), NEW e \in S
    PROVE  /\ Append(s, e) \in Seq(S)
           /\ Len(Append(s, e)) = Len(s) + 1 /\ Len(s) \in Nat
           /\ \A k \in 1..Len(s) : Append(s, e)[k] = s[k]
           /\ Append(s, e)[Len(s) + 1] = e
OBVIOUS

LEMMA WriteCuts ==
    ASSUME journal \in Seq(Written), NEW e \in Written, Append1(e)
    PROVE  /\ journal' \in Seq(Written)
           /\ \E d \in Nat : Cut(Append(journal, e), d)
           /\ Len(journal) + 1 <= maxEvents => journal' = Append(journal, e)
<1> DEFINE J == Append(journal, e)
           C == CutCandidates(J)
<1>1. J \in Seq(Written) /\ Len(J) = Len(journal) + 1 /\ Len(journal) \in Nat
  BY AppendFacts
<1>2. journal' = Trim(J)
  BY DEF Append1
<1> HIDE DEF J
<1>3. CASE journal' = J
  <2>1. Cut(J, 0)
    BY <1>1, <1>3 DEF Cut
  <2> QED  BY <1>1, <1>3, <2>1 DEF J
<1>4. CASE ~(Len(J) <= maxEvents \/ C = {})
  <2>1. C \in SUBSET Nat /\ C # {}
    BY <1>1, <1>4 DEF CutCandidates
  <2>2. PICK i \in C : i = Smallest(C)
    BY <2>1, SmallestIsLeast
  <2>3. i \in 1..Len(J) /\ J[i].kind = "turn_started"
    BY <2>2 DEF CutCandidates
  <2>4. journal' = SubSeq(J, i, Len(J))
    BY <1>2, <1>4, <2>2 DEF Trim
  <2>5. \A k \in i..Len(J) : J[k] \in Written
    BY <1>1, <2>3, ElementOfSeq
  <2>6. /\ journal' \in Seq(Written)
        /\ Len(journal') = Len(J) - i + 1
        /\ \A k \in 1..(Len(J) - i + 1) : journal'[k] = J[i + k - 1]
    BY <1>1, <2>3, <2>4, <2>5, SubSeqProperties
  <2>7. Cut(J, i - 1)
    <3>1. i - 1 \in Nat /\ i - 1 < Len(J) /\ Len(journal') = Len(J) - (i - 1)
      BY <1>1, <2>3, <2>6
    <3>2. ASSUME NEW k \in 1..Len(journal') PROVE journal'[k] = J[k + (i - 1)]
      <4>1. k \in 1..(Len(J) - i + 1) /\ i + k - 1 = k + (i - 1)
        BY <1>1, <2>3, <2>6
      <4> QED  BY <2>6, <4>1
    <3>3. J[(i - 1) + 1].kind = "turn_started"
      BY <1>1, <2>3
    <3> QED  BY <3>1, <3>2, <3>3 DEF Cut
  <2> QED  BY <1>1, <1>4, <2>3, <2>6, <2>7 DEF J
<1> QED  BY <1>1, <1>2, <1>3, <1>4 DEF Trim, J

(* A step leaves the journal alone or writes one event to it.              *)
LEMMA EventsAfterWrite ==
    ASSUME journal \in Seq(Written), NEW e \in Written, Append1(e)
    PROVE  \A i \in DOMAIN journal' :
              journal'[i] = e \/ \E k \in DOMAIN journal : journal'[i] = journal[k]
<1>1. PICK d \in Nat : Cut(Append(journal, e), d)
  BY WriteCuts
<1>2. journal' \in Seq(Written)
  BY WriteCuts
<1> QED  BY <1>1, <1>2, AppendFacts DEF Cut

-----------------------------------------------------------------------------
(* Types, and which turn is where *)

Places ==
    /\ journal \in Seq(Written)
    /\ ack \in [Procs -> Acks]
    /\ \A p \in Procs : pc[p] \in InTurn <=> turn[p] \in Turns
    /\ \A p \in Procs : pc[p] \in {"executing", "executed"} => call[p] \in Calls

(* A turn is of one process, and one that was not submitted left no trace. *)
TurnInv ==
    /\ \A p \in Procs : turn[p] \in Turns => outcome[turn[p]] # "new" /\ turn[p] \notin died
    /\ \A p, q \in Procs : turn[p] \in Turns /\ turn[p] = turn[q] => p = q
    /\ \A t \in Turns : outcome[t] = "new" => t \notin died /\ t \notin missed
    /\ \A i \in DOMAIN journal : \A t \in Turns :
          Has(journal[i], t) => outcome[t] # "new"

BaseInv == TypeOK /\ Places /\ TurnInv

(* The events that a step may write. *)
MayWrite(e) ==
    \/ \E p \in Procs, t \in Turns : StartTurn(p, t) /\ e = TurnEvent("turn_started", t)
    \/ \E p \in Procs, c \in Calls : Intent(p, c) /\ e = ToolEvent("tool_intent", <<turn[p], c>>)
    \/ \E p \in Procs : Settle(p) /\ e = ToolEvent("tool_outcome", Op(p))
    \/ \E p \in Procs : TurnFails(p) /\ e = TurnEvent("turn_failed", turn[p])
    \/ \E p \in Procs : CancelTurn(p) /\ e = TurnEvent("turn_cancelled", turn[p])
    \/ \E p \in Procs : JournalCommitted(p) /\ e = TurnEvent("turn_committed", turn[p])
    \/ \E p \in Procs : AckAppend(p) /\ e = AckEvent(ack[p])

LEMMA StepsWrite ==
    ASSUME TypeOK, Places, Next
    PROVE  UNCHANGED journal \/ \E e \in Written : MayWrite(e) /\ Append1(e)
<1> USE DEF Places, InTurn
<1> DEFINE Goal == UNCHANGED journal \/ \E e \in Written : MayWrite(e) /\ Append1(e)
<1>1. ASSUME NEW p \in Procs, NEW t \in Turns, StartTurn(p, t) PROVE Goal
  <2>1. TurnEvent("turn_started", t) \in Written  BY DEF Written
  <2> QED  BY <1>1, <2>1 DEF StartTurn, AppendBestEffort, MayWrite
<1>2. ASSUME NEW p \in Procs, NEW c \in Calls, Intent(p, c) PROVE Goal
  <2>1. <<turn[p], c>> \in Ops  BY <1>2 DEF Intent, Ops
  <2>2. ToolEvent("tool_intent", <<turn[p], c>>) \in Written  BY <2>1 DEF Written
  <2> QED  BY <1>2, <2>2 DEF Intent, Begin, MayWrite
<1>3. ASSUME NEW p \in Procs, Settle(p) PROVE Goal
  <2>1. Op(p) \in Ops  BY <1>3 DEF Settle, Ops, Op
  <2>2. ToolEvent("tool_outcome", Op(p)) \in Written  BY <2>1 DEF Written
  <2> QED  BY <1>3, <2>2 DEF Settle, MayWrite
<1>4. ASSUME NEW p \in Procs, TurnFails(p) PROVE Goal
  <2>1. TurnEvent("turn_failed", turn[p]) \in Written
    BY <1>4 DEF Written, TurnFails, TerminalEvents
  <2> QED  BY <1>4, <2>1 DEF TurnFails, AppendBestEffort, MayWrite
<1>5. ASSUME NEW p \in Procs, CancelTurn(p) PROVE Goal
  <2>1. TurnEvent("turn_cancelled", turn[p]) \in Written
    BY <1>5 DEF Written, CancelTurn, TerminalEvents
  <2> QED  BY <1>5, <2>1 DEF CancelTurn, AppendBestEffort, MayWrite
<1>6. ASSUME NEW p \in Procs, JournalCommitted(p) PROVE Goal
  <2>1. TurnEvent("turn_committed", turn[p]) \in Written
    BY <1>6 DEF Written, JournalCommitted, TerminalEvents
  <2> QED  BY <1>6, <2>1 DEF JournalCommitted, AppendBestEffort, MayWrite
<1>7. ASSUME NEW p \in Procs, AckAppend(p) PROVE Goal
  <2>1. AckEvent(ack[p]) \in Written  BY DEF Written
  <2> QED  BY <1>7, <2>1 DEF AckAppend, MayWrite
<1>8. ASSUME NEW p \in Procs,
             \/ Execute(p) \/ CommitTurn(p) \/ Crash(p) \/ Restart(p) \/ AckRead(p)
             \/ \E o \in detached[p] : DetachedToolEnds(p, o)
      PROVE  Goal
  BY <1>8 DEF Execute, CommitTurn, Crash, Restart, AckRead, DetachedToolEnds
<1> HIDE DEF Goal
<1>9. Goal
  BY <1>1, <1>2, <1>3, <1>4, <1>5, <1>6, <1>7, <1>8 DEF Next, TurnStep, RecoveryStep
<1> QED  BY <1>9 DEF Goal

LEMMA JournalType ==
    ASSUME TypeOK, Places, [Next]_vars
    PROVE  journal' \in Seq(Written) /\ \A i \in DOMAIN journal' : journal'[i] \in Events
<1>1. journal' \in Seq(Written)
  BY StepsWrite, WriteCuts DEF vars, Places
<1> QED  BY <1>1, WrittenIsEvents

LEMMA TypeStep ==
    ASSUME TypeOK, Places, [Next]_vars
    PROVE  TypeOK' /\ Places'
<1> DEFINE Rest ==
      /\ pc' \in [Procs -> InTurn \cup {"idle", "acknowledging", "down"}]
      /\ turn' \in [Procs -> Turns \cup {NoTurn}]
      /\ call' \in [Procs -> Calls \cup {NoCall}]
      /\ tools' \in [Procs -> 0..MaxTools]
      /\ ack' \in [Procs -> Acks]
      /\ outcome' \in [Turns -> {"new", "running", "committed", "failed", "cancelled", "lost"}]
      /\ open' \subseteq Ops /\ effects' \subseteq Ops /\ reviewed' \subseteq Ops
      /\ detached' \in [Procs -> SUBSET Ops]
      /\ died' \subseteq Turns /\ missed' \subseteq Turns
      /\ acks' \in 0..MaxAcks
      /\ \A p \in Procs : pc'[p] \in InTurn <=> turn'[p] \in Turns
      /\ \A p \in Procs : pc'[p] \in {"executing", "executed"} => call'[p] \in Calls
<1>0. NoAck \in Acks  BY DEF NoAck, Acks
<1> USE BoundsAssumption, TurnsAssumption, <1>0 DEF TypeOK, Places, InTurn
<1>1. ASSUME NEW p \in Procs, NEW t \in Turns, StartTurn(p, t) PROVE Rest
  BY <1>1 DEF StartTurn, AppendBestEffort
<1>2. ASSUME NEW p \in Procs, NEW c \in Calls, Intent(p, c) PROVE Rest
  <2>1. <<turn[p], c>> \in Ops  BY <1>2 DEF Intent, Ops
  <2>2. ack' \in [Procs -> Acks]
    <3>1. \A q \in Procs : [ack[q] EXCEPT !.seen = @ \ {<<turn[p], c>>}] \in Acks
      BY DEF Acks
    <3> QED  BY <1>2, <3>1 DEF Intent
  <2>3. tools' \in [Procs -> 0..MaxTools]
    <3>1. tools[p] + 1 \in 0..MaxTools  BY <1>2 DEF Intent
    <3> QED  BY <1>2, <3>1 DEF Intent
  <2>4. /\ open' \subseteq Ops /\ reviewed' \subseteq Ops
        /\ UNCHANGED <<turn, outcome, detached, effects, died, missed, acks>>
    BY <1>2, <2>1 DEF Intent
  <2>5. call' = [call EXCEPT ![p] = c] /\ pc' = [pc EXCEPT ![p] = "executing"] /\ pc[p] = "running"
    BY <1>2 DEF Intent
  <2> QED  BY <2>2, <2>3, <2>4, <2>5
<1>3. ASSUME NEW p \in Procs, Execute(p) PROVE Rest
  <2>1. Op(p) \in Ops  BY <1>3 DEF Execute, Op, Ops
  <2> QED  BY <1>3, <2>1 DEF Execute
<1>4. ASSUME NEW p \in Procs, Settle(p) PROVE Rest
  BY <1>4 DEF Settle
<1>5. ASSUME NEW p \in Procs, TurnFails(p) PROVE Rest
  BY <1>5 DEF TurnFails, Leave, AppendBestEffort
<1>6. ASSUME NEW p \in Procs, CancelTurn(p) PROVE Rest
  <2>1. pc[p] = "executing" => Op(p) \in Ops  BY <1>6 DEF CancelTurn, Op, Ops
  <2> QED  BY <1>6, <2>1 DEF CancelTurn, Leave, AppendBestEffort
<1>7. ASSUME NEW p \in Procs, NEW o \in detached[p], DetachedToolEnds(p, o) PROVE Rest
  BY <1>7 DEF DetachedToolEnds
<1>8. ASSUME NEW p \in Procs, CommitTurn(p) PROVE Rest
  BY <1>8 DEF CommitTurn
<1>9. ASSUME NEW p \in Procs, JournalCommitted(p) PROVE Rest
  BY <1>9 DEF JournalCommitted, Leave, AppendBestEffort
<1>10. ASSUME NEW p \in Procs, Crash(p) PROVE Rest
  BY <1>10 DEF Crash
<1>11. ASSUME NEW p \in Procs, Restart(p) PROVE Rest
  BY <1>11 DEF Restart
<1>12. ASSUME NEW p \in Procs, AckRead(p) PROVE Rest
  <2>1. Interrupted(journal) \subseteq Turns /\ Unsettled(journal) \subseteq Ops
    BY ElementOfSeq, LenProperties, WrittenKinds
       DEF Interrupted, Started, Unsettled, Intents, Of
  <2>2. [turns |-> Interrupted(journal), ops |-> Unsettled(journal), seen |-> Unsettled(journal)]
           \in Acks
    BY <2>1 DEF Acks
  <2> QED  BY <1>12, <2>2 DEF AckRead
<1>13. ASSUME NEW p \in Procs, AckAppend(p) PROVE Rest
  BY <1>13 DEF AckAppend, Acks
<1>14. ASSUME UNCHANGED vars PROVE Rest
  BY <1>14 DEF vars
<1> HIDE DEF Rest, TypeOK, Places, InTurn
<1>15. Rest
  BY <1>1, <1>2, <1>3, <1>4, <1>5, <1>6, <1>7, <1>8, <1>9, <1>10, <1>11, <1>12, <1>13, <1>14
     DEF Next, TurnStep, RecoveryStep
<1>16. maxEvents' = maxEvents
  BY DEF Next, vars
<1>17. \A p \in Procs : ack'[p].turns \subseteq Turns /\ ack'[p].ops \subseteq Ops
  BY <1>15 DEF Rest, Acks
<1>18. journal' \in Seq(Written) /\ \A i \in DOMAIN journal' : journal'[i] \in Events
  BY JournalType
<1>19. Places'
  BY <1>15, <1>18 DEF Rest, Places
<1>20. TypeOK'
  <2>1. maxEvents' \in Limits  BY <1>16 DEF TypeOK
  <2> QED  BY <2>1, <1>15, <1>17, <1>18 DEF Rest, TypeOK
<1> QED  BY <1>19, <1>20

LEMMA WrittenTurnIsKnown ==
    ASSUME TypeOK, Places, TurnInv, NEW e, MayWrite(e), NEW u \in Turns, Has(e, u)
    PROVE  outcome'[u] # "new"
<1> USE TurnsAssumption DEF TypeOK, Places, InTurn, TurnInv
<1>1. ASSUME NEW p \in Procs, NEW t \in Turns, StartTurn(p, t), e = TurnEvent("turn_started", t)
      PROVE  outcome'[u] # "new"
  BY <1>1, TurnEventFields DEF StartTurn
<1>2. ASSUME NEW p \in Procs, NEW c \in Calls, Intent(p, c), e = ToolEvent("tool_intent", <<turn[p], c>>)
      PROVE  outcome'[u] # "new"
  BY <1>2, ToolEventFields DEF Intent
<1>3. ASSUME NEW p \in Procs, Settle(p), e = ToolEvent("tool_outcome", Op(p))
      PROVE  outcome'[u] # "new"
  BY <1>3, ToolEventFields DEF Settle, Op
<1>4. ASSUME NEW p \in Procs, TurnFails(p) \/ CancelTurn(p) \/ JournalCommitted(p),
             \E k \in TerminalEvents : e = TurnEvent(k, turn[p])
      PROVE  outcome'[u] # "new"
  BY <1>4, TurnEventFields DEF TurnFails, CancelTurn, JournalCommitted, Leave
<1>5. ASSUME NEW p \in Procs, e = AckEvent(ack[p]) PROVE FALSE
  BY <1>5, AckEventFields
<1> QED  BY <1>1, <1>2, <1>3, <1>4, <1>5 DEF MayWrite, TerminalEvents

LEMMA TurnStepKept ==
    ASSUME TypeOK, Places, TurnInv, [Next]_vars
    PROVE  TurnInv'
<1> DEFINE Rest ==
      /\ \A p \in Procs : turn'[p] \in Turns => outcome'[turn'[p]] # "new" /\ turn'[p] \notin died'
      /\ \A p, q \in Procs : turn'[p] \in Turns /\ turn'[p] = turn'[q] => p = q
      /\ \A t \in Turns : outcome'[t] = "new" => t \notin died' /\ t \notin missed'
      /\ \A t \in Turns : outcome[t] # "new" => outcome'[t] # "new"
<1>1. Rest
  <2> USE TurnsAssumption DEF TypeOK, Places, InTurn, TurnInv
  <2>1. ASSUME NEW p \in Procs, NEW t \in Turns, StartTurn(p, t) PROVE Rest
    BY <2>1 DEF StartTurn, AppendBestEffort
  <2>2. ASSUME NEW p \in Procs, NEW c \in Calls, Intent(p, c) PROVE Rest
    BY <2>2 DEF Intent
  <2>3. ASSUME NEW p \in Procs, Execute(p) PROVE Rest
    BY <2>3 DEF Execute
  <2>4. ASSUME NEW p \in Procs, Settle(p) PROVE Rest
    BY <2>4 DEF Settle
  <2>5. ASSUME NEW p \in Procs, TurnFails(p) PROVE Rest
    BY <2>5 DEF TurnFails, Leave, AppendBestEffort
  <2>6. ASSUME NEW p \in Procs, CancelTurn(p) PROVE Rest
    BY <2>6 DEF CancelTurn, Leave, AppendBestEffort
  <2>7. ASSUME NEW p \in Procs, NEW o \in detached[p], DetachedToolEnds(p, o) PROVE Rest
    BY <2>7 DEF DetachedToolEnds
  <2>8. ASSUME NEW p \in Procs, CommitTurn(p) PROVE Rest
    BY <2>8 DEF CommitTurn
  <2>9. ASSUME NEW p \in Procs, JournalCommitted(p) PROVE Rest
    BY <2>9 DEF JournalCommitted, Leave, AppendBestEffort
  <2>10. ASSUME NEW p \in Procs, Crash(p) PROVE Rest
    BY <2>10 DEF Crash
  <2>11. ASSUME NEW p \in Procs, Restart(p) \/ AckRead(p) \/ AckAppend(p) PROVE Rest
    BY <2>11 DEF Restart, AckRead, AckAppend
  <2>12. CASE UNCHANGED vars
    BY <2>12 DEF vars
  <2> HIDE DEF Rest
  <2> QED
    BY <2>1, <2>2, <2>3, <2>4, <2>5, <2>6, <2>7, <2>8, <2>9, <2>10, <2>11, <2>12
       DEF Next, TurnStep, RecoveryStep
<1>2. \A i \in DOMAIN journal' : \A t \in Turns : Has(journal'[i], t) => outcome'[t] # "new"
  <2>1. CASE UNCHANGED journal
    BY <1>1, <2>1 DEF TurnInv
  <2>2. ASSUME NEW e \in Written, MayWrite(e), Append1(e)
        PROVE  \A i \in DOMAIN journal' : \A t \in Turns : Has(journal'[i], t) => outcome'[t] # "new"
    <3>1. \A i \in DOMAIN journal' :
             journal'[i] = e \/ \E k \in DOMAIN journal : journal'[i] = journal[k]
      BY <2>2, EventsAfterWrite DEF Places
    <3> QED  BY <1>1, <2>2, <3>1, WrittenTurnIsKnown DEF TurnInv
  <2>3. UNCHANGED journal \/ \E e \in Written : MayWrite(e) /\ Append1(e)
    BY StepsWrite DEF vars
  <2> QED  BY <2>1, <2>2, <2>3
<1> QED  BY <1>1, <1>2 DEF TurnInv

LEMMA InitBase == Init => BaseInv
<1> SUFFICES ASSUME Init PROVE BaseInv
  OBVIOUS
<1>1. NoAck \in Acks  BY DEF NoAck, Acks
<1>2. Places
  BY <1>1, EmptySeq, TurnsAssumption DEF Init, Places, InTurn
<1>3. TypeOK
  BY <1>1, BoundsAssumption DEF Init, TypeOK, Acks, NoAck
<1>4. TurnInv
  BY TurnsAssumption DEF Init, TurnInv
<1> QED  BY <1>2, <1>3, <1>4 DEF BaseInv

LEMMA BaseStep == BaseInv /\ [Next]_vars => BaseInv'
BY TypeStep, TurnStepKept DEF BaseInv

(* Types hold, a turn is in at most one process, and a turn that was not *)
(* submitted left nothing in the journal.                                *)
THEOREM BaseInvariance == Spec => []BaseInv
<1> QED  BY InitBase, BaseStep, PTL DEF Spec

(* Every variable has its type (tool_journal.ToolJournal).                 *)
THEOREM TypeCorrect == Spec => []TypeOK
<1>1. BaseInv => TypeOK  BY DEF BaseInv
<1> QED  BY <1>1, BaseInvariance, PTL

-----------------------------------------------------------------------------
(* One process at a time: the events of a turn stand together *)

(* No start of a turn parts events of one turn. *)
NoneSpans(J) ==
    \A i, a, b \in DOMAIN J : J[i].kind = "turn_started" /\ a < i /\ i <= b
        => \A t \in Turns : ~(Has(J[a], t) /\ Has(J[b], t))

(* A turn has events before a later start. *)
Behind(J, t) == \E i, a \in DOMAIN J : J[i].kind = "turn_started" /\ a < i /\ Has(J[a], t)

BlockInv ==
    /\ NoneSpans(journal)
    /\ \A p \in Procs : turn[p] \in Turns => ~Behind(journal, turn[p])
    /\ Settled(journal) \subseteq Intents(journal)
    /\ \A p \in Procs : pc[p] \in {"executing", "executed"} => Op(p) \in Intents(journal)

LEMMA InOps ==
    ASSUME NEW J, NEW o
    PROVE  /\ o \in Intents(J) <=> \E i \in DOMAIN J : J[i].kind = "tool_intent" /\ J[i].op = o
           /\ o \in Settled(J) <=> \E i \in DOMAIN J : J[i].kind = "tool_outcome" /\ J[i].op = o
BY DEF Intents, Settled, Of

LEMMA CutPositions ==
    ASSUME NEW J \in Seq(Written), journal' \in Seq(Written), NEW d \in Nat, Cut(J, d)
    PROVE  /\ \A k \in DOMAIN journal' : k + d \in DOMAIN J /\ journal'[k] = J[k + d]
           /\ \A a \in DOMAIN J : a > d => a - d \in DOMAIN journal' /\ journal'[a - d] = J[a]
           /\ DOMAIN J = 1..Len(J) /\ Len(J) \in Nat
           /\ DOMAIN journal' = 1..Len(journal')
<1>1. /\ Len(J) \in Nat /\ DOMAIN J = 1..Len(J)
      /\ Len(journal') \in Nat /\ DOMAIN journal' = 1..Len(journal')
  OBVIOUS
<1>2. d < Len(J) /\ Len(journal') = Len(J) - d /\ \A k \in 1..Len(journal') : journal'[k] = J[k + d]
  BY DEF Cut
<1>3. \A k \in DOMAIN journal' : k + d \in DOMAIN J /\ journal'[k] = J[k + d]
  BY <1>1, <1>2
<1>4. ASSUME NEW a \in DOMAIN J, a > d
      PROVE  a - d \in DOMAIN journal' /\ journal'[a - d] = J[a]
  <2>1. a - d \in 1..Len(journal') /\ (a - d) + d = a
    BY <1>1, <1>2, <1>4
  <2> QED  BY <1>1, <1>2, <2>1
<1> QED  BY <1>1, <1>3, <1>4

LEMMA CutKeepsBlocks ==
    ASSUME NEW J \in Seq(Written), journal' \in Seq(Written), NEW d \in Nat, Cut(J, d),
           NoneSpans(J), Settled(J) \subseteq Intents(J)
    PROVE  /\ NoneSpans(journal')
           /\ \A t \in Turns : Behind(journal', t) => Behind(J, t)
           /\ Settled(journal') \subseteq Intents(journal')
           /\ \A o \in Ops : o \in Intents(J) /\ ~Behind(J, o[1]) => o \in Intents(journal')
<1>1. /\ \A k \in DOMAIN journal' : k + d \in DOMAIN J /\ journal'[k] = J[k + d]
      /\ \A a \in DOMAIN J : a > d => a - d \in DOMAIN journal' /\ journal'[a - d] = J[a]
      /\ DOMAIN J = 1..Len(J) /\ Len(J) \in Nat
      /\ DOMAIN journal' = 1..Len(journal')
  BY CutPositions
<1>2. d > 0 => d + 1 \in DOMAIN J /\ J[d + 1].kind = "turn_started"
  BY <1>1 DEF Cut
<1>3. NoneSpans(journal')
  <2> SUFFICES ASSUME NEW i \in DOMAIN journal', NEW a \in DOMAIN journal', NEW b \in DOMAIN journal',
                      journal'[i].kind = "turn_started", a < i, i <= b,
                      NEW t \in Turns, Has(journal'[a], t), Has(journal'[b], t)
               PROVE  FALSE
    BY DEF NoneSpans
  <2>1. a \in Nat /\ i \in Nat /\ b \in Nat /\ a + d < i + d /\ i + d <= b + d
    BY <1>1
  <2> QED  BY <1>1, <2>1 DEF NoneSpans
<1>4. ASSUME NEW t \in Turns, Behind(journal', t) PROVE Behind(J, t)
  <2>1. PICK i, a \in DOMAIN journal' :
           journal'[i].kind = "turn_started" /\ a < i /\ Has(journal'[a], t)
    BY <1>4 DEF Behind
  <2>2. a \in Nat /\ i \in Nat /\ a + d < i + d
    BY <1>1, <2>1
  <2> QED  BY <1>1, <2>1, <2>2 DEF Behind
<1>5. Settled(journal') \subseteq Intents(journal')
  <2> SUFFICES ASSUME NEW b \in DOMAIN journal', journal'[b].kind = "tool_outcome"
               PROVE  journal'[b].op \in Intents(journal')
    BY DEF Settled, Of
  <2> DEFINE o == journal'[b].op
  <2>1. b + d \in DOMAIN J /\ J[b + d].kind = "tool_outcome" /\ J[b + d].op = o
    BY <1>1
  <2>2. o \in Ops /\ Has(J[b + d], o[1]) /\ o[1] \in Turns
    BY <2>1, WrittenKinds, ElementOfSeq, <1>1 DEF Ops
  <2>3. o \in Intents(J)
    BY <2>1, InOps
  <2>4. PICK a \in DOMAIN J : J[a].kind = "tool_intent" /\ J[a].op = o
    BY <2>3, InOps
  <2>5. Has(J[a], o[1])
    BY <2>4, WrittenKinds, ElementOfSeq, <1>1
  <2>6. a > d
    <3> SUFFICES ASSUME ~(a > d) PROVE FALSE
      OBVIOUS
    <3>1. d > 0 /\ a < d + 1 /\ d + 1 <= b + d
      BY <1>1
    <3> QED  BY <1>2, <2>1, <2>2, <2>5, <3>1 DEF NoneSpans
  <2> QED  BY <1>1, <2>4, <2>6, InOps
<1>6. ASSUME NEW o \in Ops, o \in Intents(J), ~Behind(J, o[1]) PROVE o \in Intents(journal')
  <2>1. PICK a \in DOMAIN J : J[a].kind = "tool_intent" /\ J[a].op = o
    BY <1>6, InOps
  <2>2. Has(J[a], o[1])
    BY <2>1, WrittenKinds, ElementOfSeq, <1>1
  <2>3. a > d
    <3> SUFFICES ASSUME ~(a > d) PROVE FALSE
      OBVIOUS
    <3>1. d > 0 /\ a < d + 1
      BY <1>1
    <3> QED  BY <1>2, <1>6, <2>2, <3>1 DEF Behind
  <2> QED  BY <1>1, <2>1, <2>3, InOps
<1> QED  BY <1>3, <1>4, <1>5, <1>6

LEMMA AppendBlocks ==
    ASSUME NEW j \in Seq(Written), NEW e \in Written, NoneSpans(j),
           \A t \in Turns : Has(e, t) => ~Behind(j, t),
           e.kind = "turn_started" =>
              \A t \in Turns : Has(e, t) => \A a \in DOMAIN j : ~Has(j[a], t)
    PROVE  NoneSpans(Append(j, e))
<1> DEFINE J == Append(j, e)
           n == Len(j) + 1
<1>1. /\ DOMAIN J = 1..n /\ DOMAIN j = 1..Len(j) /\ Len(j) \in Nat
      /\ \A k \in DOMAIN j : J[k] = j[k]
      /\ J[n] = e
  BY AppendFacts
<1> SUFFICES ASSUME NEW i \in DOMAIN J, NEW a \in DOMAIN J, NEW b \in DOMAIN J,
                    J[i].kind = "turn_started", a < i, i <= b,
                    NEW t \in Turns, Has(J[a], t), Has(J[b], t)
             PROVE  FALSE
  BY DEF NoneSpans
<1> HIDE DEF J
<1>2. a \in DOMAIN j /\ Has(j[a], t)
  BY <1>1
<1>3. CASE b \in DOMAIN j
  <2>1. i \in DOMAIN j /\ j[i].kind = "turn_started"
    BY <1>1, <1>3
  <2> QED  BY <1>1, <1>2, <1>3, <2>1 DEF NoneSpans
<1>4. CASE b = n /\ i \in DOMAIN j
  BY <1>1, <1>2, <1>4 DEF Behind
<1>5. CASE b = n /\ i = n
  BY <1>1, <1>2, <1>5
<1> QED  BY <1>1, <1>3, <1>4, <1>5

LEMMA AppendBehind ==
    ASSUME NEW j \in Seq(Written), NEW e \in Written, NEW t, Behind(Append(j, e), t)
    PROVE  /\ \E a \in DOMAIN j : Has(j[a], t)
           /\ e.kind = "turn_started" \/ Behind(j, t)
<1> DEFINE J == Append(j, e)
           n == Len(j) + 1
<1>1. /\ DOMAIN J = 1..n /\ DOMAIN j = 1..Len(j) /\ Len(j) \in Nat
      /\ \A k \in DOMAIN j : J[k] = j[k]
      /\ J[n] = e
  BY AppendFacts
<1>2. PICK i, a \in DOMAIN J : J[i].kind = "turn_started" /\ a < i /\ Has(J[a], t)
  BY DEF Behind
<1> HIDE DEF J
<1>3. a \in DOMAIN j /\ Has(j[a], t)
  BY <1>1, <1>2
<1>4. CASE i \in DOMAIN j
  BY <1>1, <1>2, <1>3, <1>4 DEF Behind
<1>5. CASE i = n
  BY <1>1, <1>2, <1>3, <1>5
<1> QED  BY <1>1, <1>4, <1>5

LEMMA AppendOps ==
    ASSUME NEW j \in Seq(Written), NEW e \in Written
    PROVE  /\ \A o : o \in Intents(Append(j, e)) <=>
                        o \in Intents(j) \/ (e.kind = "tool_intent" /\ e.op = o)
           /\ \A o : o \in Settled(Append(j, e)) <=>
                        o \in Settled(j) \/ (e.kind = "tool_outcome" /\ e.op = o)
<1> DEFINE J == Append(j, e)
           n == Len(j) + 1
<1>1. /\ DOMAIN J = 1..n /\ DOMAIN j = 1..Len(j) /\ Len(j) \in Nat
      /\ \A k \in DOMAIN j : J[k] = j[k]
      /\ J[n] = e
  BY AppendFacts
<1>2. \A i : i \in DOMAIN J <=> i \in DOMAIN j \/ i = n
  BY <1>1
<1> HIDE DEF J, n
<1>3. \A o : o \in Intents(J) <=> o \in Intents(j) \/ (e.kind = "tool_intent" /\ e.op = o)
  BY <1>1, <1>2, InOps
<1>4. \A o : o \in Settled(J) <=> o \in Settled(j) \/ (e.kind = "tool_outcome" /\ e.op = o)
  BY <1>1, <1>2, InOps
<1> QED  BY <1>3, <1>4 DEF J

(* What a step does to the processes. *)
LEMMA StepMoves ==
    ASSUME TypeOK, Places, [Next]_vars, NEW p \in Procs
    PROVE  /\ turn'[p] \in Turns => turn'[p] = turn[p] \/ outcome[turn'[p]] = "new"
           /\ pc'[p] \in {"executing", "executed"} =>
                 /\ turn'[p] = turn[p] /\ turn[p] \in Turns
                 /\ \/ pc[p] \in {"executing", "executed"} /\ call'[p] = call[p]
                    \/ call'[p] \in Calls /\ Intent(p, call'[p])
<1> DEFINE Goal ==
      /\ turn'[p] \in Turns => turn'[p] = turn[p] \/ outcome[turn'[p]] = "new"
      /\ pc'[p] \in {"executing", "executed"} =>
            /\ turn'[p] = turn[p] /\ turn[p] \in Turns
            /\ \/ pc[p] \in {"executing", "executed"} /\ call'[p] = call[p]
               \/ call'[p] \in Calls /\ Intent(p, call'[p])
<1> USE TurnsAssumption DEF TypeOK, Places, InTurn
<1>1. ASSUME NEW q \in Procs, NEW t \in Turns, StartTurn(q, t) PROVE Goal
  BY <1>1 DEF StartTurn
<1>2. ASSUME NEW q \in Procs, NEW c \in Calls, Intent(q, c) PROVE Goal
  <2>1. /\ turn' = turn /\ pc[q] = "running"
        /\ call' = [call EXCEPT ![q] = c] /\ pc' = [pc EXCEPT ![q] = "executing"]
    BY <1>2 DEF Intent
  <2>2. CASE p = q  BY <1>2, <2>1, <2>2
  <2>3. CASE p # q  BY <2>1, <2>3
  <2> QED  BY <2>2, <2>3
<1>3. ASSUME NEW q \in Procs, Execute(q) \/ Settle(q) \/ CommitTurn(q) PROVE Goal
  BY <1>3 DEF Execute, Settle, CommitTurn
<1>4. ASSUME NEW q \in Procs, TurnFails(q) \/ CancelTurn(q) \/ JournalCommitted(q) PROVE Goal
  BY <1>4 DEF TurnFails, CancelTurn, JournalCommitted, Leave
<1>5. ASSUME NEW q \in Procs, NEW o \in detached[q], DetachedToolEnds(q, o) PROVE Goal
  BY <1>5 DEF DetachedToolEnds
<1>6. ASSUME NEW q \in Procs, Crash(q) \/ Restart(q) \/ AckRead(q) \/ AckAppend(q) PROVE Goal
  BY <1>6 DEF Crash, Restart, AckRead, AckAppend
<1>7. ASSUME UNCHANGED vars PROVE Goal
  BY <1>7 DEF vars
<1> HIDE DEF Goal, TypeOK, Places, InTurn
<1>8. Goal
  BY <1>1, <1>2, <1>3, <1>4, <1>5, <1>6, <1>7 DEF Next, TurnStep, RecoveryStep
<1> QED  BY <1>8 DEF Goal

(* Whose turn an event is about. *)
LEMMA WriterOfEvent ==
    ASSUME TypeOK, Places, NEW e, MayWrite(e)
    PROVE  /\ \A t \in Turns : Has(e, t) =>
                 \/ \E p \in Procs : turn[p] = t /\ e.kind # "turn_started"
                 \/ outcome[t] = "new" /\ e.kind = "turn_started"
           /\ e.kind = "turn_started" =>
                 \E p \in Procs, t \in Turns :
                     outcome[t] = "new" /\ turn'[p] = t /\ pc'[p] # "idle"
           /\ e.kind = "tool_outcome" =>
                 \E p \in Procs : pc[p] = "executed" /\ e.op = Op(p)
<1> DEFINE Goal ==
      /\ \A t \in Turns : Has(e, t) =>
            \/ \E p \in Procs : turn[p] = t /\ e.kind # "turn_started"
            \/ outcome[t] = "new" /\ e.kind = "turn_started"
      /\ e.kind = "turn_started" =>
            \E p \in Procs, t \in Turns :
                outcome[t] = "new" /\ turn'[p] = t /\ pc'[p] # "idle"
      /\ e.kind = "tool_outcome" =>
            \E p \in Procs : pc[p] = "executed" /\ e.op = Op(p)
<1>1. ASSUME NEW p \in Procs, NEW t \in Turns, StartTurn(p, t), e = TurnEvent("turn_started", t)
      PROVE  Goal
  <2>1. outcome[t] = "new" /\ turn'[p] = t /\ pc'[p] # "idle"
    BY <1>1 DEF StartTurn, TypeOK
  <2> QED  BY <1>1, <2>1, TurnEventFields
<1>2. ASSUME NEW p \in Procs, NEW c \in Calls, e = ToolEvent("tool_intent", <<turn[p], c>>)
      PROVE  Goal
  BY <1>2, ToolEventFields
<1>3. ASSUME NEW p \in Procs, Settle(p), e = ToolEvent("tool_outcome", Op(p)) PROVE Goal
  BY <1>3, ToolEventFields DEF Settle, Op
<1>4. ASSUME NEW p \in Procs, \E k \in TerminalEvents : e = TurnEvent(k, turn[p]) PROVE Goal
  BY <1>4, TurnEventFields DEF TerminalEvents
<1>5. ASSUME NEW p \in Procs, e = AckEvent(ack[p]) PROVE Goal
  BY <1>5, AckEventFields
<1> HIDE DEF Goal
<1>6. Goal
  BY <1>1, <1>2, <1>3, <1>4, <1>5 DEF MayWrite, TerminalEvents
<1> QED  BY <1>6 DEF Goal

LEMMA WriteBlocks ==
    ASSUME BaseInv, BlockInv, [Next]_vars, OneAtATime', NEW e \in Written, MayWrite(e)
    PROVE  /\ NoneSpans(Append(journal, e))
           /\ \A p \in Procs : turn'[p] \in Turns => ~Behind(Append(journal, e), turn'[p])
<1>1. TypeOK /\ Places /\ TurnInv /\ TypeOK' /\ Places'
  BY TypeStep DEF BaseInv
<1>2. journal \in Seq(Written)
  BY <1>1 DEF Places
<1>3. \A t \in Turns : outcome[t] = "new" => \A a \in DOMAIN journal : ~Has(journal[a], t)
  BY <1>1 DEF TurnInv
<1>4. NoneSpans(Append(journal, e))
  <2>1. \A t \in Turns : Has(e, t) => ~Behind(journal, t)
    BY <1>1, <1>3, WriterOfEvent DEF BlockInv, Behind
  <2>2. e.kind = "turn_started" =>
           \A t \in Turns : Has(e, t) => \A a \in DOMAIN journal : ~Has(journal[a], t)
    BY <1>1, <1>3, WriterOfEvent
  <2> QED  BY <1>2, <2>1, <2>2, AppendBlocks DEF BlockInv
<1>5. ASSUME NEW p \in Procs, turn'[p] \in Turns, Behind(Append(journal, e), turn'[p])
      PROVE  FALSE
  <2>1. outcome[turn'[p]] # "new"
    BY <1>2, <1>3, <1>5, AppendBehind
  <2>2. turn'[p] = turn[p]
    BY <1>1, <1>5, <2>1, StepMoves
  <2>3. e.kind = "turn_started"
    BY <1>2, <1>5, <2>2, AppendBehind DEF BlockInv
  <2>4. PICK q \in Procs, t \in Turns : outcome[t] = "new" /\ turn'[q] = t /\ pc'[q] # "idle"
    BY <1>1, <2>3, WriterOfEvent
  <2>5. pc'[p] # "idle"
    BY <1>1, <1>5 DEF Places, InTurn
  <2>6. p = q
    BY <2>4, <2>5 DEF OneAtATime
  <2> QED  BY <2>1, <2>4, <2>6
<1> QED  BY <1>4, <1>5

LEMMA BlockStep ==
    ASSUME BaseInv, BlockInv, [Next]_vars, OneAtATime'
    PROVE  BlockInv'
<1> DEFINE Writes == \E e \in Written : MayWrite(e) /\ Append1(e)
<1>1. TypeOK /\ Places /\ TurnInv /\ TypeOK' /\ Places'
  BY TypeStep DEF BaseInv
<1>2. journal \in Seq(Written) /\ journal' \in Seq(Written)
  BY <1>1 DEF Places
<1>3. ASSUME NEW p \in Procs, pc'[p] \in {"executing", "executed"}
      PROVE  Op(p)' \in Ops
  BY <1>1, <1>3 DEF Places, Op, Ops, InTurn
<1>4. CASE ~Writes
  <2>1. journal' = journal
    BY <1>1, <1>4, StepsWrite DEF vars
  <2>2. \A t \in Turns : outcome[t] = "new" => ~Behind(journal, t)
    BY <1>1 DEF TurnInv, Behind
  <2>3. \A p \in Procs : turn'[p] \in Turns => ~Behind(journal, turn'[p])
    BY <1>1, <2>2, StepMoves DEF BlockInv
  <2>4. ASSUME NEW p \in Procs, pc'[p] \in {"executing", "executed"}
        PROVE  Op(p)' \in Intents(journal)
    <3>1. CASE Intent(p, call'[p]) /\ call'[p] \in Calls /\ turn'[p] = turn[p]
      <4>1. ToolEvent("tool_intent", <<turn[p], call'[p]>>) \in Written
        BY <1>3, <2>4, <3>1 DEF Written, Op
      <4>2. Writes
        BY <3>1, <4>1 DEF MayWrite, Intent, Begin
      <4> QED  BY <1>4, <4>2
    <3> QED  BY <1>1, <2>4, <3>1, StepMoves DEF BlockInv, Op
  <2> QED  BY <2>1, <2>3, <2>4 DEF BlockInv
<1>5. ASSUME NEW e \in Written, MayWrite(e), Append1(e),
             \A p \in Procs, c \in Calls :
                Intent(p, c) => e = ToolEvent("tool_intent", <<turn[p], c>>)
      PROVE  BlockInv'
  <2> DEFINE J == Append(journal, e)
  <2>1. J \in Seq(Written)
    BY <1>2, AppendFacts
  <2>2. NoneSpans(J) /\ \A p \in Procs : turn'[p] \in Turns => ~Behind(J, turn'[p])
    BY <1>5, WriteBlocks
  <2>3. PICK d \in Nat : Cut(J, d)
    BY <1>2, <1>5, WriteCuts
  <2>4. Settled(J) \subseteq Intents(J)
    BY <1>1, <1>2, <1>5, AppendOps, WriterOfEvent DEF BlockInv
  <2>5. ASSUME NEW p \in Procs, pc'[p] \in {"executing", "executed"}
        PROVE  Op(p)' \in Intents(J)
    <3>1. CASE Intent(p, call'[p]) /\ call'[p] \in Calls /\ turn'[p] = turn[p]
      <4>0. e = ToolEvent("tool_intent", <<turn[p], call'[p]>>)
        BY <1>5, <3>1
      <4>1. e.kind = "tool_intent" /\ e.op = <<turn[p], call'[p]>>
        BY <4>0, ToolEventFields
      <4> QED  BY <1>2, <3>1, <4>1, AppendOps DEF Op
    <3>2. CASE pc[p] \in {"executing", "executed"} /\ call'[p] = call[p] /\ turn'[p] = turn[p]
      BY <1>2, <3>2, AppendOps DEF BlockInv, Op
    <3>3. /\ turn'[p] = turn[p]
          /\ \/ pc[p] \in {"executing", "executed"} /\ call'[p] = call[p]
             \/ call'[p] \in Calls /\ Intent(p, call'[p])
      BY <1>1, <2>5, StepMoves
    <3> QED  BY <3>1, <3>2, <3>3
  <2> HIDE DEF J
  <2>6. /\ NoneSpans(journal')
        /\ \A t \in Turns : Behind(journal', t) => Behind(J, t)
        /\ Settled(journal') \subseteq Intents(journal')
        /\ \A o \in Ops : o \in Intents(J) /\ ~Behind(J, o[1]) => o \in Intents(journal')
    BY <1>2, <2>1, <2>2, <2>3, <2>4, CutKeepsBlocks
  <2>7. ASSUME NEW p \in Procs, pc'[p] \in {"executing", "executed"}
        PROVE  Op(p)' \in Intents(journal')
    BY <1>1, <1>3, <2>2, <2>5, <2>6, <2>7 DEF Op, Places, InTurn
  <2> QED  BY <2>2, <2>6, <2>7 DEF BlockInv
<1>6. CASE \E p \in Procs, c \in Calls : Intent(p, c)
  <2>1. PICK p \in Procs, c \in Calls : Intent(p, c)
    BY <1>6
  <2> DEFINE e == ToolEvent("tool_intent", <<turn[p], c>>)
  <2>2. e \in Written
    BY <1>1, <2>1 DEF Written, Intent, Places, InTurn, Ops
  <2>3. MayWrite(e) /\ Append1(e)
    BY <2>1 DEF MayWrite, Intent, Begin
  <2>4. ASSUME NEW q \in Procs, NEW x \in Calls, Intent(q, x) PROVE q = p /\ x = c
    <3>1. /\ pc[p] = "running" /\ pc' = [pc EXCEPT ![p] = "executing"]
          /\ pc[q] = "running" /\ pc' = [pc EXCEPT ![q] = "executing"]
          /\ call' = [call EXCEPT ![p] = c] /\ call' = [call EXCEPT ![q] = x]
      BY <2>1, <2>4 DEF Intent
    <3>2. q = p
      BY <1>1, <3>1 DEF TypeOK
    <3> QED  BY <1>1, <3>1, <3>2 DEF TypeOK
  <2> QED  BY <1>5, <2>2, <2>3, <2>4
<1>7. CASE Writes /\ ~\E p \in Procs, c \in Calls : Intent(p, c)
  BY <1>5, <1>7
<1> QED  BY <1>4, <1>6, <1>7

LEMMA InitBlocks == Init => BlockInv
<1> SUFFICES ASSUME Init PROVE BlockInv
  OBVIOUS
<1>1. DOMAIN journal = {} /\ \A p \in Procs : pc[p] = "idle" /\ turn[p] = NoTurn
  BY DEF Init
<1> QED  BY <1>1, TurnsAssumption DEF BlockInv, NoneSpans, Settled, Intents, Of

(* While one process at a time uses the session, the events of a turn lie *)
(* between two starts, and the running turn's after the last one.         *)
THEOREM BlockInvariance == Spec /\ []OneAtATime => []BlockInv
<1> QED  BY InitBlocks, BlockStep, BaseInvariance, PTL DEF Spec

(* "No false crash evidence can be manufactured" (tool_journal.py): while  *)
(* one process at a time uses the session, no trim ever parts an outcome   *)
(* from its intent, nor takes the intent of a call in progress.            *)
THEOREM NothingIsManufactured == Spec /\ []OneAtATime => []JournalIsTrue
<1>1. TypeOK /\ BlockInv => JournalIsTrue
  BY DEF BlockInv, JournalIsTrue, NothingManufactured, Orphaned
<1> QED  BY <1>1, TypeCorrect, BlockInvariance, PTL

LEMMA EventsAreFinite ==
    ASSUME NEW j \in Seq(Written), NEW t
    PROVE  IsFiniteSet(EventsOf(j, t)) /\ Cardinality(EventsOf(j, t)) \in Nat
<1>1. EventsOf(j, t) \in SUBSET (1..Len(j)) /\ Len(j) \in Nat
  BY DEF EventsOf
<1>2. IsFiniteSet(1..Len(j))
  BY <1>1, FS_Interval
<1>3. IsFiniteSet(EventsOf(j, t))
  BY <1>1, <1>2, FS_Subset
<1> QED  BY <1>3, FS_CardinalityType

LEMMA EventsStay ==
    ASSUME NEW j \in Seq(Written), NEW k \in Seq(Written), NEW t, NEW d \in Nat,
           \A a \in EventsOf(j, t) : a > d /\ a - d \in EventsOf(k, t)
    PROVE  Cardinality(EventsOf(j, t)) <= Cardinality(EventsOf(k, t))
<1> DEFINE S == EventsOf(j, t)
           T == EventsOf(k, t)
           f == [a \in S |-> a - d]
<1>1. IsFiniteSet(T)
  BY EventsAreFinite
<1>2. S \subseteq Nat
  BY DEF EventsOf
<1>3. f \in Injection(S, T)
  BY <1>2 DEF Injection, IsInjective
<1> QED  BY <1>1, <1>3, FS_Injection

LEMMA TrimStep ==
    ASSUME BaseInv, BlockInv, [Next]_vars, OneAtATime', NEW t \in Turns,
           Cardinality(EventsOf(journal', t)) < Cardinality(EventsOf(journal, t))
    PROVE  EventsOf(journal', t) = {} /\ \A p \in Procs : turn'[p] # t
<1>1. TypeOK /\ Places /\ TypeOK' /\ Places'
  BY TypeStep DEF BaseInv
<1>2. journal \in Seq(Written) /\ journal' \in Seq(Written)
  BY <1>1 DEF Places
<1>3. /\ Cardinality(EventsOf(journal', t)) \in Nat
      /\ Cardinality(EventsOf(journal, t)) \in Nat
  BY <1>2, EventsAreFinite
<1>4. journal' # journal
  BY <1>3
<1>5. PICK e \in Written : MayWrite(e) /\ Append1(e)
  BY <1>1, <1>4, StepsWrite DEF vars
<1> DEFINE J == Append(journal, e)
<1>6. J \in Seq(Written) /\ DOMAIN journal \subseteq DOMAIN J
      /\ \A k \in DOMAIN journal : J[k] = journal[k]
  BY <1>2, AppendFacts
<1>7. NoneSpans(J) /\ \A p \in Procs : turn'[p] \in Turns => ~Behind(J, turn'[p])
  BY <1>5, WriteBlocks
<1>8. PICK d \in Nat : Cut(J, d)
  BY <1>2, <1>5, WriteCuts
<1> HIDE DEF J
<1>9. /\ \A k \in DOMAIN journal' : k + d \in DOMAIN J /\ journal'[k] = J[k + d]
      /\ \A a \in DOMAIN J : a > d => a - d \in DOMAIN journal' /\ journal'[a - d] = J[a]
      /\ DOMAIN J = 1..Len(J) /\ Len(J) \in Nat
      /\ DOMAIN journal' = 1..Len(journal')
  BY <1>2, <1>6, <1>8, CutPositions
<1>10. d > 0 => d + 1 \in DOMAIN J /\ J[d + 1].kind = "turn_started"
  BY <1>8, <1>9 DEF Cut
<1>11. \A a \in DOMAIN journal : a \in EventsOf(journal, t) <=> Has(J[a], t)
  BY <1>6 DEF EventsOf, Has
<1>12. \A k \in DOMAIN journal' : k \in EventsOf(journal', t) <=> Has(J[k + d], t)
  BY <1>9 DEF EventsOf, Has
<1>13. EventsOf(journal', t) = {}
  <2> SUFFICES ASSUME NEW b \in EventsOf(journal', t) PROVE FALSE
    OBVIOUS
  <2>1. b \in DOMAIN journal' /\ b + d \in DOMAIN J /\ Has(J[b + d], t)
    BY <1>9, <1>12 DEF EventsOf
  <2>2. ASSUME NEW a \in EventsOf(journal, t) PROVE a > d /\ a - d \in EventsOf(journal', t)
    <3>1. a \in DOMAIN J /\ a \in Nat /\ Has(J[a], t)
      BY <1>6, <1>9, <1>11 DEF EventsOf
    <3>2. a > d
      <4> SUFFICES ASSUME ~(a > d) PROVE FALSE
        OBVIOUS
      <4>1. d > 0 /\ a < d + 1 /\ d + 1 <= b + d
        BY <1>9, <2>1, <3>1
      <4> QED  BY <1>7, <1>10, <2>1, <3>1, <4>1 DEF NoneSpans
    <3>3. a - d \in DOMAIN journal' /\ (a - d) + d = a
      BY <1>9, <3>1, <3>2
    <3> QED  BY <1>12, <3>1, <3>2, <3>3
  <2>3. Cardinality(EventsOf(journal, t)) <= Cardinality(EventsOf(journal', t))
    BY <1>2, <2>2, EventsStay
  <2> QED  BY <1>3, <2>3
<1>14. ASSUME NEW p \in Procs, turn'[p] = t PROVE FALSE
  <2>1. PICK a : a \in EventsOf(journal, t)
    BY <1>3, <1>13, FS_EmptySet
  <2>2. a \in DOMAIN J /\ a \in Nat /\ Has(J[a], t)
    BY <1>6, <1>9, <1>11, <2>1 DEF EventsOf
  <2>3. ~(a > d)
    <3> SUFFICES ASSUME a > d PROVE FALSE
      OBVIOUS
    <3>1. a - d \in DOMAIN journal' /\ (a - d) + d = a
      BY <1>9, <2>2
    <3> QED  BY <1>12, <1>13, <2>2, <3>1
  <2>4. d > 0 /\ a < d + 1
    BY <1>9, <2>2, <2>3
  <2>5. Behind(J, t)
    BY <1>10, <2>2, <2>4 DEF Behind
  <2> QED  BY <1>7, <1>14, <2>5
<1> QED  BY <1>13, <1>14

(* "A cut at a turn boundary drops whole turns", and never the one in      *)
(* progress, while one process at a time uses the session                  *)
(* (tool_journal._trim_events).                                            *)
THEOREM TrimsAreWhole == Spec /\ []OneAtATime => TrimsWholeTurns
<1> DEFINE A == OneAtATime' =>
         \A t \in Turns : Cardinality(EventsOf(journal', t)) < Cardinality(EventsOf(journal, t))
          => /\ EventsOf(journal', t) = {}
             /\ \A p \in Procs : turn'[p] # t
<1>1. BaseInv /\ BlockInv /\ [Next]_vars => [A]_vars
  <2> SUFFICES ASSUME BaseInv, BlockInv, [Next]_vars, OneAtATime', NEW t \in Turns,
                      Cardinality(EventsOf(journal', t)) < Cardinality(EventsOf(journal, t))
               PROVE  EventsOf(journal', t) = {} /\ \A p \in Procs : turn'[p] # t
    OBVIOUS
  <2> QED  BY TrimStep
<1>2. TrimsWholeTurns <=> [][A]_vars
  BY DEF TrimsWholeTurns
<1> HIDE DEF A
<1> QED  BY <1>1, <1>2, BaseInvariance, BlockInvariance, PTL DEF Spec

-----------------------------------------------------------------------------
(* What the journal tells of crashes and effects as long as it has room    *)
(* for all that is written: what follows, up to TellsCrashes.              *)

(* What one more event changes *)

LEMMA ReadsOfAppend ==
    ASSUME NEW j \in Seq(Written), NEW e \in Written, NEW kinds
    PROVE  /\ e.kind \in kinds => Of(Append(j, e), kinds) = Of(j, kinds) \cup {e}
           /\ e.kind \notin kinds => Of(Append(j, e), kinds) = Of(j, kinds)
<1> DEFINE J == Append(j, e)
           n == Len(j) + 1
<1>1. /\ DOMAIN J = 1..n /\ DOMAIN j = 1..Len(j) /\ Len(j) \in Nat
      /\ \A k \in DOMAIN j : J[k] = j[k]
      /\ J[n] = e
  BY AppendFacts
<1>2. \A i : i \in DOMAIN J <=> i \in DOMAIN j \/ i = n
  BY <1>1
<1> HIDE DEF J, n
<1>3. \A x : x \in Of(J, kinds) <=> x \in Of(j, kinds) \/ (e.kind \in kinds /\ x = e)
  BY <1>1, <1>2 DEF Of
<1> QED  BY <1>3 DEF J

LEMMA DuplicatesStay ==
    ASSUME NEW j \in Seq(Written), NEW e \in Written
    PROVE  /\ Duplicated(j) => Duplicated(Append(j, e))
           /\ e.kind = "tool_intent" /\ e.op \in Intents(j) => Duplicated(Append(j, e))
<1> DEFINE J == Append(j, e)
           n == Len(j) + 1
<1>1. /\ DOMAIN J = 1..n /\ DOMAIN j = 1..Len(j) /\ Len(j) \in Nat
      /\ \A k \in DOMAIN j : J[k] = j[k]
      /\ J[n] = e
  BY AppendFacts
<1>2. n \notin DOMAIN j /\ \A i : i \in DOMAIN J <=> i \in DOMAIN j \/ i = n
  BY <1>1
<1> HIDE DEF J, n
<1>3. Duplicated(j) => Duplicated(J)
  BY <1>1, <1>2 DEF Duplicated
<1>4. ASSUME e.kind = "tool_intent", e.op \in Intents(j) PROVE Duplicated(J)
  <2>1. PICK i \in DOMAIN j : j[i].kind = "tool_intent" /\ j[i].op = e.op
    BY <1>4 DEF Intents, Of
  <2>2. i # n /\ i \in DOMAIN J /\ n \in DOMAIN J /\ J[i] = j[i]
    BY <1>1, <1>2, <2>1
  <2> QED  BY <1>1, <1>4, <2>1, <2>2 DEF Duplicated
<1> QED  BY <1>3, <1>4 DEF J


LEMMA TurnEventReads ==
    ASSUME NEW j \in Seq(Written), NEW t \in Turns,
           NEW k \in TerminalEvents \cup {"turn_started"}
    PROVE  LET J == Append(j, TurnEvent(k, t)) IN
           /\ Intents(J) = Intents(j) /\ Settled(J) = Settled(j) /\ AckedOps(J) = AckedOps(j)
           /\ Started(J) = Started(j) \cup (IF k = "turn_started" THEN {t} ELSE {})
           /\ Ended(J) = Ended(j) \cup (IF k = "turn_started" THEN {} ELSE {t})
           /\ Duplicated(j) => Duplicated(J)
<1> DEFINE e == TurnEvent(k, t)
           J == Append(j, e)
<1>1. e \in Written /\ e.kind = k /\ e.turn = t
  <2>1. e \in Written  BY DEF Written
  <2> QED  BY <2>1, TurnEventFields
<1> HIDE DEF e
<1>2. /\ k \notin {"tool_intent"} /\ k \notin {"tool_outcome"} /\ k \notin {"recovery_acknowledged"}
      /\ k \in {"turn_started"} <=> k = "turn_started"
      /\ k \in TerminalEvents <=> k # "turn_started"
  BY DEF TerminalEvents
<1>3. /\ Of(J, {"tool_intent"}) = Of(j, {"tool_intent"})
      /\ Of(J, {"tool_outcome"}) = Of(j, {"tool_outcome"})
      /\ Of(J, {"recovery_acknowledged"}) = Of(j, {"recovery_acknowledged"})
  BY <1>1, <1>2, ReadsOfAppend
<1>4. Of(J, {"turn_started"}) = Of(j, {"turn_started"}) \cup (IF k = "turn_started" THEN {e} ELSE {})
  BY <1>1, <1>2, ReadsOfAppend
<1>5. Of(J, TerminalEvents) = Of(j, TerminalEvents) \cup (IF k = "turn_started" THEN {} ELSE {e})
  BY <1>1, <1>2, ReadsOfAppend
<1>6. Duplicated(j) => Duplicated(J)
  BY <1>1, DuplicatesStay
<1> HIDE DEF J
<1>7. Intents(J) = Intents(j) /\ Settled(J) = Settled(j) /\ AckedOps(J) = AckedOps(j)
  BY <1>3 DEF Intents, Settled, AckedOps
<1>8. Started(J) = Started(j) \cup (IF k = "turn_started" THEN {t} ELSE {})
  BY <1>1, <1>4 DEF Started
<1>9. Ended(J) = Ended(j) \cup (IF k = "turn_started" THEN {} ELSE {t})
  BY <1>1, <1>5 DEF Ended
<1> QED  BY <1>6, <1>7, <1>8, <1>9 DEF J, e

LEMMA StartReads ==
    ASSUME NEW j \in Seq(Written), NEW t \in Turns
    PROVE  LET J == Append(j, TurnEvent("turn_started", t)) IN
           /\ Intents(J) = Intents(j) /\ Settled(J) = Settled(j) /\ AckedOps(J) = AckedOps(j)
           /\ Started(J) = Started(j) \cup {t} /\ Ended(J) = Ended(j)
           /\ Duplicated(j) => Duplicated(J)
<1>1. PICK k \in TerminalEvents \cup {"turn_started"} : k = "turn_started"
  OBVIOUS
<1> DEFINE J == Append(j, TurnEvent(k, t))
<1>2. /\ Intents(J) = Intents(j) /\ Settled(J) = Settled(j) /\ AckedOps(J) = AckedOps(j)
      /\ Started(J) = Started(j) \cup (IF k = "turn_started" THEN {t} ELSE {})
      /\ Ended(J) = Ended(j) \cup (IF k = "turn_started" THEN {} ELSE {t})
      /\ Duplicated(j) => Duplicated(J)
  BY TurnEventReads
<1> HIDE DEF J
<1>3. Started(J) = Started(j) \cup {t} /\ Ended(J) = Ended(j)
  BY <1>1, <1>2
<1> QED  BY <1>1, <1>2, <1>3 DEF J

LEMMA EndReads ==
    ASSUME NEW j \in Seq(Written), NEW t \in Turns, NEW k \in TerminalEvents
    PROVE  LET J == Append(j, TurnEvent(k, t)) IN
           /\ Intents(J) = Intents(j) /\ Settled(J) = Settled(j) /\ AckedOps(J) = AckedOps(j)
           /\ Started(J) = Started(j) /\ Ended(J) = Ended(j) \cup {t}
           /\ Duplicated(j) => Duplicated(J)
<1>1. k \in TerminalEvents \cup {"turn_started"} /\ k # "turn_started"
  BY DEF TerminalEvents
<1> DEFINE J == Append(j, TurnEvent(k, t))
<1>2. /\ Intents(J) = Intents(j) /\ Settled(J) = Settled(j) /\ AckedOps(J) = AckedOps(j)
      /\ Started(J) = Started(j) \cup (IF k = "turn_started" THEN {t} ELSE {})
      /\ Ended(J) = Ended(j) \cup (IF k = "turn_started" THEN {} ELSE {t})
      /\ Duplicated(j) => Duplicated(J)
  BY <1>1, TurnEventReads
<1> HIDE DEF J
<1>3. Started(J) = Started(j) /\ Ended(J) = Ended(j) \cup {t}
  BY <1>1, <1>2
<1> QED  BY <1>2, <1>3 DEF J

LEMMA ToolEventReads ==
    ASSUME NEW j \in Seq(Written), NEW o \in Ops, NEW k \in {"tool_intent", "tool_outcome"}
    PROVE  LET J == Append(j, ToolEvent(k, o)) IN
           /\ Intents(J) = Intents(j) \cup (IF k = "tool_intent" THEN {o} ELSE {})
           /\ Settled(J) = Settled(j) \cup (IF k = "tool_outcome" THEN {o} ELSE {})
           /\ AckedOps(J) = AckedOps(j) /\ Started(J) = Started(j) /\ Ended(J) = Ended(j)
           /\ Duplicated(j) \/ (k = "tool_intent" /\ o \in Intents(j)) => Duplicated(J)
<1> DEFINE e == ToolEvent(k, o)
           J == Append(j, e)
<1>1. e \in Written /\ e.kind = k /\ e.op = o
  BY ToolEventFields DEF Written
<1> HIDE DEF e
<1>2. k \notin {"recovery_acknowledged"} /\ k \notin {"turn_started"} /\ k \notin TerminalEvents
  BY DEF TerminalEvents
<1>3. /\ Of(J, {"turn_started"}) = Of(j, {"turn_started"})
      /\ Of(J, TerminalEvents) = Of(j, TerminalEvents)
      /\ Of(J, {"recovery_acknowledged"}) = Of(j, {"recovery_acknowledged"})
  BY <1>1, <1>2, ReadsOfAppend
<1>4. Of(J, {"tool_intent"}) = Of(j, {"tool_intent"}) \cup (IF k = "tool_intent" THEN {e} ELSE {})
  BY <1>1, ReadsOfAppend
<1>5. Of(J, {"tool_outcome"}) = Of(j, {"tool_outcome"}) \cup (IF k = "tool_outcome" THEN {e} ELSE {})
  BY <1>1, ReadsOfAppend
<1>6. Duplicated(j) \/ (k = "tool_intent" /\ o \in Intents(j)) => Duplicated(J)
  BY <1>1, DuplicatesStay
<1> HIDE DEF J
<1>7. AckedOps(J) = AckedOps(j) /\ Started(J) = Started(j) /\ Ended(J) = Ended(j)
  BY <1>3 DEF AckedOps, Started, Ended
<1>8. Intents(J) = Intents(j) \cup (IF k = "tool_intent" THEN {o} ELSE {})
  BY <1>1, <1>4 DEF Intents
<1>9. Settled(J) = Settled(j) \cup (IF k = "tool_outcome" THEN {o} ELSE {})
  BY <1>1, <1>5 DEF Settled
<1> QED  BY <1>6, <1>7, <1>8, <1>9 DEF J, e

LEMMA AckEventReads ==
    ASSUME NEW j \in Seq(Written), NEW a \in Acks
    PROVE  LET J == Append(j, AckEvent(a)) IN
           /\ Intents(J) = Intents(j) /\ Settled(J) = Settled(j)
           /\ AckedOps(J) = AckedOps(j) \cup a.ops
           /\ Started(J) = Started(j) /\ Ended(J) = Ended(j)
           /\ Duplicated(j) => Duplicated(J)
<1> DEFINE e == AckEvent(a)
           J == Append(j, e)
<1>1. e \in Written /\ e.kind = "recovery_acknowledged" /\ e.ops = a.ops
  BY AckEventFields DEF Written
<1> HIDE DEF e
<1>2. "recovery_acknowledged" \notin TerminalEvents
  BY DEF TerminalEvents
<1>3. /\ Of(J, {"turn_started"}) = Of(j, {"turn_started"})
      /\ Of(J, TerminalEvents) = Of(j, TerminalEvents)
      /\ Of(J, {"tool_intent"}) = Of(j, {"tool_intent"})
      /\ Of(J, {"tool_outcome"}) = Of(j, {"tool_outcome"})
  BY <1>1, <1>2, ReadsOfAppend
<1>4. Of(J, {"recovery_acknowledged"}) = Of(j, {"recovery_acknowledged"}) \cup {e}
  BY <1>1, ReadsOfAppend
<1>5. Duplicated(j) => Duplicated(J)
  BY <1>1, DuplicatesStay
<1> HIDE DEF J
<1>6. /\ Intents(J) = Intents(j) /\ Settled(J) = Settled(j)
      /\ Started(J) = Started(j) /\ Ended(J) = Ended(j)
  BY <1>3 DEF Intents, Settled, Started, Ended
<1>7. AckedOps(J) = AckedOps(j) \cup a.ops
  BY <1>1, <1>4 DEF AckedOps
<1> QED  BY <1>5, <1>6, <1>7 DEF J, e

-----------------------------------------------------------------------------
(* Room: each event of a turn has a place of its own, 1 for its start, 2   *)
(* for its end, 2k + 1 and 2k + 2 for the intent and the outcome of its    *)
(* k-th tool; and so has each acknowledgement.                             *)

PlacesOfTurn == 2 + 2 * MaxTools

Executing(p) == pc[p] \in {"executing", "executed"}

Acking(p) == pc[p] = "acknowledging"

(* The places taken by turns, T, and by acknowledgements, A; g: the place  *)
(* each acknowledgement on its way is going to take.                       *)
Fits(t, n) ==
    /\ outcome[t] # "new"
    /\ \A p \in Procs : turn[p] = t =>
          n # 2 /\ n <= 2 + 2 * tools[p] /\ (Executing(p) => n # 2 + 2 * tools[p])

TurnPlaces(T) == \A t \in Turns, n \in 1..PlacesOfTurn : <<t, n>> \in T => Fits(t, n)

AckPlaces(A, g) ==
    /\ \A i \in A : i <= acks /\ \A p \in Procs : Acking(p) => g[p] # i
    /\ \A p \in Procs : Acking(p) => g[p] \in 1..acks
    /\ \A p, q \in Procs : Acking(p) /\ Acking(q) /\ g[p] = g[q] => p = q

Taken(T, A, g) ==
    /\ T \in SUBSET (Turns \X (1..PlacesOfTurn)) /\ A \in SUBSET (1..MaxAcks)
    /\ g \in [Procs -> Nat]
    /\ Len(journal) = Cardinality(T) + Cardinality(A)
    /\ TurnPlaces(T) /\ AckPlaces(A, g)
    /\ \A p \in Procs : Executing(p) => tools[p] # 0

RoomInv == \E T, A, g : Taken(T, A, g)

LEMMA PlacesAreEnough ==
    ASSUME NEW T \in SUBSET (Turns \X (1..PlacesOfTurn)), NEW A \in SUBSET (1..MaxAcks),
           TypeOK, NeverFull
    PROVE  /\ IsFiniteSet(T) /\ IsFiniteSet(A)
           /\ Cardinality(T) \in Nat /\ Cardinality(A) \in Nat
           /\ Cardinality(T) + Cardinality(A) <= maxEvents
<1>1. PlacesOfTurn \in Nat /\ MaxAcks \in Nat
  BY BoundsAssumption DEF PlacesOfTurn
<1>2. /\ IsFiniteSet(1..PlacesOfTurn) /\ Cardinality(1..PlacesOfTurn) = PlacesOfTurn
      /\ IsFiniteSet(1..MaxAcks) /\ Cardinality(1..MaxAcks) = MaxAcks
  BY <1>1, FS_Interval
<1>3. /\ IsFiniteSet(Turns \X (1..PlacesOfTurn))
      /\ Cardinality(Turns \X (1..PlacesOfTurn)) = Cardinality(Turns) * PlacesOfTurn
  BY <1>2, FS_Product, TurnsAssumption
<1>4. /\ IsFiniteSet(T) /\ Cardinality(T) <= Cardinality(Turns) * PlacesOfTurn
      /\ IsFiniteSet(A) /\ Cardinality(A) <= MaxAcks
  <2>1. IsFiniteSet(T) /\ Cardinality(T) <= Cardinality(Turns \X (1..PlacesOfTurn))
    BY <1>3, FS_Subset
  <2>2. IsFiniteSet(A) /\ Cardinality(A) <= Cardinality(1..MaxAcks)
    BY <1>2, FS_Subset
  <2> QED  BY <1>2, <1>3, <2>1, <2>2
<1>5. Cardinality(T) \in Nat /\ Cardinality(A) \in Nat /\ Cardinality(Turns) \in Nat
  BY <1>4, TurnsAssumption, FS_CardinalityType
<1>6. maxEvents >= Cardinality(Turns) * PlacesOfTurn + MaxAcks
  BY DEF NeverFull, PlacesOfTurn
<1>7. maxEvents \in Nat
  BY LimitsAssumption DEF TypeOK
<1>8. Cardinality(Turns) * PlacesOfTurn \in Nat
  BY <1>1, <1>5
<1> QED  BY <1>1, <1>4, <1>5, <1>6, <1>7, <1>8

(* A write that takes a place of a turn, or of an acknowledgement.         *)
LEMMA TurnTakesPlace ==
    ASSUME BaseInv, NeverFull, NEW T, NEW A, NEW g, Taken(T, A, g),
           NEW e \in Written, Append1(e),
           NEW s \in Turns \X (1..PlacesOfTurn), s \notin T
    PROVE  /\ journal' = Append(journal, e)
           /\ Len(journal') = Cardinality(T \cup {s}) + Cardinality(A)
           /\ T \cup {s} \in SUBSET (Turns \X (1..PlacesOfTurn))
<1> DEFINE U == T \cup {s}
<1>1. /\ T \in SUBSET (Turns \X (1..PlacesOfTurn)) /\ A \in SUBSET (1..MaxAcks)
      /\ Len(journal) = Cardinality(T) + Cardinality(A)
      /\ TypeOK /\ journal \in Seq(Written)
  BY DEF Taken, BaseInv, Places
<1>2. U \in SUBSET (Turns \X (1..PlacesOfTurn))
  BY <1>1
<1>3. /\ IsFiniteSet(T) /\ Cardinality(T) \in Nat /\ Cardinality(A) \in Nat
  BY <1>1, PlacesAreEnough
<1>4. Cardinality(U) = Cardinality(T) + 1
  BY <1>3, FS_AddElement
<1>5. Cardinality(U) + Cardinality(A) <= maxEvents
  BY <1>1, <1>2, PlacesAreEnough
<1>6. Len(journal) + 1 = Cardinality(U) + Cardinality(A)
  BY <1>1, <1>3, <1>4
<1>7. journal' = Append(journal, e)
  BY <1>1, <1>5, <1>6, WriteCuts
<1>8. Len(journal') = Len(journal) + 1
  BY <1>1, <1>7, AppendFacts
<1> QED  BY <1>2, <1>6, <1>7, <1>8

LEMMA AckTakesPlace ==
    ASSUME BaseInv, NeverFull, NEW T, NEW A, NEW g, Taken(T, A, g),
           NEW e \in Written, Append1(e),
           NEW i \in 1..MaxAcks, i \notin A
    PROVE  /\ journal' = Append(journal, e)
           /\ Len(journal') = Cardinality(T) + Cardinality(A \cup {i})
           /\ A \cup {i} \in SUBSET (1..MaxAcks)
<1> DEFINE U == A \cup {i}
<1>1. /\ T \in SUBSET (Turns \X (1..PlacesOfTurn)) /\ A \in SUBSET (1..MaxAcks)
      /\ Len(journal) = Cardinality(T) + Cardinality(A)
      /\ TypeOK /\ journal \in Seq(Written)
  BY DEF Taken, BaseInv, Places
<1>2. U \in SUBSET (1..MaxAcks)
  BY <1>1
<1>3. /\ IsFiniteSet(A) /\ Cardinality(T) \in Nat /\ Cardinality(A) \in Nat
  BY <1>1, PlacesAreEnough
<1>4. Cardinality(U) = Cardinality(A) + 1
  BY <1>3, FS_AddElement
<1>5. Cardinality(T) + Cardinality(U) <= maxEvents
  BY <1>1, <1>2, PlacesAreEnough
<1>6. Len(journal) + 1 = Cardinality(T) + Cardinality(U)
  BY <1>1, <1>3, <1>4
<1>7. journal' = Append(journal, e)
  BY <1>1, <1>5, <1>6, WriteCuts
<1>8. Len(journal') = Len(journal) + 1
  BY <1>1, <1>7, AppendFacts
<1> QED  BY <1>2, <1>6, <1>7, <1>8

(* A step that is not about acknowledgements.                             *)
TurnsKept ==
    /\ \A t \in Turns : outcome[t] # "new" => outcome'[t] # "new"
    /\ \A p \in Procs : turn'[p] \in Turns =>
          \/ outcome[turn'[p]] = "new" /\ ~Executing(p)'
          \/ /\ turn'[p] = turn[p] /\ tools'[p] >= tools[p]
             /\ Executing(p)' => \/ Executing(p) /\ tools'[p] = tools[p]
                                 \/ tools'[p] > tools[p]

AcksKept == acks' = acks /\ \A p \in Procs : Acking(p)' => Acking(p)

LEMMA TurnPlacesKept ==
    ASSUME TypeOK, TypeOK', NEW T, TurnPlaces(T), TurnsKept
    PROVE  TurnPlaces(T)'
<1> SUFFICES ASSUME NEW t \in Turns, NEW n \in 1..PlacesOfTurn, <<t, n>> \in T
             PROVE  Fits(t, n)'
  BY DEF TurnPlaces
<1>1. Fits(t, n)
  BY DEF TurnPlaces
<1>2. outcome'[t] # "new"
  BY <1>1 DEF TurnsKept, Fits
<1>3. ASSUME NEW p \in Procs, turn'[p] = t
      PROVE  n # 2 /\ n <= 2 + 2 * tools'[p] /\ (Executing(p)' => n # 2 + 2 * tools'[p])
  <2>1. /\ turn[p] = t /\ tools'[p] >= tools[p]
        /\ Executing(p)' => (Executing(p) /\ tools'[p] = tools[p]) \/ tools'[p] > tools[p]
    BY <1>1, <1>3 DEF TurnsKept, Fits
  <2>2. n # 2 /\ n <= 2 + 2 * tools[p] /\ (Executing(p) => n # 2 + 2 * tools[p])
    BY <1>1, <2>1 DEF Fits
  <2>3. n \in Nat /\ tools[p] \in Nat /\ tools'[p] \in Nat
    BY BoundsAssumption DEF TypeOK, PlacesOfTurn
  <2> QED  BY <2>1, <2>2, <2>3
<1> QED  BY <1>2, <1>3 DEF Fits

LEMMA AckPlacesKept ==
    ASSUME NEW A, NEW g, AckPlaces(A, g), AcksKept
    PROVE  AckPlaces(A, g)'
BY DEF AckPlaces, AcksKept

LEMMA ToolsCounted ==
    ASSUME TypeOK, TypeOK', Places', TurnsKept,
           \A p \in Procs : Executing(p) => tools[p] # 0
    PROVE  \A p \in Procs : Executing(p)' => tools'[p] # 0
<1> SUFFICES ASSUME NEW p \in Procs, Executing(p)' PROVE tools'[p] # 0
  OBVIOUS
<1>1. turn'[p] \in Turns /\ tools[p] \in Nat /\ tools'[p] \in Nat
  BY BoundsAssumption DEF Places, InTurn, Executing, TypeOK
<1> QED  BY <1>1 DEF TurnsKept

LEMMA NoPlaceTaken ==
    ASSUME TypeOK, TypeOK', Places', NEW T, NEW A, NEW g, Taken(T, A, g),
           TurnsKept, AcksKept, journal' = journal
    PROVE  RoomInv'
<1>1. TurnPlaces(T)' /\ AckPlaces(A, g)'
  BY TurnPlacesKept, AckPlacesKept DEF Taken
<1>2. \A p \in Procs : Executing(p)' => tools'[p] # 0
  BY ToolsCounted DEF Taken
<1> QED  BY <1>1, <1>2 DEF Taken, RoomInv

LEMMA PlaceTaken ==
    ASSUME BaseInv, TypeOK', Places', NeverFull, NEW T, NEW A, NEW g, Taken(T, A, g),
           TurnsKept, AcksKept, NEW e \in Written, Append1(e),
           NEW t \in Turns, NEW n \in 1..PlacesOfTurn, <<t, n>> \notin T, Fits(t, n)'
    PROVE  RoomInv' /\ journal' = Append(journal, e)
<1> DEFINE s == <<t, n>>
           U == T \cup {s}
<1>0. TypeOK
  BY DEF BaseInv
<1>1. /\ journal' = Append(journal, e)
      /\ Len(journal') = Cardinality(U) + Cardinality(A)
      /\ U \in SUBSET (Turns \X (1..PlacesOfTurn))
  BY TurnTakesPlace
<1>2. TurnPlaces(T)' /\ AckPlaces(A, g)'
  BY <1>0, TurnPlacesKept, AckPlacesKept DEF Taken
<1>3. TurnPlaces(U)'
  BY <1>2 DEF TurnPlaces
<1>4. \A p \in Procs : Executing(p)' => tools'[p] # 0
  BY <1>0, ToolsCounted DEF Taken
<1>5. Taken(U, A, g)'
  BY <1>1, <1>2, <1>3, <1>4 DEF Taken
<1> QED  BY <1>1, <1>5 DEF RoomInv

LEMMA StepsKeep ==
    ASSUME TypeOK, Places, NEW p \in Procs
    PROVE  /\ TurnStep(p) \/ Crash(p) \/ Restart(p) => TurnsKept /\ AcksKept
           /\ AckRead(p) \/ AckAppend(p) => TurnsKept
<1> USE TurnsAssumption, BoundsAssumption
    DEF TypeOK, TurnsKept, AcksKept, Executing, Acking, Places, InTurn
<1>1. ASSUME NEW t \in Turns, StartTurn(p, t) PROVE TurnsKept /\ AcksKept
  BY <1>1 DEF StartTurn
<1>2. ASSUME NEW c \in Calls, Intent(p, c) PROVE TurnsKept /\ AcksKept
  BY <1>2 DEF Intent
<1>3. ASSUME Execute(p) \/ Settle(p) \/ CommitTurn(p) PROVE TurnsKept /\ AcksKept
  BY <1>3 DEF Execute, Settle, CommitTurn
<1>4. ASSUME TurnFails(p) \/ CancelTurn(p) \/ JournalCommitted(p) PROVE TurnsKept /\ AcksKept
  BY <1>4 DEF TurnFails, CancelTurn, JournalCommitted, Leave
<1>5. ASSUME NEW o \in detached[p], DetachedToolEnds(p, o) PROVE TurnsKept /\ AcksKept
  BY <1>5 DEF DetachedToolEnds
<1>6. ASSUME Crash(p) PROVE TurnsKept /\ AcksKept
  BY <1>6 DEF Crash
<1>7. ASSUME Restart(p) PROVE TurnsKept /\ AcksKept
  BY <1>7 DEF Restart
<1>8. ASSUME AckRead(p) \/ AckAppend(p) PROVE TurnsKept
  BY <1>8 DEF AckRead, AckAppend
<1> HIDE DEF TypeOK, TurnsKept, AcksKept, Places, InTurn
<1> QED  BY <1>1, <1>2, <1>3, <1>4, <1>5, <1>6, <1>7, <1>8 DEF TurnStep

(* The writes of a turn, while there is room.                              *)
LEMMA StartHasRoom ==
    ASSUME BaseInv, TypeOK', Places', NeverFull, RoomInv, NEW p \in Procs, NEW t \in Turns, StartTurn(p, t)
    PROVE  /\ RoomInv'
           /\ \/ journal' = Append(journal, TurnEvent("turn_started", t)) /\ missed' = missed
              \/ journal' = journal /\ missed' = missed \cup {t}
<1>1. PICK T, A, g : Taken(T, A, g)
  BY DEF RoomInv
<1>2. TypeOK /\ Places /\ TurnInv
  BY DEF BaseInv
<1>3. TurnsKept /\ AcksKept
  BY <1>2, StepsKeep DEF TurnStep
<1>4. CASE Append1(TurnEvent("turn_started", t)) /\ missed' = missed
  <2>1. TurnEvent("turn_started", t) \in Written
    BY DEF Written
  <2>2. 1 \in 1..PlacesOfTurn /\ <<t, 1>> \notin T
    BY <1>1, BoundsAssumption DEF Taken, TurnPlaces, Fits, PlacesOfTurn, StartTurn
  <2>3. Fits(t, 1)'
    <3>1. outcome'[t] # "new" /\ \A q \in Procs : tools'[q] \in Nat
      BY <1>2, BoundsAssumption DEF TypeOK, StartTurn
    <3>2. ASSUME NEW q \in Procs, turn'[q] = t PROVE ~Executing(q)'
      BY <1>2, <3>2 DEF StartTurn, TypeOK, Executing, TurnInv
    <3> QED  BY <3>1, <3>2 DEF Fits
  <2> QED  BY <1>1, <1>3, <1>4, <2>1, <2>2, <2>3, PlaceTaken
<1>5. CASE journal' = journal /\ missed' = missed \cup {t}
  BY <1>1, <1>2, <1>3, <1>5, NoPlaceTaken
<1> QED  BY <1>4, <1>5 DEF StartTurn, AppendBestEffort

LEMMA IntentHasRoom ==
    ASSUME BaseInv, TypeOK', Places', NeverFull, RoomInv,
           NEW p \in Procs, NEW c \in Calls, Intent(p, c)
    PROVE  RoomInv' /\ journal' = Append(journal, ToolEvent("tool_intent", <<turn[p], c>>))
<1>1. PICK T, A, g : Taken(T, A, g)
  BY DEF RoomInv
<1>2. TypeOK /\ Places /\ TurnInv
  BY DEF BaseInv
<1>3. TurnsKept /\ AcksKept
  BY <1>2, StepsKeep DEF TurnStep
<1>4. /\ turn[p] \in Turns /\ tools[p] \in Nat /\ tools[p] < MaxTools /\ MaxTools \in Nat
  BY <1>2, BoundsAssumption DEF Intent, Places, InTurn, TypeOK
<1>5. PICK t \in Turns : t = turn[p]
  BY <1>4
<1>6. PICK n \in 1..PlacesOfTurn : n = 3 + 2 * tools[p]
  BY <1>4 DEF PlacesOfTurn
<1>7. <<t, n>> \notin T
  BY <1>1, <1>4, <1>5, <1>6 DEF Taken, TurnPlaces, Fits
<1>8. Fits(t, n)'
  <2>1. turn' = turn /\ outcome' = outcome /\ tools' = [tools EXCEPT ![p] = @ + 1]
    BY DEF Intent
  <2>2. ASSUME NEW q \in Procs, turn[q] = t PROVE q = p
    BY <1>2, <1>5, <2>2 DEF TurnInv
  <2>3. tools'[p] = tools[p] + 1
    BY <1>2, <2>1 DEF TypeOK
  <2>4. outcome[t] # "new"
    BY <1>2, <1>5 DEF TurnInv
  <2> QED  BY <1>4, <1>6, <2>1, <2>2, <2>3, <2>4 DEF Fits
<1>9. PICK e \in Written : e = ToolEvent("tool_intent", <<t, c>>)
  BY DEF Written, Ops
<1>10. Append1(e)
  BY <1>5, <1>9 DEF Intent, Begin
<1>11. RoomInv' /\ journal' = Append(journal, e)
  BY <1>1, <1>3, <1>7, <1>8, <1>10, PlaceTaken
<1> QED  BY <1>5, <1>9, <1>11

LEMMA SettleHasRoom ==
    ASSUME BaseInv, TypeOK', Places', NeverFull, RoomInv, NEW p \in Procs, Settle(p)
    PROVE  /\ RoomInv'
           /\ \/ /\ journal' = Append(journal, ToolEvent("tool_outcome", Op(p)))
                 /\ open' = open \ {Op(p)} /\ missed' = missed
              \/ journal' = journal /\ open' = open /\ missed' = missed \cup {turn[p]}
<1>1. PICK T, A, g : Taken(T, A, g)
  BY DEF RoomInv
<1>2. TypeOK /\ Places /\ TurnInv
  BY DEF BaseInv
<1>3. TurnsKept /\ AcksKept
  BY <1>2, StepsKeep DEF TurnStep
<1>4. CASE /\ Append1(ToolEvent("tool_outcome", Op(p)))
           /\ open' = open \ {Op(p)} /\ missed' = missed
  <2>1. /\ turn[p] \in Turns /\ call[p] \in Calls /\ Executing(p)
        /\ tools[p] \in 0..MaxTools /\ MaxTools \in Nat
    BY <1>2, BoundsAssumption DEF Settle, Places, InTurn, TypeOK, Executing
  <2>2. tools[p] # 0
    BY <1>1, <2>1 DEF Taken
  <2>3. PICK t \in Turns : t = turn[p]
    BY <2>1
  <2>4. PICK n \in 1..PlacesOfTurn : n = 2 + 2 * tools[p]
    BY <2>1 DEF PlacesOfTurn
  <2>5. <<t, n>> \notin T
    BY <1>1, <2>1, <2>3, <2>4 DEF Taken, TurnPlaces, Fits
  <2>6. Fits(t, n)'
    <3>1. /\ turn' = turn /\ outcome' = outcome /\ tools' = tools
          /\ pc' = [pc EXCEPT ![p] = "running"]
      BY DEF Settle
    <3>2. ASSUME NEW q \in Procs, turn[q] = t PROVE q = p
      BY <1>2, <2>3, <3>2 DEF TurnInv
    <3>3. ~Executing(p)'
      BY <1>2, <3>1 DEF Executing, TypeOK
    <3>4. outcome[t] # "new"
      BY <1>2, <2>3 DEF TurnInv
    <3> QED  BY <2>1, <2>2, <2>4, <3>1, <3>2, <3>3, <3>4 DEF Fits
  <2>7. PICK e \in Written : e = ToolEvent("tool_outcome", Op(p))
    BY <2>1 DEF Written, Ops, Op
  <2>8. RoomInv' /\ journal' = Append(journal, e)
    BY <1>1, <1>3, <1>4, <2>5, <2>6, <2>7, PlaceTaken
  <2> QED  BY <1>4, <2>7, <2>8
<1>5. CASE journal' = journal /\ open' = open /\ missed' = missed \cup {turn[p]}
  BY <1>1, <1>2, <1>3, <1>5, NoPlaceTaken
<1> QED  BY <1>4, <1>5 DEF Settle

LEMMA EndHasRoom ==
    ASSUME BaseInv, TypeOK', Places', NeverFull, RoomInv, NEW p \in Procs,
           NEW k \in TerminalEvents, turn[p] \in Turns,
           TurnFails(p) \/ CancelTurn(p) \/ JournalCommitted(p),
           AppendBestEffort(TurnEvent(k, turn[p]), turn[p])
    PROVE  /\ RoomInv'
           /\ \/ journal' = Append(journal, TurnEvent(k, turn[p])) /\ missed' = missed
              \/ journal' = journal /\ missed' = missed \cup {turn[p]}
<1>1. PICK T, A, g : Taken(T, A, g)
  BY DEF RoomInv
<1>2. TypeOK /\ Places /\ TurnInv
  BY DEF BaseInv
<1>3. TurnsKept /\ AcksKept
  BY <1>2, StepsKeep DEF TurnStep
<1>4. CASE Append1(TurnEvent(k, turn[p])) /\ missed' = missed
  <2>1. PICK t \in Turns : t = turn[p]
    OBVIOUS
  <2>2. PICK n \in 1..PlacesOfTurn : n = 2
    BY BoundsAssumption DEF PlacesOfTurn
  <2>3. <<t, n>> \notin T
    BY <1>1, <2>1, <2>2 DEF Taken, TurnPlaces, Fits
  <2>4. Fits(t, n)'
    <3>1. turn' = [turn EXCEPT ![p] = NoTurn] /\ outcome'[t] # "new"
      BY <1>2, <2>1 DEF TurnFails, CancelTurn, JournalCommitted, Leave, TypeOK
    <3>2. ASSUME NEW q \in Procs, turn'[q] = t PROVE FALSE
      BY <1>2, <2>1, <3>1, <3>2, TurnsAssumption DEF TurnInv, TypeOK
    <3> QED  BY <3>1, <3>2 DEF Fits
  <2>5. PICK e \in Written : e = TurnEvent(k, turn[p])
    BY DEF Written
  <2>6. RoomInv' /\ journal' = Append(journal, e)
    BY <1>1, <1>3, <1>4, <2>3, <2>4, <2>5, PlaceTaken
  <2> QED  BY <1>4, <2>5, <2>6
<1>5. CASE journal' = journal /\ missed' = missed \cup {turn[p]}
  BY <1>1, <1>2, <1>3, <1>5, NoPlaceTaken
<1> QED  BY <1>4, <1>5 DEF AppendBestEffort

LEMMA AckReadHasRoom ==
    ASSUME BaseInv, TypeOK', Places', NeverFull, RoomInv, NEW p \in Procs, AckRead(p)
    PROVE  RoomInv'
<1>1. PICK T, A, g : Taken(T, A, g)
  BY DEF RoomInv
<1>2. TypeOK /\ Places
  BY DEF BaseInv
<1>3. TurnsKept
  BY <1>2, StepsKeep
<1>4. PICK n \in Nat : n = acks + 1
  BY <1>2, BoundsAssumption DEF TypeOK
<1>5. PICK h \in [Procs -> Nat] : h = [g EXCEPT ![p] = n]
  BY <1>1 DEF Taken
<1>6. acks' = n /\ pc' = [pc EXCEPT ![p] = "acknowledging"] /\ journal' = journal
  BY <1>4 DEF AckRead
<1>7. AckPlaces(A, h)'
  <2>1. /\ h[p] = n /\ \A q \in Procs : q # p => h[q] = g[q]
        /\ \A q \in Procs : Acking(q)' <=> Acking(q) \/ q = p
    BY <1>1, <1>2, <1>5, <1>6 DEF Taken, Acking, TypeOK
  <2>2. /\ \A i \in A : i \in Nat /\ i <= acks /\ \A q \in Procs : Acking(q) => g[q] # i
        /\ \A q \in Procs : Acking(q) => g[q] \in 1..acks
        /\ \A q, r \in Procs : Acking(q) /\ Acking(r) /\ g[q] = g[r] => q = r
        /\ acks \in Nat
    BY <1>1, <1>2, BoundsAssumption DEF Taken, AckPlaces, TypeOK
  <2>3. \A i \in A : i <= acks' /\ \A q \in Procs : Acking(q)' => h[q] # i
    BY <1>4, <1>6, <2>1, <2>2
  <2>4. \A q \in Procs : Acking(q)' => h[q] \in 1..acks'
    BY <1>4, <1>6, <2>1, <2>2
  <2>5. \A q, r \in Procs : Acking(q)' /\ Acking(r)' /\ h[q] = h[r] => q = r
    BY <1>4, <2>1, <2>2
  <2> QED  BY <2>3, <2>4, <2>5 DEF AckPlaces
<1>8. TurnPlaces(T)' /\ \A q \in Procs : Executing(q)' => tools'[q] # 0
  BY <1>1, <1>2, <1>3, TurnPlacesKept, ToolsCounted DEF Taken
<1>9. Taken(T, A, h)'
  BY <1>1, <1>6, <1>7, <1>8 DEF Taken
<1> QED  BY <1>9 DEF RoomInv

LEMMA AckAppendHasRoom ==
    ASSUME BaseInv, TypeOK', Places', NeverFull, RoomInv, NEW p \in Procs, AckAppend(p)
    PROVE  /\ RoomInv'
           /\ \/ /\ journal' = Append(journal, AckEvent(ack[p]))
                 /\ reviewed' = reviewed \cup ack[p].seen
              \/ journal' = journal /\ reviewed' = reviewed
<1>1. PICK T, A, g : Taken(T, A, g)
  BY DEF RoomInv
<1>2. TypeOK /\ Places
  BY DEF BaseInv
<1>3. TurnsKept
  BY <1>2, StepsKeep
<1>4. TurnPlaces(T)' /\ \A q \in Procs : Executing(q)' => tools'[q] # 0
  BY <1>1, <1>2, <1>3, TurnPlacesKept, ToolsCounted DEF Taken
<1>5. acks' = acks /\ Acking(p) /\ \A q \in Procs : Acking(q)' <=> Acking(q) /\ q # p
  BY <1>2 DEF AckAppend, Acking, TypeOK
<1>6. CASE /\ Append1(AckEvent(ack[p]))
           /\ reviewed' = reviewed \cup ack[p].seen
  <2>1. PICK i \in 1..MaxAcks : i = g[p]
    BY <1>1, <1>2, <1>5, BoundsAssumption DEF Taken, AckPlaces, TypeOK
  <2>2. i \notin A
    BY <1>1, <1>5, <2>1 DEF Taken, AckPlaces
  <2>3. PICK e \in Written : e = AckEvent(ack[p])
    BY <1>2 DEF Written, Places
  <2>4. /\ journal' = Append(journal, e)
        /\ Len(journal') = Cardinality(T) + Cardinality(A \cup {i})
        /\ A \cup {i} \in SUBSET (1..MaxAcks)
    BY <1>1, <1>6, <2>2, <2>3, AckTakesPlace
  <2>5. AckPlaces(A \cup {i}, g)'
    BY <1>1, <1>5, <2>1 DEF Taken, AckPlaces
  <2>6. Taken(T, A \cup {i}, g)'
    BY <1>1, <1>4, <2>4, <2>5 DEF Taken
  <2> QED  BY <1>6, <2>3, <2>4, <2>6 DEF RoomInv
<1>7. CASE journal' = journal /\ reviewed' = reviewed
  <2>1. AcksKept
    BY <1>5 DEF AcksKept
  <2> QED  BY <1>1, <1>2, <1>3, <1>7, <2>1, NoPlaceTaken
<1> QED  BY <1>6, <1>7 DEF AckAppend

-----------------------------------------------------------------------------
(* Evidence *)

Crashed(t) == t \in died \/ \E p \in Procs : turn[p] = t

(* Whatever acts, or is settled or acknowledged, has its intent there.     *)
IntentsInv ==
    /\ effects \subseteq Intents(journal)
    /\ \A p \in Procs : detached[p] \subseteq Intents(journal)
    /\ \A p \in Procs : Executing(p) => Op(p) \in Intents(journal)
    /\ Settled(journal) \subseteq Intents(journal)
    /\ AckedOps(journal) \subseteq Intents(journal)
    /\ \A p \in Procs : ack[p].ops \subseteq Intents(journal)

(* An open operation that seems done was begun a second time, and shows;   *)
(* so does one that began again while its acknowledgement was on its way.  *)
OpenInv ==
    /\ \A o \in open \ reviewed :
          o \in Settled(journal) \cup AckedOps(journal) => Duplicated(journal)
    /\ \A p \in Procs : \A o \in ack[p].ops \ ack[p].seen : Duplicated(journal)

(* A turn whose writes succeeded has its start there, and its end unless   *)
(* it is in progress or died.                                              *)
EndInv ==
    /\ \A t \in Turns : t \in Ended(journal) => ~Crashed(t)
    /\ \A t \in Turns \ missed : outcome[t] # "new" =>
          t \in Started(journal) /\ (t \in Ended(journal) \/ Crashed(t))

EvidenceInv == RoomInv /\ IntentsInv /\ OpenInv /\ EndInv

(* A step that writes nothing, or a start or an end of a turn, leaves      *)
(* operations alone.                                                       *)
SameOps ==
    /\ Intents(journal') = Intents(journal) /\ Settled(journal') = Settled(journal)
    /\ AckedOps(journal') = AckedOps(journal)
    /\ Duplicated(journal) => Duplicated(journal')

SameTurns == Started(journal') = Started(journal) /\ Ended(journal') = Ended(journal)

LEMMA StartKeepsEvidence ==
    ASSUME BaseInv, TypeOK', Places', NeverFull, EvidenceInv,
           NEW p \in Procs, NEW t \in Turns, StartTurn(p, t)
    PROVE  EvidenceInv'
<1>1. /\ RoomInv'
      /\ \/ journal' = Append(journal, TurnEvent("turn_started", t)) /\ missed' = missed
         \/ journal' = journal /\ missed' = missed \cup {t}
  BY StartHasRoom DEF EvidenceInv
<1>2. TypeOK /\ Places /\ TurnInv /\ journal \in Seq(Written)
  BY DEF BaseInv, Places
<1>3. /\ SameOps /\ Ended(journal') = Ended(journal)
      /\ \/ Started(journal') = Started(journal) \cup {t} /\ missed' = missed
         \/ Started(journal') = Started(journal) /\ missed' = missed \cup {t}
  <2>1. CASE journal' = journal /\ missed' = missed \cup {t}
    BY <2>1 DEF SameOps
  <2>2. CASE journal' = Append(journal, TurnEvent("turn_started", t)) /\ missed' = missed
    BY <1>2, <2>2, StartReads DEF SameOps
  <2> QED  BY <1>1, <2>1, <2>2
<1>4. /\ outcome[t] = "new" /\ pc[p] = "idle"
      /\ outcome' = [outcome EXCEPT ![t] = "running"]
      /\ turn' = [turn EXCEPT ![p] = t] /\ pc' = [pc EXCEPT ![p] = "running"]
      /\ UNCHANGED <<call, ack, open, detached, effects, died, reviewed>>
  BY DEF StartTurn
<1>5. \A q \in Procs : Executing(q)' => Executing(q) /\ Op(q)' = Op(q)
  BY <1>2, <1>4 DEF Executing, Op, TypeOK
<1>6. IntentsInv' /\ OpenInv'
  BY <1>3, <1>4, <1>5 DEF SameOps, EvidenceInv, IntentsInv, OpenInv
<1>7. t \notin Ended(journal)
  <2>1. \A i \in DOMAIN journal : journal[i].kind \in TerminalEvents => journal[i].turn # t
    BY <1>2, <1>4, WrittenKinds, ElementOfSeq DEF TurnInv
  <2> QED  BY <2>1 DEF Ended, Of
<1>8. \A u \in Turns : /\ Crashed(u)' => Crashed(u) \/ u = t
                       /\ Crashed(u) => Crashed(u)'
                       /\ Crashed(t)'
  <2>1. /\ turn'[p] = t /\ \A q \in Procs : q # p => turn'[q] = turn[q]
        /\ died' = died
    BY <1>2, <1>4 DEF TypeOK
  <2>2. turn[p] \notin Turns
    BY <1>2, <1>4 DEF Places, InTurn
  <2> QED  BY <2>1, <2>2 DEF Crashed
<1>9. EndInv'
  BY <1>2, <1>3, <1>4, <1>7, <1>8 DEF EvidenceInv, EndInv, TypeOK
<1> QED  BY <1>1, <1>6, <1>9 DEF EvidenceInv

LEMMA IntentKeepsEvidence ==
    ASSUME BaseInv, TypeOK', Places', NeverFull, EvidenceInv,
           NEW p \in Procs, NEW c \in Calls, Intent(p, c)
    PROVE  EvidenceInv'
<1>1. TypeOK /\ Places /\ TurnInv /\ journal \in Seq(Written)
  BY DEF BaseInv, Places
<1>2. turn[p] \in Turns
  BY <1>1 DEF Intent, Places, InTurn
<1>3. PICK o \in Ops : o = <<turn[p], c>>
  BY <1>2 DEF Ops
<1>4. RoomInv' /\ journal' = Append(journal, ToolEvent("tool_intent", o))
  BY <1>3, IntentHasRoom DEF EvidenceInv
<1>5. /\ Intents(journal') = Intents(journal) \cup {o}
      /\ Settled(journal') = Settled(journal) /\ AckedOps(journal') = AckedOps(journal)
      /\ SameTurns
      /\ Duplicated(journal) \/ o \in Intents(journal) => Duplicated(journal')
  BY <1>1, <1>4, ToolEventReads DEF SameTurns
<1>6. /\ open' = open \cup {o} /\ reviewed' = reviewed \ {o}
      /\ ack' = [q \in Procs |-> [ack[q] EXCEPT !.seen = @ \ {o}]]
      /\ call' = [call EXCEPT ![p] = c] /\ pc' = [pc EXCEPT ![p] = "executing"]
      /\ UNCHANGED <<turn, outcome, detached, effects, died, missed>>
  BY <1>3 DEF Intent
<1>7. \A q \in Procs : ack'[q].ops = ack[q].ops /\ ack'[q].seen = ack[q].seen \ {o}
  BY <1>1, <1>6 DEF Places, Acks
<1>8. \A q \in Procs : Executing(q)' => Op(q)' = o \/ (Executing(q) /\ Op(q)' = Op(q))
  BY <1>1, <1>3, <1>6 DEF Executing, Op, TypeOK
<1>9. IntentsInv'
  BY <1>5, <1>6, <1>7, <1>8 DEF EvidenceInv, IntentsInv
<1>10. OpenInv'
  BY <1>5, <1>6, <1>7 DEF EvidenceInv, IntentsInv, OpenInv
<1>11. EndInv'
  BY <1>5, <1>6 DEF SameTurns, EvidenceInv, EndInv, Crashed
<1> QED  BY <1>4, <1>9, <1>10, <1>11 DEF EvidenceInv

LEMMA SettleKeepsEvidence ==
    ASSUME BaseInv, TypeOK', Places', NeverFull, EvidenceInv, NEW p \in Procs, Settle(p)
    PROVE  EvidenceInv'
<1>1. TypeOK /\ Places /\ TurnInv /\ journal \in Seq(Written)
  BY DEF BaseInv, Places
<1>2. turn[p] \in Turns /\ call[p] \in Calls /\ Executing(p)
  BY <1>1 DEF Settle, Places, InTurn, Executing
<1>3. PICK o \in Ops : o = Op(p)
  BY <1>2 DEF Ops, Op
<1>4. /\ RoomInv'
      /\ \/ /\ journal' = Append(journal, ToolEvent("tool_outcome", o))
            /\ open' = open \ {o} /\ missed' = missed
         \/ journal' = journal /\ open' = open /\ missed' = missed \cup {turn[p]}
  BY <1>3, SettleHasRoom DEF EvidenceInv
<1>5. /\ Intents(journal') = Intents(journal) /\ AckedOps(journal') = AckedOps(journal)
      /\ SameTurns
      /\ Duplicated(journal) => Duplicated(journal')
      /\ \/ /\ Settled(journal') = Settled(journal) \cup {o}
            /\ open' = open \ {o} /\ missed' = missed
         \/ /\ Settled(journal') = Settled(journal)
            /\ open' = open /\ missed' = missed \cup {turn[p]}
  <2>1. CASE journal' = journal /\ open' = open /\ missed' = missed \cup {turn[p]}
    BY <2>1 DEF SameTurns
  <2>2. CASE /\ journal' = Append(journal, ToolEvent("tool_outcome", o))
             /\ open' = open \ {o} /\ missed' = missed
    <3>1. PICK k \in {"tool_intent", "tool_outcome"} : k = "tool_outcome"
      OBVIOUS
    <3>2. journal' = Append(journal, ToolEvent(k, o))
      BY <2>2, <3>1
    <3> QED  BY <1>1, <2>2, <3>1, <3>2, ToolEventReads DEF SameTurns
  <2> QED  BY <1>4, <2>1, <2>2
<1>6. /\ call' = [call EXCEPT ![p] = NoCall] /\ pc' = [pc EXCEPT ![p] = "running"]
      /\ UNCHANGED <<turn, ack, outcome, detached, effects, died, reviewed>>
  BY DEF Settle
<1>7. \A q \in Procs : Executing(q)' => Executing(q) /\ Op(q)' = Op(q)
  BY <1>1, <1>6 DEF Executing, Op, TypeOK
<1>8. o \in Intents(journal)
  BY <1>2, <1>3 DEF EvidenceInv, IntentsInv
<1>9. IntentsInv'
  BY <1>5, <1>6, <1>7, <1>8 DEF EvidenceInv, IntentsInv
<1>10. OpenInv'
  BY <1>5, <1>6 DEF EvidenceInv, OpenInv
<1>11. EndInv'
  BY <1>5, <1>6 DEF SameTurns, EvidenceInv, EndInv, Crashed
<1> QED  BY <1>4, <1>9, <1>10, <1>11 DEF EvidenceInv

LEMMA EndKeepsEvidence ==
    ASSUME BaseInv, TypeOK', Places', NeverFull, EvidenceInv, NEW p \in Procs,
           TurnFails(p) \/ CancelTurn(p) \/ JournalCommitted(p)
    PROVE  EvidenceInv'
<1>1. TypeOK /\ Places /\ TurnInv /\ journal \in Seq(Written)
  BY DEF BaseInv, Places
<1>2. turn[p] \in Turns
  BY <1>1 DEF TurnFails, CancelTurn, JournalCommitted, Places, InTurn
<1>3. PICK k \in TerminalEvents : AppendBestEffort(TurnEvent(k, turn[p]), turn[p])
  BY DEF TurnFails, CancelTurn, JournalCommitted, TerminalEvents
<1>4. PICK t \in Turns : t = turn[p]
  BY <1>2
<1>5. /\ RoomInv'
      /\ \/ journal' = Append(journal, TurnEvent(k, t)) /\ missed' = missed
         \/ journal' = journal /\ missed' = missed \cup {t}
  BY <1>2, <1>3, <1>4, EndHasRoom DEF EvidenceInv
<1>7. /\ SameOps /\ Started(journal') = Started(journal)
      /\ \/ Ended(journal') = Ended(journal) \cup {t} /\ missed' = missed
         \/ Ended(journal') = Ended(journal) /\ missed' = missed \cup {t}
  <2>1. CASE journal' = journal /\ missed' = missed \cup {t}
    BY <2>1 DEF SameOps
  <2>2. CASE journal' = Append(journal, TurnEvent(k, t)) /\ missed' = missed
    BY <1>1, <2>2, EndReads DEF SameOps
  <2> QED  BY <1>5, <2>1, <2>2
<1>8. /\ turn' = [turn EXCEPT ![p] = NoTurn] /\ pc' = [pc EXCEPT ![p] = "idle"]
      /\ call' = [call EXCEPT ![p] = NoCall]
      /\ UNCHANGED <<ack, open, effects, died, reviewed>>
      /\ \A u \in Turns : outcome'[u] # "new" => outcome[u] # "new"
  BY <1>1, <1>4 DEF TurnFails, CancelTurn, JournalCommitted, Leave, TypeOK, TurnInv
<1>9. \A q \in Procs : detached'[q] \subseteq detached[q] \cup (IF Executing(q) THEN {Op(q)} ELSE {})
  <2>1. CASE TurnFails(p) \/ JournalCommitted(p)
    BY <2>1 DEF TurnFails, JournalCommitted
  <2>2. CASE CancelTurn(p)
    BY <1>1, <2>2 DEF CancelTurn, TypeOK, Executing
  <2> QED  BY <2>1, <2>2
<1>10. \A q \in Procs : Executing(q)' => Executing(q) /\ Op(q)' = Op(q)
  BY <1>1, <1>8 DEF Executing, Op, TypeOK
<1>11. IntentsInv'
  BY <1>7, <1>8, <1>9, <1>10 DEF SameOps, EvidenceInv, IntentsInv
<1>12. OpenInv'
  BY <1>7, <1>8 DEF SameOps, EvidenceInv, OpenInv
<1>13. /\ ~Crashed(t)'
       /\ \A u \in Turns : u # t => (Crashed(u)' <=> Crashed(u))
  BY <1>1, <1>4, <1>8, TurnsAssumption DEF Crashed, TypeOK, TurnInv
<1>14. EndInv'
  BY <1>7, <1>8, <1>13 DEF EvidenceInv, EndInv
<1> QED  BY <1>5, <1>11, <1>12, <1>14 DEF EvidenceInv

(* The steps of a process that write nothing.                              *)
LEMMA QuietKeepsEvidence ==
    ASSUME BaseInv, TypeOK', Places', EvidenceInv, NEW p \in Procs,
           \/ Execute(p) \/ CommitTurn(p) \/ Crash(p) \/ Restart(p)
           \/ \E o \in detached[p] : DetachedToolEnds(p, o)
    PROVE  EvidenceInv'
<1>1. TypeOK /\ Places /\ TurnInv
  BY DEF BaseInv
<1>2. journal' = journal /\ missed' = missed /\ open' = open /\ reviewed' = reviewed
  BY DEF Execute, CommitTurn, Crash, Restart, DetachedToolEnds
<1>3. PICK T, A, g : Taken(T, A, g)
  BY DEF EvidenceInv, RoomInv
<1>4. TurnsKept /\ AcksKept
  BY <1>1, StepsKeep DEF TurnStep
<1>5. RoomInv'
  BY <1>1, <1>2, <1>3, <1>4, NoPlaceTaken
<1>6. \A q \in Procs : Executing(q)' => Executing(q) /\ Op(q)' = Op(q)
  BY <1>1 DEF Execute, CommitTurn, Crash, Restart, DetachedToolEnds, Executing, Op, TypeOK
<1>7. effects' \subseteq effects \cup detached[p] \cup (IF Executing(p) THEN {Op(p)} ELSE {})
  BY <1>1 DEF Execute, CommitTurn, Crash, Restart, DetachedToolEnds, Executing
<1>8. \A q \in Procs : detached'[q] \subseteq detached[q]
  BY <1>1 DEF Execute, CommitTurn, Crash, Restart, DetachedToolEnds, TypeOK
<1>9. \A q \in Procs : ack'[q] = ack[q] \/ ack'[q] = NoAck
  BY <1>1 DEF Execute, CommitTurn, Crash, Restart, DetachedToolEnds, Places
<1>10. IntentsInv'
  BY <1>2, <1>6, <1>7, <1>8, <1>9 DEF EvidenceInv, IntentsInv, NoAck
<1>11. OpenInv'
  BY <1>2, <1>9 DEF EvidenceInv, OpenInv, NoAck
<1>12. \A t \in Turns : /\ Crashed(t)' <=> Crashed(t)
                        /\ outcome'[t] # "new" => outcome[t] # "new"
  <2>1. CASE Crash(p)
    BY <1>1, <2>1, TurnsAssumption DEF Crash, Crashed, TypeOK
  <2>2. CASE CommitTurn(p)
    BY <1>1, <2>2 DEF CommitTurn, Crashed, TypeOK, TurnInv, Places, InTurn
  <2>3. CASE Execute(p) \/ Restart(p) \/ \E o \in detached[p] : DetachedToolEnds(p, o)
    BY <2>3 DEF Execute, Restart, DetachedToolEnds, Crashed
  <2> QED  BY <2>1, <2>2, <2>3
<1>13. EndInv'
  BY <1>2, <1>12 DEF EvidenceInv, EndInv
<1> QED  BY <1>5, <1>10, <1>11, <1>13 DEF EvidenceInv

LEMMA AcksKeepEvidence ==
    ASSUME BaseInv, TypeOK', Places', NeverFull, EvidenceInv, NEW p \in Procs,
           AckRead(p) \/ AckAppend(p)
    PROVE  EvidenceInv'
<1>1. TypeOK /\ Places /\ TurnInv /\ journal \in Seq(Written) /\ ack[p] \in Acks
  BY DEF BaseInv, Places
<1>2. /\ \A q \in Procs : Executing(q)' => Executing(q) /\ Op(q)' = Op(q)
      /\ UNCHANGED <<turn, outcome, open, detached, effects, died, missed>>
  BY <1>1 DEF AckRead, AckAppend, Executing, Op, TypeOK
<1>3. CASE AckRead(p)
  <2>1. RoomInv'
    BY <1>3, AckReadHasRoom DEF EvidenceInv
  <2>2. journal' = journal /\ reviewed' = reviewed
    BY <1>3 DEF AckRead
  <2>3. /\ ack'[p].ops \subseteq Intents(journal) /\ ack'[p].seen = ack'[p].ops
        /\ \A q \in Procs : q # p => ack'[q] = ack[q]
    BY <1>1, <1>3 DEF AckRead, Unsettled, Places
  <2>4. IntentsInv' /\ OpenInv'
    BY <1>2, <2>2, <2>3 DEF EvidenceInv, IntentsInv, OpenInv
  <2>5. EndInv'
    BY <1>2, <2>2 DEF EvidenceInv, EndInv, Crashed
  <2> QED  BY <2>1, <2>4, <2>5 DEF EvidenceInv
<1>4. CASE AckAppend(p)
  <2>1. /\ RoomInv'
        /\ \/ /\ journal' = Append(journal, AckEvent(ack[p]))
              /\ reviewed' = reviewed \cup ack[p].seen
           \/ journal' = journal /\ reviewed' = reviewed
    BY <1>4, AckAppendHasRoom DEF EvidenceInv
  <2>2. /\ Intents(journal') = Intents(journal) /\ Settled(journal') = Settled(journal)
        /\ SameTurns
        /\ Duplicated(journal) => Duplicated(journal')
        /\ \/ /\ AckedOps(journal') = AckedOps(journal) \cup ack[p].ops
              /\ reviewed' = reviewed \cup ack[p].seen
           \/ AckedOps(journal') = AckedOps(journal) /\ reviewed' = reviewed
    BY <1>1, <2>1, AckEventReads DEF SameTurns
  <2>3. \A q \in Procs : ack'[q] = ack[q] \/ ack'[q] = NoAck
    BY <1>1, <1>4 DEF AckAppend, Places
  <2>4. IntentsInv'
    BY <1>2, <2>2, <2>3 DEF EvidenceInv, IntentsInv, NoAck
  <2>5. OpenInv'
    BY <1>2, <2>2, <2>3 DEF EvidenceInv, OpenInv, NoAck
  <2>6. EndInv'
    BY <1>2, <2>2 DEF SameTurns, EvidenceInv, EndInv, Crashed
  <2> QED  BY <2>1, <2>4, <2>5, <2>6 DEF EvidenceInv
<1> QED  BY <1>3, <1>4

LEMMA StutterKeepsEvidence ==
    ASSUME EvidenceInv, UNCHANGED vars
    PROVE  EvidenceInv'
<1>1. RoomInv'
  <2>1. /\ \A p \in Procs : (Acking(p)' <=> Acking(p)) /\ (Executing(p)' <=> Executing(p))
        /\ tools' = tools /\ acks' = acks /\ turn' = turn /\ outcome' = outcome
        /\ journal' = journal
    BY DEF vars, Acking, Executing
  <2>2. PICK T, A, g : Taken(T, A, g)
    BY DEF EvidenceInv, RoomInv
  <2>3. TurnPlaces(T)'
    BY <2>1, <2>2 DEF Taken, TurnPlaces, Fits
  <2>4. AckPlaces(A, g)'
    BY <2>1, <2>2 DEF Taken, AckPlaces
  <2>5. Taken(T, A, g)'
    BY <2>1, <2>2, <2>3, <2>4 DEF Taken
  <2> QED  BY <2>5 DEF RoomInv
<1>2. IntentsInv'
  BY DEF vars, EvidenceInv, IntentsInv, Executing, Op
<1>3. OpenInv'
  BY DEF vars, EvidenceInv, OpenInv
<1>4. EndInv'
  BY DEF vars, EvidenceInv, EndInv, Crashed
<1> QED  BY <1>1, <1>2, <1>3, <1>4 DEF EvidenceInv

LEMMA EvidenceStep ==
    ASSUME BaseInv, NeverFull => EvidenceInv, [Next]_vars
    PROVE  (NeverFull => EvidenceInv)'
<1>1. maxEvents' = maxEvents
  BY DEF Next, vars
<1>2. TypeOK' /\ Places'
  BY TypeStep DEF BaseInv
<1> SUFFICES ASSUME NeverFull, EvidenceInv PROVE EvidenceInv'
  BY <1>1 DEF NeverFull
<1>3. ASSUME NEW p \in Procs, TurnStep(p) \/ RecoveryStep(p) PROVE EvidenceInv'
  BY <1>2, <1>3, StartKeepsEvidence, IntentKeepsEvidence, SettleKeepsEvidence,
     EndKeepsEvidence, QuietKeepsEvidence, AcksKeepEvidence DEF TurnStep, RecoveryStep
<1> QED  BY <1>3, StutterKeepsEvidence DEF Next

LEMMA InitEvidence == Init => EvidenceInv
<1> SUFFICES ASSUME Init PROVE EvidenceInv
  OBVIOUS
<1>1. /\ journal = << >> /\ DOMAIN journal = {} /\ Len(journal) = 0
      /\ \A p \in Procs : pc[p] = "idle" /\ turn[p] = NoTurn
  BY DEF Init
<1>2. Taken({}, {}, [p \in Procs |-> 0])
  BY <1>1, FS_EmptySet DEF Taken, TurnPlaces, AckPlaces, Executing, Acking
<1>3. RoomInv
  BY <1>2 DEF RoomInv
<1>4. /\ Intents(journal) = {} /\ Settled(journal) = {} /\ AckedOps(journal) = {}
      /\ Ended(journal) = {}
  BY <1>1 DEF Intents, Settled, AckedOps, Ended, Of
<1>5. IntentsInv /\ OpenInv /\ EndInv
  BY <1>1, <1>4 DEF Init, IntentsInv, OpenInv, EndInv, NoAck, Executing
<1> QED  BY <1>3, <1>5 DEF EvidenceInv

(* A journal large enough for its turns keeps a place for every event, an *)
(* intent for whatever acts, and the end of every turn that wrote it.     *)
THEOREM EvidenceInvariance == Spec => [](NeverFull => EvidenceInv)
<1> QED  BY InitEvidence, EvidenceStep, BaseInvariance, PTL DEF Spec

(* As long as the journal has room, what it tells of crashes is exact, no  *)
(* effect is without its intent, and no operation that is open is passed   *)
(* over in silence (tool_journal.resolve_journal).                         *)
THEOREM TellsCrashes == Spec => []CrashesAreTold
<1>1. ASSUME BaseInv, NeverFull, EvidenceInv
      PROVE  EffectsAreJournaled /\ NothingSilent /\ CrashDetectionIsExact
  <2>1. EffectsAreJournaled
    BY <1>1 DEF EvidenceInv, IntentsInv, EffectsAreJournaled
  <2>2. NothingSilent
    BY <1>1 DEF EvidenceInv, OpenInv, NothingSilent, Status, Corrupt
  <2>3. CrashDetectionIsExact
    <3> SUFFICES ASSUME NEW t \in Turns \ missed
                 PROVE  /\ t \in Interrupted(journal) <=> Crashed(t)
                        /\ \A c \in Calls :
                              Status(journal, <<t, c>>) = "indeterminate"
                                  /\ <<t, c>> \in Intents(journal) => Crashed(t)
      BY DEF CrashDetectionIsExact, Crashed
    <3>1. Crashed(t) => outcome[t] # "new"
      BY <1>1 DEF BaseInv, TurnInv, Crashed
    <3>2. /\ t \in Ended(journal) => ~Crashed(t)
          /\ outcome[t] # "new" =>
                t \in Started(journal) /\ (t \in Ended(journal) \/ Crashed(t))
      BY <1>1 DEF EvidenceInv, EndInv
    <3>3. \A i \in DOMAIN journal : Has(journal[i], t) => outcome[t] # "new"
      BY <1>1 DEF BaseInv, TurnInv
    <3>4. \A i \in DOMAIN journal : journal[i] \in Written
      BY <1>1, ElementOfSeq DEF BaseInv, Places
    <3>5. t \in Started(journal) => outcome[t] # "new"
      BY <3>3, <3>4, WrittenKinds DEF Started, Of
    <3>6. ASSUME NEW c \in Calls, <<t, c>> \in Intents(journal) PROVE outcome[t] # "new"
      <4>1. PICK i \in DOMAIN journal :
               journal[i].kind = "tool_intent" /\ journal[i].op = <<t, c>>
        BY <3>6 DEF Intents, Of
      <4>2. Has(journal[i], t)
        BY <3>4, <4>1, WrittenKinds
      <4> QED  BY <3>3, <4>2
    <3>7. ASSUME NEW c \in Calls, Status(journal, <<t, c>>) = "indeterminate"
          PROVE  t \notin Ended(journal)
      BY <3>7 DEF Status
    <3>8. t \in Interrupted(journal) <=> Crashed(t)
      BY <3>1, <3>2, <3>5 DEF Interrupted
    <3>9. ASSUME NEW c \in Calls, Status(journal, <<t, c>>) = "indeterminate",
                 <<t, c>> \in Intents(journal)
          PROVE  Crashed(t)
      BY <3>2, <3>6, <3>7, <3>9
    <3> QED  BY <3>8, <3>9
  <2> QED  BY <2>1, <2>2, <2>3
<1>2. BaseInv /\ (NeverFull => EvidenceInv) => CrashesAreTold
  BY <1>1 DEF CrashesAreTold
<1> QED  BY <1>2, BaseInvariance, EvidenceInvariance, PTL

=============================================================================
