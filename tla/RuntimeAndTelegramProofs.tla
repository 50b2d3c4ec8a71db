---------------------- MODULE RuntimeAndTelegramProofs ----------------------
(***************************************************************************)
(* Proofs of the safety properties of SessionRuntime, for every set of     *)
(* turns and callers, every priority and every retention, and of the chat  *)
(* whose sessions are such runtimes (TelegramChat), for every number of    *)
(* prompts, updates, sessions and troubles.                                *)
(*                                                                         *)
(* SessionsDoNotMix is not inductive.  That two sessions do not work at    *)
(* the same time needs to be known where the open work of the session is   *)
(* that is not current any more (Drained), that closed work is awaited by  *)
(* whoever closed it (Awaited), and that one handler at a time is between  *)
(* a session and the next (Guarded); that nothing stale is sent, that the  *)
(* delivery of a prompt whose session was left carries an older            *)
(* generation, or is cut (Dated), and that a prompt is handled by one      *)
(* handler, which gives it its first delivery (Handled).                   *)
(***************************************************************************)
EXTENDS SessionRuntime, TelegramChat, TelegramSchedule, FiniteSetTheorems, SequenceTheorems,
        WellFoundedInduction, TLAPS

(* The window of a sequence that SubSeq selects. *)
LEMMA SubSeqLemma ==
    ASSUME NEW S, NEW s, NEW a \in Int, NEW b \in Int, \A i \in a..b : s[i] \in S
    PROVE  /\ SubSeq(s, a, b) \in Seq(S)
           /\ Len(SubSeq(s, a, b)) = IF a <= b THEN b - a + 1 ELSE 0
           /\ \A i \in 1..(b - a + 1) : SubSeq(s, a, b)[i] = s[a + i - 1]
<1>1. SubSeq(s, a, b) \in Seq(S)  BY SubSeqProperties
<1>2. Len(SubSeq(s, a, b)) = IF a <= b THEN b - a + 1 ELSE 0  BY SubSeqProperties
<1>3. \A i \in 1..(b - a + 1) : SubSeq(s, a, b)[i] = s[a + i - 1]  BY SubSeqProperties
<1> QED  BY <1>1, <1>2, <1>3

(* What _record_terminal_turn_locked leaves: the deque holds no more than  *)
(* the retention, its entries are distinct, and the ids that fell out of   *)
(* it are exactly those get_turn forgets.                                  *)
LEMMA RecordLemma ==
    ASSUME NEW ids \in Seq(Turns), terminalIds \in Seq(Turns), known \subseteq Turns,
           \A i, j \in DOMAIN terminalIds : terminalIds[i] = terminalIds[j] => i = j,
           \A i, j \in DOMAIN ids : ids[i] = ids[j] => i = j,
           \A i \in DOMAIN terminalIds, j \in DOMAIN ids : terminalIds[i] # ids[j],
           RecordTerminal(ids)
    PROVE  /\ terminalIds' \in Seq(Turns)
           /\ known' \subseteq known
           /\ Len(terminalIds') <= Retention
           /\ \A i, j \in DOMAIN terminalIds' : terminalIds'[i] = terminalIds'[j] => i = j
           /\ \A t : (\E i \in DOMAIN terminalIds' : terminalIds'[i] = t)
                 => \/ \E i \in DOMAIN terminalIds : terminalIds[i] = t
                    \/ \E i \in DOMAIN ids : ids[i] = t
           /\ \A t \in known :
                 t \notin known'
                   <=> /\ \/ \E i \in DOMAIN terminalIds : terminalIds[i] = t
                          \/ \E i \in DOMAIN ids : ids[i] = t
                       /\ \A i \in DOMAIN terminalIds' : terminalIds'[i] # t
<1> DEFINE all  == terminalIds \o ids
           m    == Len(terminalIds)
           n    == Len(ids)
           drop == IF Len(all) > Retention THEN Len(all) - Retention ELSE 0
<1>1. /\ all \in Seq(Turns)
      /\ Len(all) = m + n
      /\ \A i \in 1..(m + n) : all[i] = IF i <= m THEN terminalIds[i] ELSE ids[i - m]
  BY ConcatProperties
<1>2. m \in Nat /\ n \in Nat /\ DOMAIN terminalIds = 1..m /\ DOMAIN ids = 1..n
  BY LenProperties
<1>3. \A i, j \in 1..(m + n) : all[i] = all[j] => i = j
  <2> SUFFICES ASSUME NEW i \in 1..(m + n), NEW j \in 1..(m + n), all[i] = all[j]
               PROVE  i = j
    OBVIOUS
  <2>1. CASE i <= m /\ j <= m  BY <2>1, <1>1, <1>2
  <2>2. CASE i <= m /\ ~(j <= m)
    <3>1. j - m \in 1..n /\ i \in 1..m  BY <2>2, <1>2
    <3> QED  BY <3>1, <2>2, <1>1, <1>2
  <2>3. CASE ~(i <= m) /\ j <= m
    <3>1. i - m \in 1..n /\ j \in 1..m  BY <2>3, <1>2
    <3> QED  BY <3>1, <2>3, <1>1, <1>2
  <2>4. CASE ~(i <= m) /\ ~(j <= m)
    <3>1. i - m \in 1..n /\ j - m \in 1..n  BY <2>4, <1>2
    <3>2. ids[i - m] = ids[j - m]  BY <2>4, <1>1
    <3>3. i - m = j - m  BY <3>1, <3>2, <1>2
    <3> QED  BY <3>3, <1>2
  <2> QED  BY <2>1, <2>2, <2>3, <2>4
<1>4. \A t : (\E k \in 1..(m + n) : all[k] = t)
               <=> \/ \E i \in DOMAIN terminalIds : terminalIds[i] = t
                   \/ \E i \in DOMAIN ids : ids[i] = t
  <2> TAKE t
  <2>1. ASSUME NEW k \in 1..(m + n), all[k] = t
        PROVE  \/ \E i \in DOMAIN terminalIds : terminalIds[i] = t
               \/ \E i \in DOMAIN ids : ids[i] = t
    <3>1. CASE k <= m  BY <3>1, <2>1, <1>1, <1>2
    <3>2. CASE ~(k <= m)
      <4>1. k - m \in 1..n  BY <3>2, <1>2
      <4> QED  BY <4>1, <3>2, <2>1, <1>1, <1>2
    <3> QED  BY <3>1, <3>2
  <2>2. ASSUME NEW i \in DOMAIN terminalIds, terminalIds[i] = t
        PROVE  \E k \in 1..(m + n) : all[k] = t
    <3>1. i \in 1..(m + n) /\ i <= m  BY <1>2
    <3> QED  BY <3>1, <2>2, <1>1
  <2>3. ASSUME NEW i \in DOMAIN ids, ids[i] = t
        PROVE  \E k \in 1..(m + n) : all[k] = t
    <3>1. m + i \in 1..(m + n) /\ ~(m + i <= m) /\ (m + i) - m = i  BY <1>2
    <3> QED  BY <3>1, <2>3, <1>1
  <2> QED  BY <2>1, <2>2, <2>3
<1>5. drop \in 0..(m + n) /\ m + n - drop <= Retention
  BY <1>1, <1>2, RetentionAssumption
<1>6. /\ terminalIds' = SubSeq(all, drop + 1, m + n)
      /\ known' = known \ {all[i] : i \in 1..drop}
  BY <1>1 DEF RecordTerminal
<1> HIDE DEF all, drop, m, n
<1>7. /\ terminalIds' \in Seq(Turns)
      /\ Len(terminalIds') = m + n - drop
      /\ \A i \in 1..(m + n - drop) : terminalIds'[i] = all[drop + i]
  <2>1. \A i \in (drop + 1)..(m + n) : all[i] \in Turns
    BY <1>1, <1>2, <1>5
  <2>2. PICK a \in Int, b \in Int : a = drop + 1 /\ b = m + n
    BY <1>2, <1>5
  <2>3. \A i \in a..b : all[i] \in Turns
    BY <2>1, <2>2
  <2>4. /\ SubSeq(all, a, b) \in Seq(Turns)
        /\ Len(SubSeq(all, a, b)) = IF a <= b THEN b - a + 1 ELSE 0
        /\ \A i \in 1..(b - a + 1) : SubSeq(all, a, b)[i] = all[a + i - 1]
    BY <2>3, SubSeqLemma
  <2>5. terminalIds' = SubSeq(all, a, b)
    BY <2>2, <1>6
  <2>6. b - a + 1 = m + n - drop /\ (a <= b <=> m + n - drop > 0)
    BY <2>2, <1>2, <1>5
  <2>7. Len(terminalIds') = m + n - drop
    BY <2>4, <2>5, <2>6, <1>2, <1>5
  <2>8. ASSUME NEW i \in 1..(m + n - drop)
        PROVE  terminalIds'[i] = all[drop + i]
    <3>1. a + i - 1 = drop + i  BY <2>2, <1>2, <1>5
    <3>2. terminalIds'[i] = all[a + i - 1]  BY <2>4, <2>5, <2>6
    <3> QED  BY <3>1, <3>2
  <2> QED  BY <2>4, <2>5, <2>7, <2>8
<1>8. DOMAIN terminalIds' = 1..(m + n - drop)
  BY <1>7, LenProperties
<1>9. \A i \in 1..(m + n - drop) : drop + i \in 1..(m + n)
  BY <1>2, <1>5
<1>10. \A i, j \in DOMAIN terminalIds' : terminalIds'[i] = terminalIds'[j] => i = j
  <2> SUFFICES ASSUME NEW i \in 1..(m + n - drop), NEW j \in 1..(m + n - drop),
                      terminalIds'[i] = terminalIds'[j]
               PROVE  i = j
    BY <1>8
  <2>1. all[drop + i] = all[drop + j]  BY <1>7
  <2>2. drop + i = drop + j  BY <2>1, <1>9, <1>3
  <2> QED  BY <2>2, <1>2, <1>5
<1>11. ASSUME NEW t, NEW i \in DOMAIN terminalIds', terminalIds'[i] = t
       PROVE  \E k \in 1..(m + n) : all[k] = t
  BY <1>11, <1>7, <1>8, <1>9
<1>12. ASSUME NEW t \in known
       PROVE  t \notin known'
                <=> /\ \E k \in 1..(m + n) : all[k] = t
                    /\ \A i \in DOMAIN terminalIds' : terminalIds'[i] # t
  <2>1. ASSUME t \notin known'
        PROVE  /\ \E k \in 1..(m + n) : all[k] = t
               /\ \A i \in DOMAIN terminalIds' : terminalIds'[i] # t
    <3>1. PICK k \in 1..drop : all[k] = t  BY <2>1, <1>6
    <3>2. k \in 1..(m + n)  BY <1>2, <1>5
    <3>3. ASSUME NEW i \in DOMAIN terminalIds', terminalIds'[i] = t
          PROVE  FALSE
      <4>1. i \in 1..(m + n - drop) /\ all[drop + i] = t  BY <3>3, <1>7, <1>8
      <4>2. drop + i = k  BY <4>1, <3>1, <3>2, <1>9, <1>3
      <4> QED  BY <4>1, <4>2, <1>2, <1>5
    <3> QED  BY <3>1, <3>2, <3>3
  <2>2. ASSUME NEW k \in 1..(m + n), all[k] = t,
               \A i \in DOMAIN terminalIds' : terminalIds'[i] # t
        PROVE  t \notin known'
    <3>1. CASE k <= drop
      <4>1. k \in 1..drop  BY <3>1, <1>2, <1>5
      <4> QED  BY <4>1, <2>2, <1>6
    <3>2. CASE ~(k <= drop)
      <4>1. k - drop \in 1..(m + n - drop) /\ drop + (k - drop) = k  BY <3>2, <1>2, <1>5
      <4> QED  BY <4>1, <2>2, <1>7, <1>8
    <3> QED  BY <3>1, <3>2
  <2> QED  BY <2>1, <2>2
<1> QED  BY <1>4, <1>5, <1>6, <1>7, <1>10, <1>11, <1>12

(* The order in which a queue is drained lists each of its turns once. *)
LEMMA DrainLemma ==
    ASSUME TypeOK, IsFiniteSet(queue), NEW s \in DrainOrders
    PROVE  /\ s \in Seq(Turns)
           /\ \A i, j \in DOMAIN s : s[i] = s[j] => i = j
           /\ \A t : (\E i \in DOMAIN s : s[i] = t) <=> t \in queue
<1>1. Cardinality(queue) \in Nat  BY FS_CardinalityType
<1>2. s \in [1..Cardinality(queue) -> queue] /\ IsDrainOrder(s)
  BY DEF DrainOrders
<1>3. s \in Seq(Turns)
  <2>1. \A i \in 1..Cardinality(queue) : s[i] \in Turns  BY <1>2 DEF TypeOK
  <2>2. s = [i \in 1..Cardinality(queue) |-> s[i]]  BY <1>2
  <2> QED  BY <2>1, <2>2, <1>1, IsASeq
<1>4. \A t \in Turns : ~RunsBefore(t, t)
  BY PriorityAssumption DEF RunsBefore, TypeOK
<1>5. ASSUME NEW i \in DOMAIN s, NEW j \in DOMAIN s, s[i] = s[j], i # j
      PROVE  FALSE
  <2>1. s[i] \in Turns  BY <1>2 DEF TypeOK
  <2>2. i < j \/ j < i  BY <1>1, <1>2, <1>5
  <2>3. RunsBefore(s[i], s[j]) \/ RunsBefore(s[j], s[i])
    BY <1>2, <2>2 DEF IsDrainOrder
  <2> QED  BY <2>1, <2>3, <1>4, <1>5
<1> QED  BY <1>2, <1>3, <1>5 DEF IsDrainOrder

(* The deque and the handle table before and after a batch of live turns   *)
(* has ended: RetentionInv survives.                                       *)
LEMMA RetentionStep ==
    ASSUME TypeOK, TypeOK', RetentionInv,
           NEW ids \in Seq(Turns),
           \A i, j \in DOMAIN ids : ids[i] = ids[j] => i = j,
           \A i \in DOMAIN ids : ids[i] \in Live /\ turnStatus'[ids[i]] \in Terminal,
           \A t \in Turns : turnStatus[t] \in Terminal => turnStatus'[t] \in Terminal,
           \A t \in Turns : t \in Live' <=> t \in Live /\ ~\E i \in DOMAIN ids : ids[i] = t,
           RecordTerminal(ids)
    PROVE  RetentionInv'
<1>1. \A i \in DOMAIN terminalIds, j \in DOMAIN ids : terminalIds[i] # ids[j]
  BY DEF RetentionInv, Live, Terminal
<1>2. /\ terminalIds' \in Seq(Turns)
      /\ known' \subseteq known
      /\ Len(terminalIds') <= Retention
      /\ \A i, j \in DOMAIN terminalIds' : terminalIds'[i] = terminalIds'[j] => i = j
      /\ \A t : (\E i \in DOMAIN terminalIds' : terminalIds'[i] = t)
            => \/ \E i \in DOMAIN terminalIds : terminalIds[i] = t
               \/ \E i \in DOMAIN ids : ids[i] = t
      /\ \A t \in known :
            t \notin known'
              <=> /\ \/ \E i \in DOMAIN terminalIds : terminalIds[i] = t
                     \/ \E i \in DOMAIN ids : ids[i] = t
                  /\ \A i \in DOMAIN terminalIds' : terminalIds'[i] # t
  BY <1>1, RecordLemma DEF RetentionInv, TypeOK
<1>3. \A i \in DOMAIN terminalIds : terminalIds[i] \in Turns
  BY ElementOfSeq, LenProperties DEF TypeOK
<1>4. \A i \in DOMAIN terminalIds' : turnStatus'[terminalIds'[i]] \in Terminal
  BY <1>2, <1>3 DEF RetentionInv
<1>5. ASSUME NEW t
      PROVE  t \in known' <=> t \in Live' \/ \E i \in DOMAIN terminalIds' : terminalIds'[i] = t
  <2>1. t \in known <=> t \in Live \/ \E i \in DOMAIN terminalIds : terminalIds[i] = t
    BY DEF RetentionInv
  <2>2. \A i \in DOMAIN ids : ids[i] \in Live
    OBVIOUS
  <2>3. t \in Live' <=> t \in Live /\ ~\E i \in DOMAIN ids : ids[i] = t
    BY DEF Live
  <2>4. t \in Live => ~\E i \in DOMAIN terminalIds : terminalIds[i] = t
    BY DEF RetentionInv, Live, Terminal
  <2>5. (\E i \in DOMAIN terminalIds' : terminalIds'[i] = t)
          => \/ \E i \in DOMAIN terminalIds : terminalIds[i] = t
             \/ \E i \in DOMAIN ids : ids[i] = t
    BY <1>2
  <2>6. t \in known =>
          (t \notin known'
             <=> /\ \/ \E i \in DOMAIN terminalIds : terminalIds[i] = t
                    \/ \E i \in DOMAIN ids : ids[i] = t
                 /\ \A i \in DOMAIN terminalIds' : terminalIds'[i] # t)
    BY <1>2
  <2>7. t \in known' => t \in known  BY <1>2
  <2> QED  BY <2>1, <2>2, <2>3, <2>4, <2>5, <2>6, <2>7
<1>6. known' = (Live \cup {terminalIds[i] : i \in DOMAIN terminalIds})'
  BY <1>5
<1> QED  BY <1>2, <1>4, <1>6 DEF RetentionInv

-----------------------------------------------------------------------------
(* Each part of IInv holds initially. *)
LEMMA InitIInv == Init => IInv
<1> SUFFICES ASSUME Init PROVE IInv
  OBVIOUS
<1>1. TypeOK
  BY EmptySeq DEF Init, TypeOK, Statuses, TurnStatuses, Ops, Positions
<1>2. QueueInv
  BY FS_EmptySet DEF Init, QueueInv
<1>3. ActiveInv /\ WorkerInv /\ CloseInv
  BY NoTurnAssumption DEF Init, ActiveInv, WorkerInv, CloseInv, TaskLive
<1>4. RetentionInv
  BY RetentionAssumption DEF Init, RetentionInv, Live
<1>5. CallInv
  BY NoTurnAssumption DEF Init, CallInv, CallerInv
<1> QED  BY <1>1, <1>2, <1>3, <1>4, <1>5 DEF IInv

(* The type invariant. *)
LEMMA TypeStep == IInv /\ [Next]_vars => TypeOK'
<1> SUFFICES ASSUME IInv, [Next]_vars PROVE TypeOK'
  OBVIOUS
<1>1. TypeOK /\ IsFiniteSet(queue)
  BY DEF IInv, QueueInv
<1> USE <1>1 DEF TypeOK, Statuses, TurnStatuses, Terminal, TaskLive, TaskDone,
                 Ops, Positions, Waiting
<1>2. ASSUME NEW ids \in Seq(Turns), RecordTerminal(ids)
      PROVE  terminalIds' \in Seq(Turns) /\ known' \in SUBSET Turns
  <2>1. terminalIds \o ids \in Seq(Turns)
    BY ConcatProperties
  <2> DEFINE all  == terminalIds \o ids
             drop == IF Len(all) > Retention THEN Len(all) - Retention ELSE 0
  <2>a. Len(all) \in Nat
    BY <2>1, LenProperties
  <2>b. drop \in Nat
    BY <2>a, RetentionAssumption
  <2>2. PICK a \in Int, b \in Int : a = drop + 1 /\ a >= 1 /\ b = Len(all)
    BY <2>a, <2>b
  <2>3. \A i \in a..b : all[i] \in Turns
    BY <2>1, <2>2, ElementOfSeq, LenProperties
  <2> QED  BY <2>2, <2>3, <1>2, SubSeqLemma DEF RecordTerminal
<1>3. ASSUME NEW t \in Turns, Submit(t) PROVE TypeOK'
  BY <1>3 DEF Submit, Accepting
<1>4. ASSUME NEW hs \in [Turns -> TurnStatuses], NEW st \in Statuses, PopOrExit(hs, st)
      PROVE  /\ queue' \subseteq Turns
             /\ active' \in Turns \cup {NoTurn}
             /\ turnStatus' \in [Turns -> TurnStatuses]
             /\ task' \in [Turns -> {"none"} \cup TaskLive \cup TaskDone]
             /\ status' \in Statuses
             /\ hasWorker' \in BOOLEAN
  <2>1. ASSUME NEW t \in queue,
               queue' = queue \ {t}, active' = t,
               turnStatus' = [hs EXCEPT ![t] = "running"],
               task' = [task EXCEPT ![t] = "pending"],
               status' = "busy", UNCHANGED hasWorker
        PROVE  /\ queue' \subseteq Turns
               /\ active' \in Turns \cup {NoTurn}
               /\ turnStatus' \in [Turns -> TurnStatuses]
               /\ task' \in [Turns -> {"none"} \cup TaskLive \cup TaskDone]
               /\ status' \in Statuses
               /\ hasWorker' \in BOOLEAN
    BY <2>1
  <2> QED  BY <2>1, <1>4 DEF PopOrExit
<1>5. CASE WorkerStart
  BY <1>4, <1>5 DEF WorkerStart
<1>6. ASSUME NEW t \in Turns, WorkerResume(t) PROVE TypeOK'
  <2>1. <<t>> \in Seq(Turns)  OBVIOUS
  <2>2. Outcome(t) \in TurnStatuses /\ StatusAfter(t) \in Statuses
    BY <1>6 DEF WorkerResume, Outcome, StatusAfter
  <2>3. [turnStatus EXCEPT ![t] = Outcome(t)] \in [Turns -> TurnStatuses]
    BY <2>2
  <2> QED  BY <2>1, <2>2, <2>3, <1>2, <1>4, <1>6 DEF WorkerResume
<1>7. ASSUME NEW t \in Turns, ProcessorEnd(t) PROVE TypeOK'
  BY <1>7 DEF ProcessorEnd
<1>8. ASSUME CancelQueued
      PROVE  /\ queue' \subseteq Turns
             /\ turnStatus' \in [Turns -> TurnStatuses]
             /\ terminalIds' \in Seq(Turns) /\ known' \in SUBSET Turns
  BY <1>8, <1>2, DrainLemma DEF CancelQueued
<1>9. ASSUME NEW clear \in BOOLEAN, CancelNow(clear)
      PROVE  /\ queue' \subseteq Turns
             /\ turnStatus' \in [Turns -> TurnStatuses]
             /\ terminalIds' \in Seq(Turns) /\ known' \in SUBSET Turns
             /\ task' \in [Turns -> {"none"} \cup TaskLive \cup TaskDone]
  BY <1>9, <1>8 DEF CancelNow, CancelTask
<1>10. CASE ClearQueue
  BY <1>10, <1>8 DEF ClearQueue
<1>11. ASSUME NEW c \in Callers, CallerCalls(c) PROVE TypeOK'
  <2>1. ASSUME NEW op \in Ops, NEW at \in Positions, NEW t \in Turns \cup {NoTurn},
               Calling(c, op, at, t)
        PROVE  call' \in [Callers -> [op : Ops, at : Positions,
                             turn : Turns \cup {NoTurn}, before : SUBSET Turns]]
    BY <2>1 DEF Calling, Accepted
  <2>2. CASE CancelActive(c)
    BY <2>1, <2>2, <1>9 DEF CancelActive, AfterCancelNow
  <2>3. CASE CancelAll(c)
    BY <2>1, <2>3, <1>9 DEF CancelAll, AfterCancelNow
  <2>4. CASE CloseBegin(c)
    BY <2>1, <2>4 DEF CloseBegin, TurnVars
  <2>5. ASSUME NEW t \in Turns, CancelTurnUnknown(c, t) PROVE TypeOK'
    BY <2>1, <2>5 DEF CancelTurnUnknown, TurnVars
  <2>6. ASSUME NEW t \in Turns, CancelTurnActive(c, t) PROVE TypeOK'
    <3> DEFINE at == CASE task[t] \in TaskLive -> "await_task"
                       [] task[t] = "raised"   -> "raised"
                       [] OTHER                -> "await_done"
    <3>1. at \in Positions  OBVIOUS
    <3>2. Calling(c, "cancel_turn", at, t)  BY <2>6 DEF CancelTurnActive
    <3> HIDE DEF at
    <3> QED  BY <3>1, <3>2, <2>1, <2>6 DEF CancelTurnActive, TurnVars, CancelTask
  <2>7. ASSUME NEW t \in Turns, CancelTurnQueued(c, t) PROVE TypeOK'
    <3>1. <<t>> \in Seq(Turns)  OBVIOUS
    <3> QED  BY <3>1, <2>1, <2>7, <1>2 DEF CancelTurnQueued
  <2> QED  BY <1>11, <2>2, <2>3, <2>4, <2>5, <2>6, <2>7 DEF CallerCalls
<1>a. ASSUME NEW c \in Callers, NEW at \in Positions, MoveTo(c, at)
      PROVE  call' \in [Callers -> [op : Ops, at : Positions,
                           turn : Turns \cup {NoTurn}, before : SUBSET Turns]]
  <2>1. [call[c] EXCEPT !.at = at] \in [op : Ops, at : Positions,
                           turn : Turns \cup {NoTurn}, before : SUBSET Turns]
    <3>1. /\ call[c].op \in Ops /\ call[c].turn \in Turns \cup {NoTurn}
          /\ call[c].before \in SUBSET Turns
      OBVIOUS
    <3>2. [call[c] EXCEPT !.at = at] =
            [op |-> call[c].op, at |-> at, turn |-> call[c].turn,
             before |-> call[c].before]
      OBVIOUS
    <3> QED  BY <3>1, <3>2
  <2>2. call' = [call EXCEPT ![c] = [call[c] EXCEPT !.at = at]]
    BY <1>a DEF MoveTo
  <2> QED  BY <2>1, <2>2
<1>12. ASSUME NEW c \in Callers, CallerResumes(c) PROVE TypeOK'
  <2>1. CASE CloseAgain(c)
    BY <2>1, <1>a DEF CloseAgain, TurnVars
  <2>2. CASE CloseFirst(c)
    <3>1. CASE ActiveIsLive
      <4>1. /\ Calling(c, "close", "await_task", active)
            /\ closer' = {c} /\ UNCHANGED status
        BY <2>2, <3>1 DEF CloseFirst
      <4> QED  BY <4>1, <2>2, <1>9 DEF CloseFirst, Calling, Accepted
    <3>2. CASE ~ActiveIsLive
      <4>1. /\ closer' = IF hasWorker THEN {c} ELSE {}
            /\ status' = IF hasWorker THEN status ELSE "closed"
            /\ MoveTo(c, IF hasWorker THEN "await_worker" ELSE "returned")
        BY <2>2, <3>2 DEF CloseFirst
      <4> QED  BY <4>1, <2>2, <1>9, <1>a DEF CloseFirst
    <3> QED  BY <3>1, <3>2
  <2>3. ASSUME NEW d \in Callers, CloseAfterCancel(d)
        PROVE  /\ status' \in Statuses /\ closer' \subseteq Callers
               /\ call' \in [Callers -> [op : Ops, at : Positions,
                             turn : Turns \cup {NoTurn}, before : SUBSET Turns]]
    BY <2>3, <1>a DEF CloseAfterCancel
  <2>4. ASSUME NEW d \in Callers, AfterHandleDone(d)
        PROVE  /\ status' \in Statuses /\ closer' \subseteq Callers
               /\ call' \in [Callers -> [op : Ops, at : Positions,
                             turn : Turns \cup {NoTurn}, before : SUBSET Turns]]
    BY <2>4, <2>3, <1>a DEF AfterHandleDone
  <2>5. CASE AwaitTaskRaised(c)
    BY <2>5, <1>a DEF AwaitTaskRaised, ReleaseCloseLock, TurnVars
  <2>6. CASE AwaitTaskEnded(c)
    <3>1. CASE turnStatus[call[c].turn] \in Terminal
      BY <3>1, <2>6, <2>4 DEF AwaitTaskEnded, TurnVars
    <3>2. CASE turnStatus[call[c].turn] \notin Terminal
      BY <3>2, <2>6, <1>a DEF AwaitTaskEnded, TurnVars
    <3> QED  BY <3>1, <3>2
  <2>7. CASE AwaitDoneEnded(c)
    BY <2>7, <2>4 DEF AwaitDoneEnded, TurnVars
  <2>8. CASE AwaitWorkerEnded(c)
    BY <2>8, <2>3 DEF AwaitWorkerEnded, TurnVars
  <2> QED  BY <1>12, <2>1, <2>2, <2>5, <2>6, <2>7, <2>8 DEF CallerResumes
<1>13. ASSUME NEW c \in Callers, CallerCancelled(c) PROVE TypeOK'
  BY <1>13, <1>a DEF CallerCancelled, ReleaseCloseLock, TurnVars
<1>14. ASSUME NEW c \in Callers, CloserCancelled(c) PROVE TypeOK'
  <2>1. /\ task' \in [Turns -> {"none"} \cup TaskLive \cup TaskDone]
        /\ hasWorker' \in BOOLEAN /\ ready' \in Nat
    <3>1. CASE ready > 0 /\ ready' = ready - 1 /\ hasWorker' = FALSE /\ UNCHANGED task
      <4>1. ready' \in Nat  BY <3>1
      <4>2. hasWorker' \in BOOLEAN /\ UNCHANGED task  BY <3>1
      <4> QED  BY <4>1, <4>2
    <3>2. CASE /\ active # NoTurn /\ task' = [task EXCEPT ![active] = "interrupted"]
               /\ UNCHANGED <<ready, hasWorker>>
      BY <3>2
    <3> QED  BY <3>1, <3>2, <1>14 DEF CloserCancelled
  <2> QED  BY <2>1, <1>14 DEF CloserCancelled, TurnVars
<1>15. CASE UNCHANGED vars
  BY <1>15 DEF vars
<1> QED
  BY <1>3, <1>5, <1>6, <1>7, <1>10, <1>11, <1>12, <1>13, <1>14, <1>15 DEF Next, Worker

-----------------------------------------------------------------------------
(* The queue, the active turn and the worker.  First the actions that      *)
(* change none of the three, then the worker's loop, whose two callers     *)
(* hand it the statuses hs that the finished turn (if any) has left.       *)

CoreVars == <<queue, turnStatus, active, task, hasWorker, ready>>

LEMMA CoreUnchanged ==
    ASSUME QueueInv, ActiveInv, WorkerInv, UNCHANGED CoreVars
    PROVE  QueueInv' /\ ActiveInv' /\ WorkerInv'
BY DEF CoreVars, QueueInv, ActiveInv, WorkerInv

LEMMA CorePopOrExit ==
    ASSUME TypeOK, QueueInv,
           NEW hs \in [Turns -> TurnStatuses], NEW st,
           \A t \in Turns : hs[t] # "running",
           \A t \in Turns : hs[t] = "queued" <=> turnStatus[t] = "queued",
           \A t \in Turns : task[t] \in TaskLive => FALSE,
           hasWorker = TRUE,
           PopOrExit(hs, st), ready' = 0
    PROVE  QueueInv' /\ ActiveInv' /\ WorkerInv'
<1> USE DEF TaskLive
<1>1. CASE queue = {} /\ active' = NoTurn /\ turnStatus' = hs /\ UNCHANGED <<queue, task>>
           /\ hasWorker' = FALSE
  BY <1>1, NoTurnAssumption, FS_EmptySet DEF QueueInv, ActiveInv, WorkerInv
<1>2. ASSUME NEW t \in queue, queue' = queue \ {t}, active' = t,
             turnStatus' = [hs EXCEPT ![t] = "running"],
             task' = [task EXCEPT ![t] = "pending"], UNCHANGED hasWorker
      PROVE  QueueInv' /\ ActiveInv' /\ WorkerInv'
  <2>1. t \in Turns  BY DEF TypeOK
  <2>2. IsFiniteSet(queue')  BY <1>2, FS_RemoveElement DEF QueueInv
  <2>3. \A u \in Turns : turnStatus'[u] = IF u = t THEN "running" ELSE hs[u]
    BY <1>2
  <2>4. QueueInv'  BY <1>2, <2>1, <2>2, <2>3 DEF QueueInv
  <2>5. ActiveInv'  BY <1>2, <2>1, <2>3 DEF ActiveInv, TypeOK
  <2>6. WorkerInv'  BY <1>2, <2>1, NoTurnAssumption DEF WorkerInv
  <2> QED  BY <2>4, <2>5, <2>6
<1> QED  BY <1>1, <1>2 DEF PopOrExit

(* The effect of cancelling the queue. *)
LEMMA CancelQueuedLemma ==
    ASSUME TypeOK, QueueInv, CancelQueued
    PROVE  /\ queue' = {}
           /\ \A t \in Turns : turnStatus'[t] =
                 IF turnStatus[t] = "queued" THEN "cancelled" ELSE turnStatus[t]
           /\ \E s \in DrainOrders : RecordTerminal(s)
<1>1. /\ queue' = {}
      /\ turnStatus' = [t \in Turns |-> IF t \in queue THEN "cancelled" ELSE turnStatus[t]]
      /\ \E s \in DrainOrders : RecordTerminal(s)
  BY DEF CancelQueued
<1> QED  BY <1>1 DEF QueueInv

(* Cancelling keeps the three parts: the active turn stays active and the  *)
(* worker stays with it.                                                   *)
LEMMA CoreCancelNow ==
    ASSUME TypeOK, QueueInv, ActiveInv, WorkerInv,
           NEW clear \in BOOLEAN, CancelNow(clear),
           UNCHANGED <<active, hasWorker, ready>>
    PROVE  QueueInv' /\ ActiveInv' /\ WorkerInv'
<1>1. task' = IF ActiveIsLive THEN CancelTask(active) ELSE task
  BY DEF CancelNow
<1>2. \A t \in Turns : /\ task'[t] \in TaskLive <=> task[t] \in TaskLive
                       /\ task'[t] = "none" <=> task[t] = "none"
  BY <1>1 DEF CancelTask, ActiveIsLive, TaskLive, TypeOK
<1>3. /\ IsFiniteSet(queue') /\ queue' \subseteq queue
      /\ queue' = {t \in Turns : turnStatus'[t] = "queued"}
      /\ \A t \in Turns : turnStatus'[t] = "running" <=> turnStatus[t] = "running"
  <2>1. CASE clear = TRUE
    <3>1. CancelQueued  BY <2>1 DEF CancelNow
    <3> QED  BY <3>1, CancelQueuedLemma, FS_EmptySet
  <2>2. CASE clear = FALSE
    BY <2>2 DEF CancelNow, QueueInv
  <2> QED  BY <2>1, <2>2
<1>4. QueueInv'  BY <1>3 DEF QueueInv
<1>5. ActiveInv'  BY <1>2, <1>3 DEF ActiveInv
<1>6. WorkerInv'  BY <1>3 DEF WorkerInv
<1> QED  BY <1>4, <1>5, <1>6

LEMMA CoreStep == IInv /\ TypeOK' /\ [Next]_vars => QueueInv' /\ ActiveInv' /\ WorkerInv'
<1> SUFFICES ASSUME IInv, TypeOK', [Next]_vars
             PROVE  QueueInv' /\ ActiveInv' /\ WorkerInv'
  OBVIOUS
<1> DEFINE Goal == QueueInv' /\ ActiveInv' /\ WorkerInv'
<1>1. TypeOK /\ QueueInv /\ ActiveInv /\ WorkerInv /\ CloseInv /\ RetentionInv /\ CallInv
  BY DEF IInv
<1>2. ASSUME NEW t \in Turns, Submit(t) PROVE Goal
  <2>1. IsFiniteSet(queue')
    BY <1>1, <1>2, FS_AddElement DEF Submit, Accepting, QueueInv
  <2>2. QueueInv'
    BY <1>1, <1>2, <2>1 DEF Submit, Accepting, QueueInv, TypeOK
  <2>3. ActiveInv'
    BY <1>1, <1>2 DEF Submit, Accepting, ActiveInv, TypeOK
  <2>4. WorkerInv'
    BY <1>1, <1>2 DEF Submit, Accepting, MustStartWorker, WorkerInv, TypeOK
  <2> QED  BY <2>2, <2>3, <2>4
<1>3. CASE WorkerStart
  <2>1. ready = 1 /\ ready' = 0 /\ active = NoTurn /\ hasWorker = TRUE
    BY <1>1, <1>3 DEF WorkerStart, WorkerInv, TypeOK
  <2>2. \A t \in Turns : turnStatus[t] # "running" /\ ~(task[t] \in TaskLive)
    BY <1>1, <2>1, NoTurnAssumption DEF ActiveInv
  <2> QED  BY <1>1, <1>3, <2>1, <2>2, CorePopOrExit DEF WorkerStart, TypeOK
<1>4. ASSUME NEW t \in Turns, WorkerResume(t) PROVE Goal
  <2> DEFINE hs == [turnStatus EXCEPT ![t] = Outcome(t)]
  <2>1. active = t /\ ready = 0 /\ ready' = 0 /\ hasWorker = TRUE
    BY <1>1, <1>4, NoTurnAssumption DEF WorkerResume, ActiveInv, WorkerInv, TypeOK
  <2>2. Outcome(t) \in Terminal
    BY <1>4 DEF WorkerResume, Outcome, TaskDone, Terminal
  <2>3. /\ hs \in [Turns -> TurnStatuses]
        /\ \A u \in Turns : hs[u] = IF u = t THEN Outcome(t) ELSE turnStatus[u]
    BY <1>1, <2>2 DEF TypeOK, TurnStatuses
  <2>4. /\ \A u \in Turns : hs[u] # "running"
        /\ \A u \in Turns : hs[u] = "queued" <=> turnStatus[u] = "queued"
    BY <1>1, <1>4, <2>1, <2>2, <2>3 DEF ActiveInv, Terminal, WorkerResume
  <2>5. \A u \in Turns : ~(task[u] \in TaskLive)
    BY <1>1, <1>4, <2>1 DEF ActiveInv, WorkerResume, TaskLive, TaskDone
  <2>6. PopOrExit(hs, StatusAfter(t))
    BY <1>4 DEF WorkerResume
  <2> HIDE DEF hs
  <2> QED  BY <1>1, <2>1, <2>3, <2>4, <2>5, <2>6, CorePopOrExit
<1>5. ASSUME NEW t \in Turns, ProcessorEnd(t) PROVE Goal
  <2>1. PICK end \in TaskDone : task' = [task EXCEPT ![t] = end]
    BY <1>5 DEF ProcessorEnd
  <2>2. QueueInv' /\ WorkerInv'
    BY <1>1, <1>5 DEF ProcessorEnd, QueueInv, WorkerInv
  <2>3. ActiveInv'
    BY <1>1, <1>5, <2>1 DEF ProcessorEnd, ActiveInv, TaskDone, TaskLive, TypeOK
  <2> QED  BY <2>2, <2>3
<1>6. CASE ClearQueue
  <2>1. CancelQueued /\ UNCHANGED <<active, task, hasWorker, ready>>
    BY <1>6 DEF ClearQueue
  <2>2. QueueInv'
    BY <1>1, <2>1, CancelQueuedLemma, FS_EmptySet DEF QueueInv
  <2>3. ActiveInv' /\ WorkerInv'
    BY <1>1, <2>1, CancelQueuedLemma DEF ActiveInv, WorkerInv
  <2> QED  BY <2>2, <2>3
<1>7. ASSUME NEW c \in Callers, CallerCalls(c) PROVE Goal
  <2>1. CASE CancelActive(c)
    BY <1>1, <2>1, CoreCancelNow DEF CancelActive
  <2>2. CASE CancelAll(c)
    BY <1>1, <2>2, CoreCancelNow DEF CancelAll
  <2>3. CASE CloseBegin(c)
    BY <1>1, <2>3, CoreUnchanged DEF CloseBegin, TurnVars, CoreVars
  <2>4. ASSUME NEW t \in Turns, CancelTurnUnknown(c, t) PROVE Goal
    BY <1>1, <2>4, CoreUnchanged DEF CancelTurnUnknown, TurnVars, CoreVars
  <2>5. ASSUME NEW t \in Turns, CancelTurnActive(c, t) PROVE Goal
    <3>1. QueueInv' /\ WorkerInv'
      BY <1>1, <2>5 DEF CancelTurnActive, TurnVars, QueueInv, WorkerInv
    <3>2. ActiveInv'
      BY <1>1, <2>5 DEF CancelTurnActive, TurnVars, ActiveInv, CancelTask, TaskLive, TypeOK
    <3> QED  BY <3>1, <3>2
  <2>6. ASSUME NEW t \in Turns, CancelTurnQueued(c, t) PROVE Goal
    <3>1. turnStatus[t] = "queued"
      BY <1>1, <2>6 DEF Cancellable, CancelTurnQueued, RetentionInv, Live, ActiveInv, Terminal
    <3>2. IsFiniteSet(queue')
      BY <1>1, <2>6, FS_RemoveElement DEF CancelTurnQueued, QueueInv
    <3>3. QueueInv'
      BY <1>1, <2>6, <3>2 DEF CancelTurnQueued, QueueInv, TypeOK
    <3>4. ActiveInv'
      BY <1>1, <2>6 DEF CancelTurnQueued, ActiveInv, TypeOK
    <3>5. WorkerInv'
      BY <1>1, <2>6 DEF CancelTurnQueued, WorkerInv
    <3> QED  BY <3>3, <3>4, <3>5
  <2> QED  BY <1>7, <2>1, <2>2, <2>3, <2>4, <2>5, <2>6 DEF CallerCalls
<1>8. ASSUME NEW c \in Callers, CallerResumes(c) PROVE Goal
  <2>1. CASE CloseFirst(c)
    BY <1>1, <2>1, CoreCancelNow DEF CloseFirst
  <2>2. CASE \/ CloseAgain(c) \/ AwaitTaskRaised(c) \/ AwaitTaskEnded(c)
             \/ AwaitDoneEnded(c) \/ AwaitWorkerEnded(c)
    BY <1>1, <2>2, CoreUnchanged
    DEF CloseAgain, AwaitTaskRaised, AwaitTaskEnded, AwaitDoneEnded, AwaitWorkerEnded,
        TurnVars, CoreVars
  <2> QED  BY <1>8, <2>1, <2>2 DEF CallerResumes
<1>9. ASSUME NEW c \in Callers, CallerCancelled(c) PROVE Goal
  BY <1>1, <1>9, CoreUnchanged DEF CallerCancelled, TurnVars, CoreVars
<1>10. ASSUME NEW c \in Callers, CloserCancelled(c) PROVE Goal
  <2>1. closed /\ queue = {}
    BY <1>1, <1>10 DEF CloserCancelled, CloseInv
  <2>2. QueueInv'
    BY <1>1, <1>10 DEF CloserCancelled, TurnVars, QueueInv
  <2>a. UNCHANGED <<queue, turnStatus, active>>
    BY <1>10 DEF CloserCancelled, TurnVars
  <2>3. CASE ready > 0 /\ ready' = ready - 1 /\ hasWorker' = FALSE /\ UNCHANGED task
    <3>1. ready = 1 /\ ready' = 0 /\ active = NoTurn
      BY <1>1, <2>3 DEF WorkerInv
    <3>2. ActiveInv'  BY <1>1, <2>3, <2>a DEF ActiveInv
    <3>3. WorkerInv'  BY <2>1, <2>3, <2>a, <3>1 DEF WorkerInv
    <3> QED  BY <2>2, <3>2, <3>3
  <2>4. CASE active # NoTurn /\ task' = [task EXCEPT ![active] = "interrupted"]
             /\ UNCHANGED <<ready, hasWorker>>
    <3>1. \A t \in Turns : task'[t] = IF t = active THEN "interrupted" ELSE task[t]
      BY <1>1, <2>4 DEF TypeOK
    <3>2. ActiveInv'  BY <1>1, <2>a, <3>1 DEF ActiveInv, TaskLive
    <3>3. WorkerInv'  BY <1>1, <2>4, <2>a DEF WorkerInv
    <3> QED  BY <2>2, <3>2, <3>3
  <2> QED  BY <1>10, <2>2, <2>3, <2>4 DEF CloserCancelled
<1>11. CASE UNCHANGED vars
  BY <1>1, <1>11, CoreUnchanged DEF vars, CoreVars
<1> QED
  BY <1>2, <1>3, <1>4, <1>5, <1>6, <1>7, <1>8, <1>9, <1>10, <1>11 DEF Next, Worker

-----------------------------------------------------------------------------
(* What a begun and a finished close leave. *)
LEMMA CloseStep == IInv /\ TypeOK' /\ [Next]_vars => CloseInv'
<1> SUFFICES ASSUME IInv, TypeOK', [Next]_vars PROVE CloseInv'
  OBVIOUS
<1>1. TypeOK /\ QueueInv /\ ActiveInv /\ WorkerInv /\ CloseInv
  BY DEF IInv
<1>2. ASSUME UNCHANGED <<closed, status, call>>, queue' \subseteq queue, hasWorker' => hasWorker
      PROVE  CloseInv'
  BY <1>1, <1>2 DEF CloseInv
<1>3. ASSUME NEW c \in Callers, NEW op \in Ops, NEW at \in Positions, NEW t \in Turns \cup {NoTurn},
             Calling(c, op, at, t), UNCHANGED <<closed, status, hasWorker>>,
             queue' \subseteq queue,
             at \in {"close_lock", "await_worker"} => op = "close",
             op = "close" => at \in {"close_lock"}
      PROVE  CloseInv'
  <2>1. \A d \in Callers : call'[d] =
           IF d = c THEN [op |-> op, at |-> at, turn |-> t,
                          before |-> IF op = "cancel_all" THEN Accepted ELSE {}]
                    ELSE call[d]
    BY <1>1, <1>3 DEF Calling, TypeOK
  <2> QED  BY <1>1, <1>3, <2>1 DEF CloseInv
<1>4. ASSUME NEW c \in Callers, NEW at \in Positions, MoveTo(c, at)
      PROVE  \A d \in Callers :
               /\ call'[d].op = call[d].op /\ call'[d].turn = call[d].turn
               /\ call'[d].before = call[d].before
               /\ call'[d].at = IF d = c THEN at ELSE call[d].at
  BY <1>1, <1>4 DEF MoveTo, TypeOK
<1>5. ASSUME CancelQueued PROVE queue' \subseteq queue /\ queue' = {}
  BY <1>5 DEF CancelQueued
<1>6. ASSUME NEW clear \in BOOLEAN, CancelNow(clear) PROVE queue' \subseteq queue
  BY <1>5, <1>6 DEF CancelNow
<1>7. ASSUME NEW t \in Turns, Submit(t) PROVE CloseInv'
  BY <1>1, <1>7 DEF Submit, Accepting, CloseInv
<1>8. ASSUME NEW hs, NEW st \in {"idle", "busy", "cancelled", "error"}, PopOrExit(hs, st),
             UNCHANGED <<closed, call>>, status # "closed"
      PROVE  CloseInv'
  <2>1. CASE /\ queue = {} /\ hasWorker' = FALSE /\ UNCHANGED queue
             /\ status' = IF closed THEN "closed"
                          ELSE IF st \in {"cancelled", "error"} THEN st ELSE "idle"
    BY <1>1, <1>8, <2>1 DEF CloseInv
  <2>2. CASE queue # {} /\ status' = "busy" /\ queue' \subseteq queue
    BY <1>1, <1>8, <2>2 DEF CloseInv
  <2> QED  BY <1>8, <2>1, <2>2 DEF PopOrExit
<1>9. CASE WorkerStart
  <2>1. hasWorker /\ status # "closed"
    BY <1>1, <1>9 DEF WorkerStart, WorkerInv, CloseInv
  <2> QED  BY <1>1, <1>8, <1>9, <2>1 DEF WorkerStart, TypeOK, Statuses
<1>10. ASSUME NEW t \in Turns, WorkerResume(t) PROVE CloseInv'
  <2>1. active = t
    BY <1>1, <1>10 DEF WorkerResume, ActiveInv
  <2>2. hasWorker /\ status # "closed"
    BY <1>1, <2>1, NoTurnAssumption DEF WorkerInv, CloseInv
  <2>3. StatusAfter(t) \in {"idle", "busy", "cancelled", "error"}
    BY <1>10 DEF WorkerResume, StatusAfter, TaskDone
  <2> QED  BY <1>8, <1>10, <2>2, <2>3 DEF WorkerResume
<1>11. ASSUME NEW t \in Turns, ProcessorEnd(t) PROVE CloseInv'
  BY <1>2, <1>11 DEF ProcessorEnd
<1>12. CASE ClearQueue
  BY <1>2, <1>5, <1>12 DEF ClearQueue
<1>13. ASSUME NEW c \in Callers, CallerCalls(c) PROVE CloseInv'
  <2> USE DEF Ops, Positions, Waiting
  <2>1. CASE CancelActive(c)
    BY <1>1, <1>3, <1>6, <2>1 DEF CancelActive, AfterCancelNow, TypeOK
  <2>2. CASE CancelAll(c)
    BY <1>1, <1>3, <1>6, <2>2 DEF CancelAll, AfterCancelNow, TypeOK
  <2>3. CASE CloseBegin(c)
    BY <1>3, <2>3 DEF CloseBegin, TurnVars
  <2>4. ASSUME NEW t \in Turns, CancelTurnUnknown(c, t) PROVE CloseInv'
    BY <1>3, <2>4 DEF CancelTurnUnknown, TurnVars
  <2>5. ASSUME NEW t \in Turns, CancelTurnActive(c, t) PROVE CloseInv'
    <3> DEFINE at == CASE task[t] \in TaskLive -> "await_task"
                       [] task[t] = "raised"   -> "raised"
                       [] OTHER                -> "await_done"
    <3>1. at \in {"await_task", "raised", "await_done"}  OBVIOUS
    <3>2. Calling(c, "cancel_turn", at, t)  BY <2>5 DEF CancelTurnActive
    <3> HIDE DEF at
    <3> QED  BY <3>1, <3>2, <1>3, <2>5 DEF CancelTurnActive, TurnVars
  <2>6. ASSUME NEW t \in Turns, CancelTurnQueued(c, t) PROVE CloseInv'
    BY <1>3, <2>6 DEF CancelTurnQueued
  <2> QED  BY <1>13, <2>1, <2>2, <2>3, <2>4, <2>5, <2>6 DEF CallerCalls
<1>14. ASSUME NEW c \in Callers, CloseAfterCancel(c), call[c].op = "close", closed,
              UNCHANGED <<closed, queue, hasWorker>>
       PROVE  CloseInv'
  <2> USE DEF Positions, Waiting
  <2>1. CASE hasWorker
    BY <1>1, <1>4, <1>14, <2>1 DEF CloseAfterCancel, CloseInv
  <2>2. CASE ~hasWorker
    BY <1>1, <1>4, <1>14, <2>2 DEF CloseAfterCancel, CloseInv
  <2> QED  BY <2>1, <2>2
<1>15. ASSUME NEW c \in Callers, AfterHandleDone(c), call[c].op = "close" => closed,
              UNCHANGED <<closed, queue, hasWorker>>
       PROVE  CloseInv'
  <2>1. CASE call[c].op = "close"
    BY <1>14, <1>15, <2>1 DEF AfterHandleDone
  <2>2. CASE call[c].op # "close"
    BY <1>1, <1>4, <1>15, <2>2 DEF AfterHandleDone, CloseInv, Positions, Waiting
  <2> QED  BY <2>1, <2>2
<1>16. ASSUME NEW c \in Callers, CallerResumes(c) PROVE CloseInv'
  <2> USE DEF Positions, Waiting
  <2>1. CASE CloseAgain(c)
    BY <1>1, <1>4, <2>1 DEF CloseAgain, TurnVars, CloseInv
  <2>2. CASE CloseFirst(c)
    <3>1. closed' = TRUE /\ queue' = {} /\ hasWorker' = hasWorker /\ call[c].op = "close"
      BY <1>1, <1>5, <2>2 DEF CloseFirst, CancelNow, CloseInv
    <3>2. CASE ActiveIsLive
      <4>1. Calling(c, "close", "await_task", active) /\ status' = status
        BY <2>2, <3>2 DEF CloseFirst
      <4>2. \A d \in Callers : call'[d] =
           IF d = c THEN [op |-> "close", at |-> "await_task", turn |-> active, before |-> {}]
                    ELSE call[d]
        BY <1>1, <4>1 DEF Calling, TypeOK
      <4> QED  BY <1>1, <2>2, <3>1, <4>1, <4>2 DEF CloseInv, CloseFirst
    <3>3. CASE ~ActiveIsLive
      <4>1. /\ status' = IF hasWorker THEN status ELSE "closed"
            /\ MoveTo(c, IF hasWorker THEN "await_worker" ELSE "returned")
        BY <2>2, <3>3 DEF CloseFirst
      <4>2. \A d \in Callers :
               /\ call'[d].op = call[d].op
               /\ call'[d].at = IF d = c THEN (IF hasWorker THEN "await_worker" ELSE "returned")
                                         ELSE call[d].at
        BY <1>4, <4>1
      <4> QED  BY <1>1, <2>2, <3>1, <4>1, <4>2 DEF CloseInv, CloseFirst
    <3> QED  BY <3>2, <3>3
  <2>3. CASE AwaitTaskRaised(c)
    BY <1>1, <1>4, <2>3 DEF AwaitTaskRaised, TurnVars, CloseInv
  <2>4. CASE AwaitTaskEnded(c)
    <3>1. CASE turnStatus[call[c].turn] \in Terminal
      BY <1>1, <1>15, <2>4, <3>1 DEF AwaitTaskEnded, TurnVars, CloseInv
    <3>2. CASE turnStatus[call[c].turn] \notin Terminal
      BY <1>1, <1>4, <2>4, <3>2 DEF AwaitTaskEnded, TurnVars, CloseInv
    <3> QED  BY <3>1, <3>2
  <2>5. CASE AwaitDoneEnded(c)
    BY <1>1, <1>15, <2>5 DEF AwaitDoneEnded, TurnVars, CloseInv
  <2>6. CASE AwaitWorkerEnded(c)
    BY <1>1, <1>14, <2>6 DEF AwaitWorkerEnded, TurnVars, CloseInv
  <2> QED  BY <1>16, <2>1, <2>2, <2>3, <2>4, <2>5, <2>6 DEF CallerResumes
<1>17. ASSUME NEW c \in Callers, CallerCancelled(c) PROVE CloseInv'
  BY <1>1, <1>4, <1>17 DEF CallerCancelled, TurnVars, CloseInv, Positions, Waiting
<1>18. ASSUME NEW c \in Callers, CloserCancelled(c) PROVE CloseInv'
  <2>1. hasWorker' => hasWorker
    BY <1>1, <1>18 DEF CloserCancelled
  <2> QED  BY <1>2, <1>18, <2>1 DEF CloserCancelled, TurnVars
<1>19. CASE UNCHANGED vars
  BY <1>2, <1>19 DEF vars
<1> QED
  BY <1>7, <1>9, <1>10, <1>11, <1>12, <1>13, <1>16, <1>17, <1>18, <1>19 DEF Next, Worker

-----------------------------------------------------------------------------
(* What get_turn finds. *)
LEMMA RetentionInvStep == IInv /\ TypeOK' /\ [Next]_vars => RetentionInv'
<1> SUFFICES ASSUME IInv, TypeOK', [Next]_vars PROVE RetentionInv'
  OBVIOUS
<1>1. TypeOK /\ QueueInv /\ ActiveInv /\ WorkerInv /\ RetentionInv
  BY DEF IInv
<1> DEFINE SameLife == \A t \in Turns : /\ t \in Live' <=> t \in Live
                                        /\ turnStatus[t] \in Terminal => turnStatus'[t] \in Terminal
<1>2. \A i \in DOMAIN terminalIds : terminalIds[i] \in Turns
  BY <1>1, ElementOfSeq, LenProperties DEF TypeOK
<1>3. ASSUME SameLife, UNCHANGED <<known, terminalIds>> PROVE RetentionInv'
  <2>1. Live' = Live
    <3>1. Live \subseteq Turns /\ Live' \subseteq Turns  BY DEF Live
    <3>2. \A t \in Turns : t \in Live' <=> t \in Live  BY <1>3
    <3> QED  BY <3>1, <3>2
  <2> QED  BY <1>1, <1>2, <1>3, <2>1 DEF RetentionInv
<1>4. ASSUME CancelQueued PROVE RetentionInv'
  <2>1. /\ \A t \in Turns : turnStatus'[t] =
              IF turnStatus[t] = "queued" THEN "cancelled" ELSE turnStatus[t]
        /\ \E s \in DrainOrders : RecordTerminal(s)
    BY <1>1, <1>4, CancelQueuedLemma
  <2>2. PICK s \in DrainOrders : RecordTerminal(s)
    BY <2>1
  <2>3. /\ s \in Seq(Turns)
        /\ \A i, j \in DOMAIN s : s[i] = s[j] => i = j
        /\ \A t : (\E i \in DOMAIN s : s[i] = t) <=> t \in queue
    BY <1>1, DrainLemma DEF QueueInv
  <2>4. \A i \in DOMAIN s : s[i] \in Live /\ turnStatus'[s[i]] \in Terminal
    BY <1>1, <2>1, <2>3 DEF QueueInv, Live, Terminal
  <2>5. \A t \in Turns : turnStatus[t] \in Terminal => turnStatus'[t] \in Terminal
    BY <2>1 DEF Terminal
  <2>6. \A t \in Turns : t \in Live' <=> t \in Live /\ ~\E i \in DOMAIN s : s[i] = t
    BY <1>1, <2>1, <2>3 DEF QueueInv, Live
  <2> QED  BY <1>1, <2>2, <2>3, <2>4, <2>5, <2>6, RetentionStep
<1>5. ASSUME NEW t \in Live, RecordTerminal(<<t>>),
             turnStatus'[t] \in Terminal,
             \A u \in Turns \ {t} : /\ u \in Live' <=> u \in Live
                                    /\ turnStatus[u] \in Terminal => turnStatus'[u] \in Terminal
      PROVE  RetentionInv'
  <2>1. t \in Turns /\ <<t>> \in Seq(Turns) /\ DOMAIN <<t>> = {1} /\ <<t>>[1] = t
    BY DEF Live
  <2>2. turnStatus[t] \notin Terminal /\ t \notin Live'
    BY <1>5 DEF Live, Terminal
  <2> DEFINE ids == <<t>>
  <2>3. \A i, j \in DOMAIN ids : ids[i] = ids[j] => i = j
    BY <2>1
  <2>4. \A i \in DOMAIN ids : ids[i] \in Live /\ turnStatus'[ids[i]] \in Terminal
    BY <1>5, <2>1
  <2>5. ASSUME NEW u \in Turns, turnStatus[u] \in Terminal PROVE turnStatus'[u] \in Terminal
    <3>1. u # t  BY <2>2, <2>5
    <3> QED  BY <3>1, <2>5, <1>5
  <2>6. ASSUME NEW u \in Turns
        PROVE  u \in Live' <=> u \in Live /\ ~\E i \in DOMAIN ids : ids[i] = u
    <3>1. (\E i \in DOMAIN ids : ids[i] = u) <=> u = t  BY <2>1
    <3>2. CASE u = t  BY <3>1, <3>2, <2>2
    <3>3. CASE u # t
      <4>1. u \in Live' <=> u \in Live  BY <3>3, <1>5
      <4> QED  BY <3>1, <3>3, <4>1
    <3> QED  BY <3>2, <3>3
  <2>7. ids \in Seq(Turns) /\ RecordTerminal(ids)
    BY <1>5, <2>1
  <2> HIDE DEF ids
  <2> QED  BY <1>1, <2>3, <2>4, <2>5, <2>6, <2>7, RetentionStep
<1>6. ASSUME NEW t \in Turns, Submit(t) PROVE RetentionInv'
  <2>1. Live' = Live \cup {t}
    BY <1>1, <1>6 DEF Submit, Accepting, Live, TypeOK
  <2>2. \A i \in DOMAIN terminalIds : turnStatus'[terminalIds[i]] \in Terminal
    BY <1>1, <1>2, <1>6 DEF Submit, Accepting, RetentionInv, TypeOK, Terminal
  <2> QED  BY <1>1, <1>6, <2>1, <2>2 DEF Submit, Accepting, RetentionInv
<1>7. ASSUME NEW hs \in [Turns -> TurnStatuses], NEW st, PopOrExit(hs, st)
      PROVE  \A u \in Turns :
                /\ u \notin queue => turnStatus'[u] = hs[u]
                /\ u \in queue => turnStatus'[u] \in {hs[u], "running"}
  <2>1. CASE turnStatus' = hs
    BY <2>1
  <2>2. ASSUME NEW t \in queue, turnStatus' = [hs EXCEPT ![t] = "running"]
        PROVE  \A u \in Turns :
                /\ u \notin queue => turnStatus'[u] = hs[u]
                /\ u \in queue => turnStatus'[u] \in {hs[u], "running"}
    BY <2>2
  <2> QED  BY <1>7, <2>1, <2>2 DEF PopOrExit
<1>8. CASE WorkerStart
  <2>1. \A u \in Turns : /\ u \notin queue => turnStatus'[u] = turnStatus[u]
                         /\ u \in queue => turnStatus'[u] \in {turnStatus[u], "running"}
    BY <1>1, <1>7, <1>8 DEF WorkerStart, TypeOK
  <2>2. SameLife
    BY <1>1, <2>1 DEF QueueInv, Live, Terminal
  <2> QED  BY <1>3, <1>8, <2>2 DEF WorkerStart
<1>9. ASSUME NEW t \in Turns, WorkerResume(t) PROVE RetentionInv'
  <2> DEFINE hs == [turnStatus EXCEPT ![t] = Outcome(t)]
  <2>1. Outcome(t) \in Terminal /\ t \in Live /\ t \notin queue
    BY <1>1, <1>9 DEF WorkerResume, Outcome, TaskDone, Terminal, Live, QueueInv
  <2>2. /\ hs \in [Turns -> TurnStatuses]
        /\ \A u \in Turns : hs[u] = IF u = t THEN Outcome(t) ELSE turnStatus[u]
    BY <1>1, <2>1 DEF TypeOK, TurnStatuses
  <2>3. PopOrExit(hs, StatusAfter(t)) /\ RecordTerminal(<<t>>)
    BY <1>9 DEF WorkerResume
  <2> HIDE DEF hs
  <2>4. \A u \in Turns : /\ u \notin queue => turnStatus'[u] = hs[u]
                         /\ u \in queue => turnStatus'[u] \in {hs[u], "running"}
    BY <1>7, <2>2, <2>3
  <2>5. turnStatus'[t] \in Terminal
    BY <2>1, <2>2, <2>4
  <2>6. \A u \in Turns \ {t} : /\ u \in Live' <=> u \in Live
                               /\ turnStatus[u] \in Terminal => turnStatus'[u] \in Terminal
    BY <1>1, <2>2, <2>4 DEF QueueInv, Live, Terminal
  <2> QED  BY <1>5, <2>1, <2>3, <2>5, <2>6
<1>10. ASSUME NEW t \in Turns, ProcessorEnd(t) PROVE RetentionInv'
  BY <1>3, <1>10 DEF ProcessorEnd, Live
<1>11. CASE ClearQueue
  BY <1>4, <1>11 DEF ClearQueue
<1>12. ASSUME NEW clear \in BOOLEAN, CancelNow(clear) PROVE RetentionInv'
  <2>1. CASE clear = TRUE
    BY <1>4, <1>12, <2>1 DEF CancelNow
  <2>2. CASE clear = FALSE
    BY <1>3, <1>12, <2>2 DEF CancelNow, Live
  <2> QED  BY <2>1, <2>2
<1>13. ASSUME NEW c \in Callers, CallerCalls(c) PROVE RetentionInv'
  <2>1. CASE CancelActive(c) \/ CancelAll(c)
    BY <1>12, <2>1 DEF CancelActive, CancelAll
  <2>2. CASE CloseBegin(c)
    BY <1>3, <2>2 DEF CloseBegin, TurnVars, Live
  <2>3. ASSUME NEW t \in Turns, CancelTurnUnknown(c, t) \/ CancelTurnActive(c, t)
        PROVE  RetentionInv'
    BY <1>3, <2>3 DEF CancelTurnUnknown, CancelTurnActive, TurnVars, Live
  <2>4. ASSUME NEW t \in Turns, CancelTurnQueued(c, t) PROVE RetentionInv'
    <3>1. t \in Live
      BY <1>1, <2>4 DEF Cancellable, CancelTurnQueued, RetentionInv, Live, Terminal
    <3>2. \A u \in Turns : turnStatus'[u] = IF u = t THEN "cancelled" ELSE turnStatus[u]
      BY <1>1, <2>4 DEF CancelTurnQueued, TypeOK
    <3> QED  BY <1>5, <2>4, <3>1, <3>2 DEF CancelTurnQueued, Live, Terminal
  <2> QED  BY <1>13, <2>1, <2>2, <2>3, <2>4 DEF CallerCalls
<1>14. ASSUME NEW c \in Callers, CallerResumes(c) PROVE RetentionInv'
  <2>1. CASE CloseFirst(c)
    BY <1>12, <2>1 DEF CloseFirst
  <2>2. CASE \/ CloseAgain(c) \/ AwaitTaskRaised(c) \/ AwaitTaskEnded(c)
             \/ AwaitDoneEnded(c) \/ AwaitWorkerEnded(c)
    BY <1>3, <2>2 DEF CloseAgain, AwaitTaskRaised, AwaitTaskEnded, AwaitDoneEnded,
        AwaitWorkerEnded, TurnVars, Live
  <2> QED  BY <1>14, <2>1, <2>2 DEF CallerResumes
<1>15. ASSUME NEW c \in Callers, CallerCancelled(c) \/ CloserCancelled(c) PROVE RetentionInv'
  BY <1>3, <1>15 DEF CallerCancelled, CloserCancelled, TurnVars, Live
<1>16. CASE UNCHANGED vars
  BY <1>3, <1>16 DEF vars, Live
<1> QED
  BY <1>6, <1>8, <1>9, <1>10, <1>11, <1>13, <1>14, <1>15, <1>16 DEF Next, Worker

-----------------------------------------------------------------------------
(* What has once started never goes back: a turn that left the queue does  *)
(* not return to it, a terminal turn keeps its status, a task that is done *)
(* stays done.  Every step, of every task, keeps it.                       *)
Onward(t) ==
    turnStatus[t] \notin {"absent", "queued"} =>
       /\ turnStatus'[t] \notin {"absent", "queued"}
       /\ turnStatus[t] \in Terminal => turnStatus'[t] = turnStatus[t]
       /\ task[t] \in TaskDone => task'[t] \in TaskDone
       /\ task[t] # "none" => task'[t] # "none"
       /\ task[t] \notin TaskLive => task'[t] \notin TaskLive

LEMMA OnwardStep == IInv /\ [Next]_vars => \A t \in Turns : Onward(t)
<1> SUFFICES ASSUME IInv, [Next]_vars, NEW u \in Turns PROVE Onward(u)
  OBVIOUS
<1>1. TypeOK /\ QueueInv /\ ActiveInv /\ WorkerInv /\ RetentionInv
  BY DEF IInv
<1>2. ASSUME UNCHANGED <<turnStatus, task>> PROVE Onward(u)
  BY <1>2 DEF Onward
<1>3. ASSUME NEW t \in Turns, Submit(t) PROVE Onward(u)
  BY <1>1, <1>3 DEF Submit, Accepting, Onward, TypeOK, Terminal
<1>4. ASSUME NEW hs \in [Turns -> TurnStatuses], NEW st, PopOrExit(hs, st)
      PROVE  turnStatus[u] # "queued" => turnStatus'[u] = hs[u] /\ task'[u] = task[u]
  BY <1>1, <1>4 DEF PopOrExit, QueueInv, TypeOK
<1>5. CASE WorkerStart
  BY <1>1, <1>4, <1>5 DEF WorkerStart, Onward, TypeOK
<1>6. ASSUME NEW t \in Turns, WorkerResume(t) PROVE Onward(u)
  <2> DEFINE hs == [turnStatus EXCEPT ![t] = Outcome(t)]
  <2>1. Outcome(t) \in Terminal /\ turnStatus[t] = "running"
    BY <1>6 DEF WorkerResume, Outcome, TaskDone, Terminal
  <2>2. /\ hs \in [Turns -> TurnStatuses]
        /\ hs[u] = IF u = t THEN Outcome(t) ELSE turnStatus[u]
    BY <1>1, <2>1 DEF TypeOK, TurnStatuses
  <2>3. PopOrExit(hs, StatusAfter(t))
    BY <1>6 DEF WorkerResume
  <2> HIDE DEF hs
  <2> QED  BY <1>4, <2>1, <2>2, <2>3 DEF Onward, Terminal
<1>7. ASSUME NEW t \in Turns, ProcessorEnd(t) PROVE Onward(u)
  BY <1>1, <1>7 DEF ProcessorEnd, Onward, TypeOK, TaskDone, TaskLive
<1>8. ASSUME CancelQueued PROVE turnStatus[u] # "queued" => turnStatus'[u] = turnStatus[u]
  BY <1>1, <1>8, CancelQueuedLemma
<1>9. ASSUME NEW clear \in BOOLEAN, CancelNow(clear) PROVE Onward(u)
  <2>1. turnStatus[u] # "queued" => turnStatus'[u] = turnStatus[u]
    BY <1>8, <1>9 DEF CancelNow
  <2>2. /\ task'[u] \in TaskLive <=> task[u] \in TaskLive
        /\ task[u] \in TaskDone => task'[u] = task[u]
        /\ task'[u] = "none" <=> task[u] = "none"
    BY <1>1, <1>9 DEF CancelNow, CancelTask, TaskLive, TaskDone, TypeOK
  <2> QED  BY <2>1, <2>2 DEF Onward
<1>10. CASE ClearQueue
  BY <1>8, <1>10 DEF ClearQueue, Onward
<1>11. ASSUME NEW c \in Callers, CallerCalls(c) PROVE Onward(u)
  <2>1. CASE CancelActive(c) \/ CancelAll(c)
    BY <1>9, <2>1 DEF CancelActive, CancelAll
  <2>2. CASE CloseBegin(c)
    BY <1>2, <2>2 DEF CloseBegin, TurnVars
  <2>3. ASSUME NEW t \in Turns, CancelTurnUnknown(c, t) PROVE Onward(u)
    BY <1>2, <2>3 DEF CancelTurnUnknown, TurnVars
  <2>4. ASSUME NEW t \in Turns, CancelTurnActive(c, t) PROVE Onward(u)
    BY <1>1, <2>4 DEF CancelTurnActive, TurnVars, Onward, CancelTask, TaskLive, TaskDone, TypeOK
  <2>5. ASSUME NEW t \in Turns, CancelTurnQueued(c, t) PROVE Onward(u)
    BY <1>1, <2>5 DEF Cancellable, CancelTurnQueued, Onward, TypeOK
  <2> QED  BY <1>11, <2>1, <2>2, <2>3, <2>4, <2>5 DEF CallerCalls
<1>12. ASSUME NEW c \in Callers, CallerResumes(c) PROVE Onward(u)
  <2>1. CASE CloseFirst(c)
    BY <1>9, <2>1 DEF CloseFirst
  <2>2. CASE \/ CloseAgain(c) \/ AwaitTaskRaised(c) \/ AwaitTaskEnded(c)
             \/ AwaitDoneEnded(c) \/ AwaitWorkerEnded(c)
    BY <1>2, <2>2 DEF CloseAgain, AwaitTaskRaised, AwaitTaskEnded, AwaitDoneEnded,
        AwaitWorkerEnded, TurnVars
  <2> QED  BY <1>12, <2>1, <2>2 DEF CallerResumes
<1>13. ASSUME NEW c \in Callers, CallerCancelled(c) PROVE Onward(u)
  BY <1>2, <1>13 DEF CallerCancelled, TurnVars
<1>14. ASSUME NEW c \in Callers, CloserCancelled(c) PROVE Onward(u)
  BY <1>1, <1>14 DEF CloserCancelled, TurnVars, Onward, TypeOK, TaskDone, TaskLive
<1>15. CASE UNCHANGED vars
  BY <1>2, <1>15 DEF vars
<1> QED
  BY <1>3, <1>5, <1>6, <1>7, <1>10, <1>11, <1>12, <1>13, <1>14, <1>15 DEF Next, Worker

(* A caller that does nothing in a step keeps what it relies on. *)
LEMMA CallerKeeps ==
    ASSUME TypeOK, \A t \in Turns : Onward(t),
           NEW d \in Callers, CallerInv(d), call'[d] = call[d]
    PROVE  CallerInv(d)'
<1>1. call[d].turn \in Turns \cup {NoTurn} /\ call[d].before \subseteq Turns
  BY DEF TypeOK
<1>2. \A t \in call[d].before : Onward(t)  BY <1>1
<1>3. call[d].turn \in Turns => Onward(call[d].turn)  OBVIOUS
<1> QED  BY <1>1, <1>2, <1>3, NoTurnAssumption DEF CallerInv, Onward, Terminal

LEMMA CallStep == IInv /\ TypeOK' /\ [Next]_vars => CallInv'
<1> SUFFICES ASSUME IInv, TypeOK', [Next]_vars PROVE CallInv'
  OBVIOUS
<1>1. TypeOK /\ QueueInv /\ ActiveInv /\ WorkerInv /\ CloseInv /\ RetentionInv /\ CallInv
  BY DEF IInv
<1>2. \A t \in Turns : Onward(t)
  BY OnwardStep
<1>3. ASSUME UNCHANGED call PROVE CallInv'
  BY <1>1, <1>2, <1>3, CallerKeeps DEF CallInv
<1>4. ASSUME NEW c \in Callers, \A d \in Callers \ {c} : call'[d] = call[d], CallerInv(c)'
      PROVE  CallInv'
  <2>1. \A d \in Callers \ {c} : CallerInv(d)'
    BY <1>1, <1>2, <1>4, CallerKeeps DEF CallInv
  <2> QED  BY <1>4, <2>1 DEF CallInv
<1>5. ASSUME NEW c \in Callers, NEW op, NEW at, NEW t, Calling(c, op, at, t)
      PROVE  /\ \A d \in Callers \ {c} : call'[d] = call[d]
             /\ call'[c].op = op /\ call'[c].at = at /\ call'[c].turn = t
             /\ call'[c].before = IF op = "cancel_all" THEN Accepted ELSE {}
  BY <1>1, <1>5 DEF Calling, TypeOK
<1>6. ASSUME NEW c \in Callers, NEW at, MoveTo(c, at)
      PROVE  /\ \A d \in Callers \ {c} : call'[d] = call[d]
             /\ call'[c].op = call[c].op /\ call'[c].at = at
             /\ call'[c].turn = call[c].turn /\ call'[c].before = call[c].before
  BY <1>1, <1>6 DEF MoveTo, TypeOK
<1>7. ASSUME NEW clear \in BOOLEAN, CancelNow(clear)
      PROVE  /\ ActiveIsLive => /\ active \in Turns /\ task'[active] # "none"
                                /\ turnStatus'[active] \notin {"absent", "queued"}
             /\ ~ActiveIsLive => /\ \A t \in Turns : task[t] \notin TaskLive /\ task'[t] = task[t]
                                 /\ active # NoTurn => task[active] \in TaskDone
             /\ active \in Turns => turnStatus'[active] \notin {"absent", "queued"}
  <2>1. active \in Turns => turnStatus[active] = "running"
    BY <1>1 DEF ActiveInv
  <2>2. active \in Turns => turnStatus'[active] \notin {"absent", "queued"}
    BY <1>2, <2>1 DEF Onward
  <2>3. ActiveIsLive => active \in Turns /\ task'[active] # "none"
    BY <1>1, <1>7 DEF CancelNow, CancelTask, ActiveIsLive, TypeOK, TaskLive
  <2>4. ~ActiveIsLive => /\ \A t \in Turns : task[t] \notin TaskLive /\ task'[t] = task[t]
                         /\ active # NoTurn => task[active] \in TaskDone
    BY <1>1, <1>7, NoTurnAssumption
    DEF CancelNow, ActiveIsLive, ActiveInv, TypeOK, TaskLive, TaskDone
  <2> QED  BY <2>2, <2>3, <2>4
<1>8. ASSUME NEW c \in Callers, CallerCalls(c) PROVE CallInv'
  <2>1. CASE CancelActive(c)
    <3>1. Calling(c, "cancel_active", AfterCancelNow, active) /\ CancelNow(FALSE)
      BY <2>1 DEF CancelActive
    <3>a. /\ call'[c].op = "cancel_active" /\ call'[c].turn = active
          /\ call'[c].at = AfterCancelNow
      BY <1>5, <3>1
    <3>b. /\ ActiveIsLive => /\ active \in Turns /\ task'[active] # "none"
          /\ ~ActiveIsLive =>
                /\ \A t \in Turns : task'[t] = task[t]
                /\ active # NoTurn => task[active] \in TaskDone
          /\ active \in Turns => turnStatus'[active] \notin {"absent", "queued"}
      BY <1>7, <3>1
    <3>2. CallerInv(c)'
      <4>1. CASE ActiveIsLive
        BY <3>a, <3>b, <4>1 DEF CallerInv, AfterCancelNow
      <4>2. CASE ~ActiveIsLive
        BY <1>1, <3>a, <3>b, <4>2 DEF CallerInv, AfterCancelNow, TypeOK
      <4> QED  BY <4>1, <4>2
    <3> QED  BY <1>4, <1>5, <3>1, <3>2
  <2>2. CASE CancelAll(c)
    <3>1. Calling(c, "cancel_all", AfterCancelNow, active) /\ CancelNow(TRUE)
      BY <2>2 DEF CancelAll
    <3>2. \A t \in Accepted : turnStatus'[t] \notin {"absent", "queued"}
      BY <1>1, <3>1, CancelQueuedLemma DEF CancelNow, Accepted
    <3>3. \A t \in Accepted : t # active => task[t] \notin TaskLive
      BY <1>1 DEF ActiveInv, Accepted
    <3>4. \A t \in Turns : task[t] \notin TaskLive => task'[t] \notin TaskLive
      BY <1>1, <3>1 DEF CancelNow, CancelTask, TypeOK, TaskLive
    <3>5. Accepted \subseteq Turns
      BY DEF Accepted
    <3>a. /\ call'[c].op = "cancel_all" /\ call'[c].turn = active
          /\ call'[c].at = AfterCancelNow /\ call'[c].before = Accepted
      BY <1>5, <3>1
    <3>b. /\ ActiveIsLive => active \in Turns /\ task'[active] # "none"
          /\ ~ActiveIsLive => \A t \in Turns : task[t] \notin TaskLive
          /\ active \in Turns => turnStatus'[active] \notin {"absent", "queued"}
      BY <1>7, <3>1
    <3>6. CallerInv(c)'
      <4>1. CASE ActiveIsLive
        BY <3>a, <3>b, <3>2, <3>3, <3>4, <3>5, <4>1 DEF CallerInv, AfterCancelNow
      <4>2. CASE ~ActiveIsLive
        BY <3>a, <3>b, <3>2, <3>4, <3>5, <4>2 DEF CallerInv, AfterCancelNow
      <4> QED  BY <4>1, <4>2
    <3> QED  BY <1>4, <1>5, <3>1, <3>6
  <2>3. CASE CloseBegin(c)
    <3>1. Calling(c, "close", "close_lock", NoTurn)
      BY <2>3 DEF CloseBegin
    <3>2. CallerInv(c)'
      BY <1>5, <3>1, NoTurnAssumption DEF CallerInv
    <3> QED  BY <1>4, <1>5, <3>1, <3>2
  <2>4. ASSUME NEW t \in Turns, CancelTurnUnknown(c, t) PROVE CallInv'
    <3>1. Calling(c, "cancel_turn", "returned", t) /\ turnStatus' = turnStatus
      BY <2>4 DEF CancelTurnUnknown, TurnVars
    <3>2. turnStatus[t] \in Terminal
      BY <1>1, <2>4 DEF Cancellable, CancelTurnUnknown, Accepted, RetentionInv, Live, TypeOK, TurnStatuses
    <3>3. CallerInv(c)'
      BY <1>5, <3>1, <3>2 DEF CallerInv, Terminal
    <3> QED  BY <1>4, <1>5, <3>1, <3>3
  <2>5. ASSUME NEW t \in Turns, CancelTurnActive(c, t) PROVE CallInv'
    <3> DEFINE at == CASE task[t] \in TaskLive -> "await_task"
                       [] task[t] = "raised"   -> "raised"
                       [] OTHER                -> "await_done"
    <3>1. Calling(c, "cancel_turn", at, t) /\ turnStatus' = turnStatus /\ task' = CancelTask(t)
      BY <2>5 DEF CancelTurnActive, TurnVars
    <3>2. turnStatus[t] = "running" /\ task[t] \in TaskLive \cup TaskDone
      BY <1>1, <2>5 DEF CancelTurnActive, ActiveInv, TypeOK
    <3>3. /\ at \in {"await_task", "raised", "await_done"}
          /\ at = "await_task" => task'[t] # "none"
          /\ at = "await_done" => task'[t] \in TaskDone
      BY <1>1, <3>1, <3>2 DEF CancelTask, TaskLive, TaskDone, TypeOK
    <3> HIDE DEF at
    <3>4. CallerInv(c)'
      BY <1>5, <3>1, <3>2, <3>3 DEF CallerInv
    <3> QED  BY <1>4, <1>5, <3>1, <3>4
  <2>6. ASSUME NEW t \in Turns, CancelTurnQueued(c, t) PROVE CallInv'
    <3>1. Calling(c, "cancel_turn", "returned", t) /\ turnStatus'[t] = "cancelled"
      BY <1>1, <2>6 DEF CancelTurnQueued, TypeOK
    <3>2. CallerInv(c)'
      BY <1>5, <3>1 DEF CallerInv, Terminal
    <3> QED  BY <1>4, <1>5, <3>1, <3>2
  <2> QED  BY <1>8, <2>1, <2>2, <2>3, <2>4, <2>5, <2>6 DEF CallerCalls
<1>9. ASSUME NEW c \in Callers, call[c].op = "close", NEW at, at \notin {"await_task", "await_done"},
             MoveTo(c, at)
      PROVE  CallInv'
  <2>1. call[c].turn \in Turns => turnStatus'[call[c].turn] \notin {"absent", "queued"}
    BY <1>1, <1>2 DEF CallInv, CallerInv, Onward
  <2>2. CallerInv(c)'
    BY <1>6, <1>9, <2>1 DEF CallerInv
  <2> QED  BY <1>4, <1>6, <1>9, <2>2
<1>10. ASSUME NEW c \in Callers, NEW at \in {"raised", "await_done", "returned"}, MoveTo(c, at),
              UNCHANGED <<turnStatus, task>>,
              call[c].at \in {"await_task", "await_done", "close_lock"},
              at # "raised" => /\ call[c].turn \in Turns /\ task[call[c].turn] \in TaskDone
                               /\ call[c].at # "close_lock",
              at = "returned" => turnStatus[call[c].turn] \in Terminal
       PROVE  CallInv'
  <2>1. CallerInv(c)
    BY <1>1 DEF CallInv
  <2>2. \A t \in Turns : task[t] \in TaskDone => task[t] \notin TaskLive
    BY DEF TaskDone, TaskLive
  <2>3. call[c].before \subseteq Turns
    BY <1>1 DEF TypeOK
  <2>4. CallerInv(c)'
    BY <1>6, <1>10, <2>1, <2>2, <2>3 DEF CallerInv
  <2> QED  BY <1>4, <1>6, <1>10, <2>4
<1>11. ASSUME NEW c \in Callers, AfterHandleDone(c), UNCHANGED <<turnStatus, task>>,
              call[c].at \in {"await_task", "await_done"},
              task[call[c].turn] \in TaskDone, turnStatus[call[c].turn] \in Terminal
       PROVE  CallInv'
  <2>1. call[c].turn \in Turns
    BY <1>1, <1>11 DEF CallInv, CallerInv
  <2>2. CASE call[c].op = "close"
    BY <1>9, <1>11, <2>2 DEF AfterHandleDone, CloseAfterCancel
  <2>3. CASE call[c].op # "close"
    BY <1>10, <1>11, <2>1, <2>3 DEF AfterHandleDone
  <2> QED  BY <2>2, <2>3
<1>12. ASSUME NEW c \in Callers, CallerResumes(c) PROVE CallInv'
  <2>1. CASE CloseAgain(c)
    BY <1>1, <1>9, <2>1 DEF CloseAgain, CloseInv
  <2>2. CASE CloseFirst(c)
    <3>1. CancelNow(TRUE) /\ call[c].op = "close"
      BY <1>1, <2>2 DEF CloseFirst, CloseInv
    <3>2. CASE ActiveIsLive
      <4>1. Calling(c, "close", "await_task", active)
        BY <2>2, <3>2 DEF CloseFirst
      <4>a. call'[c].op = "close" /\ call'[c].turn = active /\ call'[c].at = "await_task"
        BY <1>5, <4>1
      <4>b. /\ active \in Turns /\ task'[active] # "none"
            /\ turnStatus'[active] \notin {"absent", "queued"}
        BY <1>7, <3>1, <3>2
      <4>2. CallerInv(c)'
        BY <4>a, <4>b DEF CallerInv
      <4> QED  BY <1>4, <1>5, <4>1, <4>2
    <3>3. CASE ~ActiveIsLive
      <4>1. MoveTo(c, IF hasWorker THEN "await_worker" ELSE "returned")
        BY <2>2, <3>3 DEF CloseFirst
      <4> QED  BY <1>9, <3>1, <4>1
    <3> QED  BY <3>2, <3>3
  <2>3. CASE AwaitTaskRaised(c)
    BY <1>10, <2>3 DEF AwaitTaskRaised, TurnVars
  <2>4. CASE AwaitTaskEnded(c)
    <3>1. call[c].turn \in Turns /\ task[call[c].turn] \in TaskDone
      BY <1>1, <2>4 DEF AwaitTaskEnded, CallInv, CallerInv, TaskDone
    <3>2. CASE turnStatus[call[c].turn] \in Terminal
      BY <1>11, <2>4, <3>1, <3>2 DEF AwaitTaskEnded, TurnVars
    <3>3. CASE turnStatus[call[c].turn] \notin Terminal
      BY <1>10, <2>4, <3>1, <3>3 DEF AwaitTaskEnded, TurnVars
    <3> QED  BY <3>2, <3>3
  <2>5. CASE AwaitDoneEnded(c)
    <3>1. task[call[c].turn] \in TaskDone
      BY <1>1, <2>5 DEF AwaitDoneEnded, CallInv, CallerInv
    <3> QED  BY <1>11, <2>5, <3>1 DEF AwaitDoneEnded, TurnVars
  <2>6. CASE AwaitWorkerEnded(c)
    BY <1>1, <1>9, <2>6 DEF AwaitWorkerEnded, CloseAfterCancel, CloseInv
  <2> QED  BY <1>12, <2>1, <2>2, <2>3, <2>4, <2>5, <2>6 DEF CallerResumes
<1>13. ASSUME NEW c \in Callers, CallerCancelled(c) PROVE CallInv'
  BY <1>10, <1>13 DEF CallerCancelled, TurnVars
<1>14. CASE UNCHANGED call
  BY <1>3, <1>14
<1>15. (\E t \in Turns : Submit(t) \/ ProcessorEnd(t)) \/ Worker \/ ClearQueue
          \/ (\E c \in Callers : CloserCancelled(c)) \/ UNCHANGED vars
        => UNCHANGED call
  BY DEF Submit, Accepting, ProcessorEnd, Worker, WorkerStart, WorkerResume, ClearQueue, CloserCancelled, vars
<1> QED  BY <1>8, <1>12, <1>13, <1>14, <1>15 DEF Next

-----------------------------------------------------------------------------
(* The inductive invariant: it holds at first and every step keeps it. *)
THEOREM Invariance == Spec => []IInv
<1>1. IInv /\ [Next]_vars => IInv'
  <2> SUFFICES ASSUME IInv, [Next]_vars PROVE IInv'
    OBVIOUS
  <2>1. TypeOK'  BY TypeStep
  <2>2. QueueInv' /\ ActiveInv' /\ WorkerInv'  BY <2>1, CoreStep
  <2>3. CloseInv'  BY <2>1, CloseStep
  <2>4. RetentionInv'  BY <2>1, RetentionInvStep
  <2>5. CallInv'  BY <2>1, CallStep
  <2> QED  BY <2>1, <2>2, <2>3, <2>4, <2>5 DEF IInv
<1> QED  BY <1>1, InitIInv, PTL DEF Spec

(* Every variable keeps its type. *)
THEOREM TypeCorrect == Spec => []TypeOK
<1>1. IInv => TypeOK  BY DEF IInv
<1> QED  BY <1>1, Invariance, PTL

(* "A runtime executes at most one turn at a time." *)
THEOREM RunsOneTurnAtATime == Spec => []OneTurnAtATime
<1>1. IInv => OneTurnAtATime  BY DEF IInv, ActiveInv, OneTurnAtATime
<1> QED  BY <1>1, Invariance, PTL

(* An accepted turn is queued or active until it is terminal, and a queued *)
(* one has a worker that will look at the queue again.                     *)
THEOREM StrandsNoTurn == Spec => []NoTurnStranded
<1>1. IInv => NoTurnStranded
  <2> SUFFICES ASSUME IInv PROVE NoTurnStranded
    OBVIOUS
  <2>1. \A t \in Live : t \in queue \/ t = active
    BY DEF IInv, Live, QueueInv, ActiveInv
  <2>2. queue # {} => ready > 0 \/ \E t \in Turns : turnStatus[t] = "running"
    BY DEF IInv, WorkerInv, ActiveInv, TypeOK
  <2> QED  BY <2>1, <2>2 DEF NoTurnStranded
<1> QED  BY <1>1, Invariance, PTL

(* get_turn finds every live turn and the last Retention terminal ones. *)
THEOREM RetainsExactly == Spec => []RetentionIsExact
<1>1. IInv => RetentionIsExact  BY DEF IInv, RetentionInv, RetentionIsExact
<1> QED  BY <1>1, Invariance, PTL

(* A cancellation that returned left nothing of its turns running. *)
THEOREM CancelsQuiesce == Spec => []CancelQuiesces
<1>1. IInv => CancelQuiesces
  <2> SUFFICES ASSUME IInv, NEW c \in Callers, call[c].at = "returned"
               PROVE  /\ call[c].op = "cancel_active" /\ call[c].turn # NoTurn
                            => task[call[c].turn] \in TaskDone
                      /\ call[c].op = "cancel_all"
                            => \A t \in call[c].before : t \notin queue /\ task[t] \notin TaskLive
                      /\ call[c].op = "cancel_turn" => call[c].turn \notin Live
    BY DEF CancelQuiesces
  <2>1. CallerInv(c) /\ QueueInv  BY DEF IInv, CallInv
  <2> QED  BY <2>1 DEF CallerInv, QueueInv, Live, Terminal
<1> QED  BY <1>1, Invariance, PTL

(* A closed runtime has finished everything it accepted. *)
THEOREM ClosesCompletely == Spec => []CloseIsComplete
<1>1. IInv => CloseIsComplete
  <2> SUFFICES ASSUME IInv PROVE CloseIsComplete
    OBVIOUS
  <2>1. \A c \in Callers : call[c].op = "close" /\ call[c].at = "returned" => status = "closed"
    BY DEF IInv, CloseInv
  <2>2. ASSUME status = "closed"
        PROVE  closed /\ queue = {} /\ ~hasWorker /\ active = NoTurn /\ ready = 0
    BY <2>2 DEF IInv, CloseInv, WorkerInv
  <2>3. ASSUME status = "closed"
        PROVE  Live = {} /\ \A t \in Turns : task[t] \notin TaskLive
    BY <2>2, <2>3, NoTurnAssumption DEF IInv, QueueInv, ActiveInv, Live
  <2> QED  BY <2>1, <2>2, <2>3 DEF CloseIsComplete
<1> QED  BY <1>1, Invariance, PTL

(* Nothing reopens a closed runtime and no terminal turn changes again. *)
THEOREM ReopensNothing == Spec => NothingReopens
<1>1. IInv /\ [Next]_vars =>
        [/\ status = "closed" => status' = "closed"
         /\ closed => closed'
         /\ \A t \in Turns : turnStatus[t] \in Terminal
               => turnStatus'[t] = turnStatus[t]]_vars
  <2> SUFFICES ASSUME IInv, Next
               PROVE  /\ status = "closed" => status' = "closed"
                      /\ closed => closed'
                      /\ \A t \in Turns : turnStatus[t] \in Terminal
                            => turnStatus'[t] = turnStatus[t]
    BY DEF vars
  <2>1. \A t \in Turns : turnStatus[t] \in Terminal => turnStatus'[t] = turnStatus[t]
    BY OnwardStep DEF Onward, Terminal
  <2>2. closed => closed'
    BY DEF Next, Submit, ProcessorEnd, Worker, WorkerStart, WorkerResume, ClearQueue,
           CallerCalls, CancelActive, CancelAll, CloseBegin, CancelTurnUnknown,
           CancelTurnActive, CancelTurnQueued, CallerResumes, CloseAgain, CloseFirst,
           AwaitTaskRaised, AwaitTaskEnded, AwaitDoneEnded, AwaitWorkerEnded,
           CallerCancelled, CloserCancelled
  <2>3. ASSUME status = "closed" PROVE status' = "closed"
    <3>1. ~hasWorker /\ ready = 0 /\ active = NoTurn
      BY <2>3 DEF IInv, CloseInv, WorkerInv
    <3>2. ~Worker
      <4>1. ~WorkerStart  BY <3>1 DEF WorkerStart
      <4>2. \A t \in Turns : ~WorkerResume(t)
        BY <3>1, NoTurnAssumption DEF IInv, WorkerResume, ActiveInv
      <4> QED  BY <4>1, <4>2 DEF Worker
    <3>3. ASSUME NEW c \in Callers, CallerResumes(c) PROVE status' = "closed"
      BY <2>3, <3>3
      DEF CallerResumes, CloseAgain, CloseFirst, AwaitTaskRaised, AwaitTaskEnded,
          AwaitDoneEnded, AwaitWorkerEnded, AfterHandleDone, CloseAfterCancel
    <3>4. CASE UNCHANGED status
      BY <2>3, <3>4
    <3> QED
      BY <3>2, <3>3, <3>4
      DEF Next, Submit, ProcessorEnd, ClearQueue, CallerCalls, CancelActive, CancelAll,
          CloseBegin, CancelTurnUnknown, CancelTurnActive, CancelTurnQueued,
          CallerCancelled, CloserCancelled
  <2> QED  BY <2>1, <2>2, <2>3
<1> QED  BY <1>1, Invariance, PTL DEF Spec, NothingReopens

(* What a session relies on, together.                                     *)
THEOREM RuntimeSound == Spec => []RuntimeIsSound
BY TypeCorrect, RunsOneTurnAtATime, StrandsNoTurn, RetainsExactly, ClosesCompletely, PTL DEF RuntimeIsSound

-----------------------------------------------------------------------------
(* The numbers handed out so far are not above _sequence. *)
LEMMA SequenceInvariance == Spec => [](\A t \in Turns : seqno[t] <= sequence)
<1> DEFINE I == \A t \in Turns : seqno[t] <= sequence
<1>1. Init => I  BY DEF Init
<1>2. IInv /\ I /\ [Next]_vars => I'
  <2> SUFFICES ASSUME IInv, I, [Next]_vars PROVE I'
    OBVIOUS
  <2>1. sequence \in Nat /\ seqno \in [Turns -> Nat]  BY DEF IInv, TypeOK
  <2>2. ASSUME NEW t \in Turns, Submit(t) PROVE I'
    BY <2>1, <2>2 DEF Submit, Accepting
  <2>3. CASE UNCHANGED <<sequence, seqno>>
    BY <2>3
  <2> QED
    BY <2>2, <2>3
    DEF Next, ProcessorEnd, Worker, WorkerStart, WorkerResume, ClearQueue,
        CallerCalls, CancelActive, CancelAll, CloseBegin, CancelTurnUnknown,
        CancelTurnActive, CancelTurnQueued, CallerResumes, CloseAgain, CloseFirst,
        AwaitTaskRaised, AwaitTaskEnded, AwaitDoneEnded, AwaitWorkerEnded,
        CallerCancelled, CloserCancelled, TurnVars, vars
<1> HIDE DEF I
<1>3. Spec => []I  BY <1>1, <1>2, Invariance, PTL DEF Spec
<1> QED  BY <1>3 DEF I

(* The runtime implements what TurnLifecycle promises to submitters. *)
THEOREM ImplementsTurnLifecycle == Spec => ImplementsLifecycle
<1> USE DEF Lifecycle!Queued, Lifecycle!Running, Lifecycle!Ended
<1> DEFINE I == \A t \in Turns : seqno[t] <= sequence
<1>1. Init => Lifecycle!Init
  BY DEF Init, Lifecycle!Init
<1>2. IInv /\ I /\ [Next]_vars => [Lifecycle!Next]_(Lifecycle!lifecycle)
  <2> SUFFICES ASSUME IInv, I, [Next]_vars
               PROVE  Lifecycle!Next \/ UNCHANGED <<turnStatus, seqno, closed>>
    BY DEF Lifecycle!lifecycle
  <2>1. TypeOK /\ QueueInv /\ ActiveInv /\ WorkerInv /\ CloseInv /\ RetentionInv
    BY DEF IInv
  <2>2. Lifecycle!Queued = queue
    BY <2>1 DEF QueueInv
  <2>3. \A t : IsNext(t) => Lifecycle!First(t)
    BY <2>1, <2>2 DEF IsNext, RunsBefore, Lifecycle!First, QueueInv
  <2>4. ASSUME NEW t \in Turns, Submit(t) PROVE Lifecycle!Next
    <3>1. seqno'[t] = sequence + 1 /\ seqno' = [seqno EXCEPT ![t] = seqno'[t]]
      BY <2>1, <2>4 DEF Submit, Accepting, TypeOK
    <3>2. seqno'[t] \in Nat /\ \A u \in Turns : seqno[u] < seqno'[t]
      BY <2>1, <3>1 DEF TypeOK
    <3>3. Lifecycle!Accept(t)
      BY <2>4, <3>1, <3>2 DEF Submit, Accepting, Lifecycle!Accept
    <3> QED  BY <3>3 DEF Lifecycle!Next
  <2>5. CASE WorkerStart
    <3>1. Lifecycle!Running = {}
      <4>1. active = NoTurn
        BY <2>1, <2>5 DEF WorkerStart, WorkerInv, TypeOK
      <4>2. \A t \in Turns : turnStatus[t] # "running"
        BY <2>1, <4>1, NoTurnAssumption DEF ActiveInv
      <4> QED  BY <4>2
    <3>2. ASSUME NEW t \in queue, IsNext(t), turnStatus' = [turnStatus EXCEPT ![t] = "running"]
          PROVE  Lifecycle!Next
      <4>1. t \in Turns /\ UNCHANGED <<seqno, closed>>
        BY <2>1, <2>5 DEF WorkerStart, TypeOK
      <4>2. Lifecycle!Start(t)
        BY <2>3, <3>1, <3>2, <4>1 DEF Lifecycle!Start
      <4> QED  BY <4>1, <4>2 DEF Lifecycle!Next
    <3> QED  BY <2>5, <3>2 DEF WorkerStart, PopOrExit
  <2>6. ASSUME NEW t \in Turns, WorkerResume(t) PROVE Lifecycle!Next
    <3>1. Outcome(t) \in Lifecycle!Ended /\ turnStatus[t] = "running"
      BY <2>6 DEF WorkerResume, Outcome, TaskDone
    <3>2. PopOrExit([turnStatus EXCEPT ![t] = Outcome(t)], StatusAfter(t))
            /\ UNCHANGED <<seqno, closed>>
      BY <2>6 DEF WorkerResume
    <3>3. ASSUME NEW u \in queue, IsNext(u),
                 turnStatus' = [[turnStatus EXCEPT ![t] = Outcome(t)] EXCEPT ![u] = "running"]
          PROVE  Lifecycle!Next
      <4>1. u \in Turns  BY <2>1 DEF TypeOK
      <4>2. turnStatus' = [turnStatus EXCEPT ![t] = Outcome(t), ![u] = "running"]
        BY <3>3
      <4>3. Lifecycle!HandOver(t, u)
        BY <2>3, <3>1, <3>2, <3>3, <4>2 DEF Lifecycle!HandOver
      <4> QED  BY <4>1, <4>3 DEF Lifecycle!Next
    <3>4. ASSUME queue = {}, turnStatus' = [turnStatus EXCEPT ![t] = Outcome(t)]
          PROVE  Lifecycle!Next
      <4>1. Lifecycle!End(t)
        BY <2>2, <3>1, <3>2, <3>4 DEF Lifecycle!End
      <4> QED  BY <4>1 DEF Lifecycle!Next
    <3> QED  BY <3>2, <3>3, <3>4 DEF PopOrExit
  <2>7. ASSUME CancelQueued, UNCHANGED seqno, closed' \in BOOLEAN, closed => closed'
        PROVE  Lifecycle!Next
    <3>1. turnStatus' = [t \in Turns |-> IF t \in queue THEN "cancelled" ELSE turnStatus[t]]
      BY <2>7 DEF CancelQueued
    <3>2. Lifecycle!Withdraw(queue)
      BY <2>1, <2>2, <2>7, <3>1 DEF Lifecycle!Withdraw, TypeOK
    <3> QED  BY <2>1, <3>2 DEF Lifecycle!Next, TypeOK
  <2>8. CASE ClearQueue
    BY <2>1, <2>7, <2>8 DEF ClearQueue, TypeOK
  <2>9. ASSUME NEW c \in Callers, CancelAll(c) PROVE Lifecycle!Next
    BY <2>1, <2>7, <2>9 DEF CancelAll, CancelNow, TypeOK
  <2>10. ASSUME NEW c \in Callers, CloseFirst(c) PROVE Lifecycle!Next
    BY <2>1, <2>7, <2>10 DEF CloseFirst, CancelNow, TypeOK
  <2>11. ASSUME NEW c \in Callers, NEW t \in Turns, CancelTurnQueued(c, t) PROVE Lifecycle!Next
    <3>1. t \in Lifecycle!Queued
      BY <2>1, <2>11 DEF Cancellable, CancelTurnQueued, RetentionInv, Live, ActiveInv, Terminal
    <3>2. turnStatus' = [u \in Turns |-> IF u \in {t} THEN "cancelled" ELSE turnStatus[u]]
      BY <2>1, <2>11 DEF CancelTurnQueued, TypeOK
    <3>3. Lifecycle!Withdraw({t})
      BY <2>1, <2>11, <3>1, <3>2 DEF CancelTurnQueued, Lifecycle!Withdraw, TypeOK
    <3> QED  BY <3>3 DEF Lifecycle!Next
  <2>12. CASE UNCHANGED <<turnStatus, seqno, closed>>
    BY <2>12
  <2>13. ASSUME NEW c \in Callers,
                CancelActive(c) \/ CloseBegin(c) \/ CallerCancelled(c) \/ CloserCancelled(c)
                \/ CloseAgain(c) \/ AwaitTaskRaised(c) \/ AwaitTaskEnded(c)
                \/ AwaitDoneEnded(c) \/ AwaitWorkerEnded(c)
                \/ \E t \in Turns : CancelTurnUnknown(c, t) \/ CancelTurnActive(c, t)
         PROVE  UNCHANGED <<turnStatus, seqno, closed>>
    BY <2>13
    DEF CancelActive, CancelNow, CloseBegin, CallerCancelled, CloserCancelled, CloseAgain,
        AwaitTaskRaised, AwaitTaskEnded, AwaitDoneEnded, AwaitWorkerEnded,
        CancelTurnUnknown, CancelTurnActive, TurnVars
  <2>14. ASSUME NEW t \in Turns, ProcessorEnd(t) PROVE UNCHANGED <<turnStatus, seqno, closed>>
    BY <2>14 DEF ProcessorEnd
  <2>15. UNCHANGED vars => UNCHANGED <<turnStatus, seqno, closed>>
    BY DEF vars
  <2> QED
    BY <2>4, <2>5, <2>6, <2>8, <2>9, <2>10, <2>11, <2>12, <2>13, <2>14, <2>15
    DEF Next, Worker, CallerCalls, CallerResumes
<1> HIDE DEF I
<1>3. Spec => []I  BY SequenceInvariance DEF I
<1> QED  BY <1>1, <1>2, <1>3, Invariance, PTL DEF Spec, ImplementsLifecycle, Lifecycle!Spec

-----------------------------------------------------------------------------
(* The chat: the inductive invariant *)

Sessions == [made : BOOLEAN, listed : BOOLEAN, closed : BOOLEAN, gen : Nat, stale : BOOLEAN]

(* The stages of a command under the lock, and all.                        *)
Inside == {"abandon", "cancel", "get", "status", "settle", "publish"}
Stages == {"idle", "lock", "prune", "close_all", "closing"} \cup Inside

Lockless == {"look", "shutdown"}
Changing == {"new", "switch"}

Doings == [pc : Stages, op : {"none", "prompt"} \cup Commands, s : {0} \cup SessionIds,
           p : {Free} \cup Prompts, ends : SUBSET Nat]

Outcomes == {"answered", "cancelled", "failed"}
Works == [s : {0} \cup SessionIds, st : {"none", "queued", "running"} \cup Outcomes, kill : BOOLEAN]

Deliveries == [pc : {"none", "over", "type", "ask", "wait", "edit", "send", "next", "untype"},
               gen : Nat, cut : BOOLEAN]

ChatTypes ==
    /\ sess \in [SessionIds -> Sessions] /\ current \in {0} \cup SessionIds
    /\ boundary \in {Free} \cup Handlers \cup Prompts
    /\ handler \in [Handlers -> Doings]
    /\ turn \in [Prompts -> Works]
    /\ delivery \in [Prompts -> Deliveries]
    /\ shown \in [Prompts -> {"none", "refused", "status", "part", "sorry", "whole"}]
    /\ streaming \in BOOLEAN /\ left \subseteq Prompts

(* A session is listed or closed from when it is made, and not both.       *)
Lives ==
    /\ \A s \in SessionIds : /\ sess[s].made <=> sess[s].listed \/ sess[s].closed
                             /\ ~(sess[s].listed /\ sess[s].closed)
    /\ current # 0 => sess[current].made
    /\ \A p \in Prompts : /\ turn[p].st = "none" <=> turn[p].s = 0
                          /\ turn[p].s # 0 => sess[turn[p].s].made

(* Whoever changes the current session has the lock; those who have none   *)
(* only close.                                                             *)
Placed(j) ==
    /\ j.op \in Lockless => j.pc \in {"prune", "close_all", "closing"}
    /\ j.op \in Changing => j.pc \in {"lock", "abandon", "settle", "publish"}
    /\ j.pc = "close_all" => j.op = "shutdown"
    /\ j.pc = "prune" => j.op # "shutdown"
    /\ j.pc = "abandon" => j.op \in Changing

Guarded ==
    \A h \in Handlers :
       /\ handler[h].pc \notin {"idle", "lock"} /\ handler[h].op \notin Lockless => boundary = h
       /\ Placed(handler[h])

(* A prompt is handled by one handler, and not delivered before the chat   *)
(* shows its status.                                                       *)
Handled ==
    /\ \A h \in Handlers : handler[h].op = "prompt" =>
          /\ handler[h].p \in Prompts
          /\ \A g \in Handlers : handler[g].op = "prompt" /\ handler[g].p = handler[h].p => g = h
          /\ handler[h].pc \in {"lock", "prune", "closing", "get"} =>
                turn[handler[h].p].st = "none" /\ shown[handler[h].p] = "none"
    /\ \A h \in Handlers : handler[h].pc = "status" =>
          /\ handler[h].op = "prompt" /\ handler[h].s \in SessionIds
          /\ turn[handler[h].p].s = handler[h].s
          /\ shown[handler[h].p] = "none" /\ handler[h].p \notin left
    /\ \A h \in Handlers : /\ handler[h].s # 0 => sess[handler[h].s].made
                           /\ handler[h].op = "switch" => handler[h].s # 0

(* A delivery of a session that was left is of a generation before.        *)
Dated ==
    \A p \in Prompts :
       /\ delivery[p].pc # "none" => shown[p] # "none" /\ turn[p].s # 0
       /\ p \in left => turn[p].s # 0
       /\ delivery[p].pc \notin {"none", "over"} => delivery[p].gen <= sess[turn[p].s].gen
       /\ delivery[p].pc \notin {"none", "over"} /\ ~delivery[p].cut /\ p \in left =>
             delivery[p].gen < sess[turn[p].s].gen
       /\ delivery[p].pc \in {"send", "next"} => turn[p].st \in Outcomes

(* Work of a session that is neither closed nor current is awaited by      *)
(* whoever leaves it, and nobody comes to another one meanwhile.           *)
Leaving(h) == handler[h].pc = "settle" /\ handler[h].op \in Changing

Drained ==
    /\ \A p \in Prompts : Open(p) =>
          \/ sess[turn[p].s].closed \/ turn[p].s = current
          \/ \E h \in Handlers : Leaving(h) /\ p \in handler[h].ends
    /\ \A h \in Handlers : Leaving(h) =>
          /\ current = 0
          /\ \A p, q \in Prompts \cap handler[h].ends : turn[p].s = turn[q].s
    /\ \A h \in Handlers : handler[h].pc = "publish" /\ current # 0 => sess[current].closed

(* Work of a closed session is awaited by whoever closes it.               *)
Awaited ==
    \A p \in Prompts : Open(p) /\ sess[turn[p].s].closed =>
       \E h \in Handlers : handler[h].pc = "closing" /\ turn[p].s \in handler[h].ends

ChatInv == ChatTypes /\ Lives /\ Guarded /\ Handled /\ Dated /\ NothingStale /\ Drained /\ Awaited

-----------------------------------------------------------------------------
(* The initial state *)

LEMMA Numbers ==
  /\ Prompts \subseteq Nat \ {0} /\ Handlers \subseteq Nat \ {0}
  /\ Prompts \cap Handlers = {} /\ MaxSessions \in Nat \ {0}
  /\ SessionIds \subseteq Nat \ {0}
BY ChatAssumption DEF Handlers, SessionIds

LEMMA ChatInitHolds == ChatInit => ChatInv
<1> SUFFICES ASSUME ChatInit PROVE ChatInv
  OBVIOUS
<1> USE Numbers DEF ChatInit, Unmade, Resting, Free
<1>1. ChatTypes
  BY DEF ChatTypes, Sessions, Doings, Stages, Works, Deliveries
<1>2. Lives /\ Guarded
  BY DEF Lives, Guarded, Placed, Lockless, Changing
<1>3. Handled /\ Dated
  BY DEF Handled, Dated
<1>4. NothingStale
  BY DEF NothingStale, At
<1>5. Drained /\ Awaited
  BY DEF Drained, Awaited, Open, Leaving
<1> QED
  BY <1>1, <1>2, <1>3, <1>4, <1>5 DEF ChatInv

-----------------------------------------------------------------------------
(* What a step leaves alone *)

(* Turns end, or go on, as they are.                                       *)
TurnsGoOn ==
    /\ turn' \in [Prompts -> Works]
    /\ \A p \in Prompts :
          /\ turn'[p].s = turn[p].s
          /\ turn'[p].st = "none" <=> turn[p].st = "none"
          /\ turn[p].st \in Outcomes => turn'[p].st = turn[p].st
          /\ Open(p)' => Open(p)

LEMMA TurnsStay == ASSUME ChatTypes, UNCHANGED turn PROVE TurnsGoOn
BY DEF ChatTypes, TurnsGoOn, Open

LEMMA KilledTurns == ASSUME ChatTypes, NEW P, turn' = Killed(P) PROVE TurnsGoOn
<1>1. ASSUME NEW p \in Prompts
      PROVE  /\ turn'[p] \in Works
             /\ turn'[p].s = turn[p].s
             /\ turn'[p].st = "none" <=> turn[p].st = "none"
             /\ turn[p].st \in Outcomes => turn'[p].st = turn[p].st
             /\ turn'[p].st \in {"queued", "running"} => turn[p].st \in {"queued", "running"}
  <2>1. turn[p] \in Works
    BY DEF ChatTypes
  <2>2. turn'[p] = IF p \in P /\ turn[p].st = "queued" THEN [turn[p] EXCEPT !.st = "cancelled"]
                   ELSE IF p \in P /\ turn[p].st = "running" THEN [turn[p] EXCEPT !.kill = TRUE]
                   ELSE turn[p]
    BY DEF Killed
  <2> QED
    BY <2>1, <2>2 DEF Works, Outcomes
<1>2. turn' = [p \in Prompts |-> turn'[p]]
  BY DEF Killed
<1> QED
  BY <1>1, <1>2 DEF TurnsGoOn, Open

LEMMA LivesStays ==
  ASSUME ChatTypes, Lives, TurnsGoOn, UNCHANGED <<sess, current>> PROVE Lives'
BY DEF ChatTypes, Lives, TurnsGoOn

(* Deliveries go their ways, or are cut.                                   *)
Delivers ==
    /\ delivery' \in [Prompts -> Deliveries]
    /\ \A p \in Prompts :
          /\ delivery'[p].pc # "none" => delivery[p].pc # "none"
          /\ delivery'[p].pc \notin {"none", "over"} =>
                /\ delivery[p].pc \notin {"none", "over"} /\ delivery'[p].gen = delivery[p].gen
                /\ delivery[p].cut => delivery'[p].cut
          /\ delivery'[p].pc \in {"send", "next"} => turn[p].st \in Outcomes

LEMMA DeliveriesStay == ASSUME ChatTypes, Dated, UNCHANGED delivery PROVE Delivers
BY DEF ChatTypes, Delivers, Dated

LEMMA DatedStays ==
  ASSUME ChatTypes, Dated, TurnsGoOn, Delivers, UNCHANGED <<sess, left>>,
         \A p \in Prompts : shown[p] # "none" => shown'[p] # "none"
  PROVE  Dated'
<1> SUFFICES ASSUME NEW p \in Prompts
             PROVE  /\ delivery'[p].pc # "none" => shown'[p] # "none" /\ turn'[p].s # 0
                    /\ p \in left => turn'[p].s # 0
                    /\ delivery'[p].pc \notin {"none", "over"} =>
                          delivery'[p].gen <= sess[turn'[p].s].gen
                    /\ delivery'[p].pc \notin {"none", "over"} /\ ~delivery'[p].cut /\ p \in left =>
                          delivery'[p].gen < sess[turn'[p].s].gen
                    /\ delivery'[p].pc \in {"send", "next"} => turn'[p].st \in Outcomes
  BY DEF Dated
<1> QED
  BY DEF ChatTypes, Dated, TurnsGoOn, Delivers, Deliveries

(* A delivery that sends goes on sending.                                  *)
LEMMA NothingStaleStays ==
  ASSUME ChatTypes, Dated, NothingStale, TurnsGoOn, UNCHANGED <<delivery, left, streaming>>,
         \A p \in Prompts : boundary = p => boundary' = p
  PROVE  NothingStale'
<1> SUFFICES ASSUME NEW p \in Prompts, At(p, "send"), Locked(p)'
             PROVE  p \notin left /\ boundary' = p
  BY DEF NothingStale, At
<1>1. turn'[p].st = turn[p].st
  BY DEF At, Dated, TurnsGoOn
<1>2. Locked(p)
  BY <1>1 DEF Locked
<1> QED
  BY <1>2 DEF NothingStale

LEMMA DrainedStays ==
  ASSUME Drained, TurnsGoOn, UNCHANGED <<sess, current, handler>> PROVE Drained'
BY DEF Drained, TurnsGoOn, Leaving

LEMMA AwaitedStays ==
  ASSUME Awaited, TurnsGoOn, UNCHANGED <<sess, handler>> PROVE Awaited'
BY DEF Awaited, TurnsGoOn

LEMMA HandledStays ==
  ASSUME ChatTypes, Handled, TurnsGoOn, UNCHANGED <<sess, left, handler>>,
         \A p \in Prompts : shown[p] = "none" => shown'[p] = "none"
  PROVE  Handled'
BY DEF ChatTypes, Handled, TurnsGoOn

LEMMA GuardedStays ==
  ASSUME Guarded, UNCHANGED handler, \A h \in Handlers : boundary = h => boundary' = h
  PROVE  Guarded'
BY DEF Guarded, Placed

-----------------------------------------------------------------------------
(* The steps of turns, of deliveries and of time *)

(* What a step of a delivery leaves of the invariant.                      *)
LEMMA DeliverySteps ==
  ASSUME ChatInv, UNCHANGED <<sess, current, handler, turn, streaming, left>>,
         ChatTypes', Delivers, NothingStale',
         \A p \in Prompts : shown[p] = "none" <=> shown'[p] = "none",
         \A h \in Handlers : boundary = h => boundary' = h
  PROVE  ChatInv'
<1>1. TurnsGoOn
  BY TurnsStay DEF ChatInv
<1>2. Lives' /\ Drained' /\ Awaited'
  BY <1>1, LivesStays, DrainedStays, AwaitedStays DEF ChatInv
<1>3. Dated'
  BY <1>1, DatedStays DEF ChatInv
<1>4. Handled' /\ Guarded'
  BY <1>1, HandledStays, GuardedStays DEF ChatInv
<1> QED
  BY <1>2, <1>3, <1>4 DEF ChatInv

LEMMA MovesDelivers ==
  ASSUME ChatTypes, Dated, NEW p \in Prompts, NEW pc, Moves(p, pc),
         pc \in {"ask", "wait", "edit", "send", "next", "untype"},
         delivery[p].pc \notin {"none", "over"},
         pc \in {"send", "next"} => turn[p].st \in Outcomes
  PROVE  Delivers
<1>1. delivery[p] \in Deliveries
  BY DEF ChatTypes
<1>2. PICK r : r = [delivery[p] EXCEPT !.pc = pc]
  OBVIOUS
<1>3. r \in Deliveries /\ r.pc = pc /\ r.gen = delivery[p].gen /\ r.cut = delivery[p].cut
  BY <1>1, <1>2 DEF Deliveries
<1>4. delivery' = [delivery EXCEPT ![p] = r]
  BY <1>2 DEF Moves
<1> QED
  BY <1>3, <1>4 DEF Delivers, ChatTypes, Dated

LEMMA OverDelivers ==
  ASSUME ChatTypes, Dated, NEW p \in Prompts, Over(p), delivery[p].pc # "none"
  PROVE  Delivers
<1>1. PICK r : r = [pc |-> "over", gen |-> 0, cut |-> FALSE]
  OBVIOUS
<1>2. r \in Deliveries /\ r.pc = "over"
  BY <1>1 DEF Deliveries
<1>3. delivery' = [delivery EXCEPT ![p] = r]
  BY <1>1 DEF Over
<1> QED
  BY <1>2, <1>3 DEF Delivers, ChatTypes, Dated

(* A delivery that does not send is not stale.                             *)
LEMMA NothingStaleMoves ==
  ASSUME NothingStale, UNCHANGED <<turn, left, streaming>>,
         \A q \in Prompts : At(q, "send")' => At(q, "send") /\ (boundary = q => boundary' = q)
  PROVE  NothingStale'
BY DEF NothingStale, Locked

LEMMA NotSending ==
  ASSUME ChatTypes, NEW p \in Prompts, NEW pc, pc # "send", NEW q \in Prompts, At(q, "send")',
         Moves(p, pc) \/ Over(p)
  PROVE  q # p /\ At(q, "send")
BY DEF ChatTypes, At, Moves, Over, Deliveries

LEMMA TypingAskedKeeps ==
  ASSUME ChatInv, NEW p \in Prompts, TypingAsked(p) \/ TypingStarts(p) \/ StreamEdit(p) \/ EditEnds(p)
  PROVE  ChatInv'
<1>1. PICK pc \in {"ask", "wait", "edit"} : Moves(p, pc) /\ delivery[p].pc \notin {"none", "over"}
  BY DEF TypingAsked, TypingStarts, StreamEdit, EditEnds, At
<1>2. UNCHANGED <<sess, current, boundary, handler, turn, shown, streaming, left>>
  BY DEF TypingAsked, TypingStarts, StreamEdit, EditEnds
<1>3. Delivers
  BY <1>1, MovesDelivers DEF ChatInv
<1>4. ChatTypes'
  BY <1>2, <1>3 DEF ChatInv, ChatTypes, Delivers
<1>5. NothingStale'
  BY <1>1, <1>2, NotSending, NothingStaleMoves DEF ChatInv
<1> QED
  BY <1>2, <1>3, <1>4, <1>5, DeliverySteps DEF ChatInv

LEMMA SendBeginsKeeps ==
  ASSUME ChatInv, NEW p \in Prompts, SendBegins(p) PROVE ChatInv'
<1> USE Numbers
<1>1. delivery[p].pc \in {"wait", "next"} /\ ~delivery[p].cut
  BY DEF SendBegins, At
<1>2. turn[p].st \in Outcomes
  <2>1. CASE At(p, "next")
    BY <2>1 DEF ChatInv, Dated, At
  <2>2. CASE At(p, "wait") /\ ~Open(p)
    BY <2>2 DEF ChatInv, ChatTypes, Dated, Lives, At, Open, Works
  <2> QED
    BY <2>1, <2>2 DEF SendBegins
<1>3. PICK pc \in {"send", "untype"} : /\ Moves(p, pc)
                                       /\ pc = "send" => /\ IsCurrent(p)
                                                         /\ boundary' = IF Locked(p) THEN p ELSE boundary
                                       /\ pc # "send" => boundary' = boundary
  BY DEF SendBegins
<1>4. Locked(p) => boundary = Free
  BY DEF SendBegins
<1>5. UNCHANGED <<sess, current, handler, turn, shown, streaming, left>>
  BY DEF SendBegins
<1>6. Delivers
  BY <1>1, <1>2, <1>3, MovesDelivers DEF ChatInv
<1>7. ChatTypes'
  BY <1>3, <1>5, <1>6 DEF ChatInv, ChatTypes, Delivers
<1>8. \A h \in Handlers : boundary = h => boundary' = h
  BY <1>3, <1>4 DEF Free
<1>9. NothingStale'
  <2> SUFFICES ASSUME NEW q \in Prompts, At(q, "send")', Locked(q)'
               PROVE  q \notin left' /\ boundary' = q
    BY DEF NothingStale
  <2>1. Locked(q)
    BY <1>5 DEF Locked
  <2>2. CASE q = p
    <3>1. pc = "send"
      BY <1>3, <2>2 DEF At, Moves, ChatInv, ChatTypes, Deliveries
    <3>2. p \notin left
      BY <1>1, <1>3, <3>1 DEF ChatInv, Dated, IsCurrent, ChatTypes, Deliveries, Sessions, Lives, Works
    <3> QED
      BY <1>3, <1>5, <2>1, <2>2, <3>1, <3>2
  <2>3. CASE q # p
    <3>1. At(q, "send")
      BY <1>3, <2>3 DEF At, Moves, ChatInv, ChatTypes
    <3>2. q \notin left /\ boundary = q
      BY <2>1, <3>1 DEF ChatInv, NothingStale
    <3> QED
      BY <1>3, <1>4, <1>5, <3>2 DEF Free
  <2> QED
    BY <2>2, <2>3
<1> QED
  BY <1>5, <1>6, <1>7, <1>8, <1>9, DeliverySteps

LEMMA SendEndsKeeps ==
  ASSUME ChatInv, NEW p \in Prompts, SendEnds(p) PROVE ChatInv'
<1> USE Numbers
<1>1. delivery[p].pc = "send" /\ turn[p].st \in Outcomes /\ shown[p] # "none"
  BY DEF SendEnds, At, ChatInv, Dated
<1>2. PICK pc \in {"next", "untype"} : Moves(p, pc)
  BY DEF SendEnds
<1>3. UNCHANGED <<sess, current, handler, turn, streaming, left>>
  BY DEF SendEnds
<1>4. \/ UNCHANGED shown
      \/ \E o \in {"part", "sorry", "whole"} : shown' = [shown EXCEPT ![p] = o]
  BY DEF SendEnds, Final
<1>5. boundary' = IF boundary = p THEN Free ELSE boundary
  BY DEF SendEnds, Release
<1>6. Delivers
  BY <1>1, <1>2, MovesDelivers DEF ChatInv
<1>7. ChatTypes'
  BY <1>3, <1>4, <1>5, <1>6 DEF ChatInv, ChatTypes, Delivers
<1>8. NothingStale'
  BY <1>2, <1>3, <1>5, NotSending, NothingStaleMoves DEF ChatInv
<1>9. \A q \in Prompts : shown[q] = "none" <=> shown'[q] = "none"
  BY <1>1, <1>4 DEF ChatInv, ChatTypes
<1>10. \A h \in Handlers : boundary = h => boundary' = h
  BY <1>5
<1> QED
  BY <1>3, <1>6, <1>7, <1>8, <1>9, <1>10, DeliverySteps

LEMMA OverKeeps ==
  ASSUME ChatInv, NEW p \in Prompts, Untype(p) \/ CutEnds(p) PROVE ChatInv'
<1> USE Numbers
<1>1. Over(p) /\ delivery[p].pc # "none"
  BY DEF Untype, CutEnds, At
<1>2. UNCHANGED <<sess, current, handler, turn, shown, streaming, left>>
  BY DEF Untype, CutEnds
<1>3. boundary' = boundary \/ boundary' = IF boundary = p THEN Free ELSE boundary
  BY DEF Untype, CutEnds, Release
<1>4. Delivers
  BY <1>1, OverDelivers DEF ChatInv
<1>5. ChatTypes'
  BY <1>2, <1>3, <1>4 DEF ChatInv, ChatTypes, Delivers
<1>6. NothingStale'
  <2>1. ChatTypes /\ NothingStale /\ UNCHANGED <<turn, left, streaming>>
    BY <1>2 DEF ChatInv
  <2>2. ASSUME NEW q \in Prompts, At(q, "send")'
        PROVE  q # p /\ At(q, "send")
    BY <2>1, <2>2, <1>1, NotSending
  <2>3. \A q \in Prompts : q # p /\ boundary = q => boundary' = q
    BY <1>3
  <2> QED  BY <2>1, <2>2, <2>3, NothingStaleMoves
<1>7. \A h \in Handlers : boundary = h => boundary' = h
  BY <1>3
<1> QED
  BY <1>2, <1>4, <1>5, <1>6, <1>7, DeliverySteps

LEMMA TurnsKeep ==
  ASSUME ChatInv, NEW p \in Prompts, TurnStarts(p) \/ TurnEnds(p) PROVE ChatInv'
<1>1. UNCHANGED <<sess, current, boundary, handler, delivery, shown, streaming, left>>
  BY DEF TurnStarts, TurnEnds
<1>2. PICK r : r \in Works /\ turn' = [turn EXCEPT ![p] = r] /\ r.s = turn[p].s /\ r.st # "none"
  <2>1. turn[p] \in Works
    BY DEF ChatInv, ChatTypes
  <2>2. CASE TurnStarts(p)
    <3>1. PICK r : r = [turn[p] EXCEPT !.st = "running"]
      OBVIOUS
    <3>2. r \in Works /\ r.s = turn[p].s /\ r.st # "none"
      BY <2>1, <3>1 DEF Works
    <3>3. turn' = [turn EXCEPT ![p] = r]
      BY <2>2, <3>1 DEF TurnStarts
    <3> QED
      BY <3>2, <3>3
  <2>3. CASE TurnEnds(p)
    <3>1. PICK st \in Outcomes : turn' = [turn EXCEPT ![p].st = st, ![p].kill = FALSE]
      BY <2>3 DEF TurnEnds, Outcomes
    <3>2. PICK r : r = [turn[p] EXCEPT !.st = st, !.kill = FALSE]
      OBVIOUS
    <3>3. r \in Works /\ r.s = turn[p].s /\ r.st # "none"
      BY <2>1, <3>2 DEF Works, Outcomes
    <3>4. turn' = [turn EXCEPT ![p] = r]
      BY <2>1, <3>1, <3>2 DEF Works, ChatInv, ChatTypes
    <3> QED
      BY <3>3, <3>4
  <2> QED
    BY <2>2, <2>3
<1>3. Open(p)
  BY DEF TurnStarts, TurnEnds, Open
<1>4. TurnsGoOn
  BY <1>2, <1>3 DEF TurnsGoOn, Open, ChatInv, ChatTypes, Outcomes
<1>5. ChatTypes'
  BY <1>1, <1>4 DEF ChatInv, ChatTypes, TurnsGoOn
<1>6. Delivers
  BY <1>1, DeliveriesStay DEF ChatInv
<1>7. Lives' /\ Drained' /\ Awaited'
  BY <1>1, <1>4, LivesStays, DrainedStays, AwaitedStays DEF ChatInv
<1>8. Dated'
  BY <1>1, <1>4, <1>6, DatedStays DEF ChatInv
<1>9. Handled' /\ Guarded'
  BY <1>1, <1>4, HandledStays, GuardedStays DEF ChatInv
<1>10. NothingStale'
  BY <1>1, <1>4, NothingStaleStays DEF ChatInv
<1> QED
  BY <1>5, <1>7, <1>8, <1>9, <1>10 DEF ChatInv

(* A session grows old. *)
LEMMA ExpiresKeeps ==
  ASSUME ChatInv, NEW s \in SessionIds, Expires(s) PROVE ChatInv'
<1>1. UNCHANGED <<current, boundary, handler, turn, delivery, shown, streaming, left>>
  BY DEF Expires
<1>2. PICK r : r \in Sessions /\ sess' = [sess EXCEPT ![s] = r]
               /\ r.made = sess[s].made /\ r.listed = sess[s].listed /\ r.closed = sess[s].closed
               /\ r.gen = sess[s].gen
  <2>1. PICK r : r = [sess[s] EXCEPT !.stale = TRUE]
    OBVIOUS
  <2>2. sess[s] \in Sessions
    BY DEF ChatInv, ChatTypes
  <2>3. r \in Sessions /\ r.made = sess[s].made /\ r.listed = sess[s].listed
        /\ r.closed = sess[s].closed /\ r.gen = sess[s].gen
    BY <2>1, <2>2 DEF Sessions
  <2>4. sess' = [sess EXCEPT ![s] = r]
    BY <2>1 DEF Expires
  <2> QED
    BY <2>3, <2>4
<1>3. sess' \in [SessionIds -> Sessions]
  BY <1>2 DEF ChatInv, ChatTypes
<1>4. \A t \in SessionIds : /\ sess'[t].made = sess[t].made /\ sess'[t].listed = sess[t].listed
                            /\ sess'[t].closed = sess[t].closed /\ sess'[t].gen = sess[t].gen
  BY <1>2 DEF ChatInv, ChatTypes
<1>5. ChatTypes' /\ NothingStale' /\ Guarded'
  BY <1>1, <1>3 DEF ChatInv, ChatTypes, NothingStale, At, Locked, Guarded, Placed
<1>6. \A p \in Prompts : turn[p].s \in {0} \cup SessionIds
  BY DEF ChatInv, ChatTypes, Works
<1>7. \A h \in Handlers : handler[h].s \in {0} \cup SessionIds
  BY DEF ChatInv, ChatTypes, Doings
<1>8. Lives'
  BY <1>1, <1>4, <1>6 DEF ChatInv, ChatTypes, Lives
<1>9. Handled'
  BY <1>1, <1>4, <1>7 DEF ChatInv, Handled
<1>10. Dated'
  BY <1>1, <1>4, <1>6 DEF ChatInv, Dated
<1>11. Drained' /\ Awaited'
  <2>1. \A p \in Prompts : Open(p) => turn[p].s # 0
    BY DEF ChatInv, Lives, Open
  <2> QED
    BY <1>1, <1>4, <1>6, <2>1 DEF ChatInv, ChatTypes, Drained, Awaited, Leaving, Open
<1> QED
  BY <1>5, <1>8, <1>9, <1>10, <1>11 DEF ChatInv

-----------------------------------------------------------------------------
(* The steps of handlers *)

(* One handler goes on to r.  Its own prompt is its own affair.            *)
Its(h, q) == handler[h].op = "prompt" /\ handler[h].p = q

LEMMA HandledMoves ==
  ASSUME ChatTypes, Handled, NEW h \in Handlers, NEW r, handler' = [handler EXCEPT ![h] = r],
         r.op = "prompt" => /\ Its(h, r.p)
                            /\ r.pc \in {"lock", "prune", "closing", "get"} =>
                                  turn'[r.p].st = "none" /\ shown'[r.p] = "none",
         r.pc = "status" => /\ r.op = "prompt" /\ r.s \in SessionIds
                            /\ turn'[r.p].s = r.s /\ shown'[r.p] = "none" /\ r.p \notin left',
         r.s # 0 => sess'[r.s].made, r.op = "switch" => r.s # 0,
         \A s \in SessionIds : sess[s].made => sess'[s].made,
         \A q \in Prompts : ~Its(h, q) =>
             /\ turn'[q].s = turn[q].s /\ (turn[q].st = "none" => turn'[q].st = "none")
             /\ shown[q] = "none" => shown'[q] = "none",
         \A g \in Handlers : g # h /\ handler[g].pc = "status" => handler[g].p \notin left'
  PROVE  Handled'
<1>1. handler'[h] = r /\ \A g \in Handlers : g # h => handler'[g] = handler[g]
  BY DEF ChatTypes
<1>2. \A g \in Handlers : g # h /\ handler[g].op = "prompt" =>
         handler[g].p \in Prompts /\ ~Its(h, handler[g].p)
  BY DEF Handled, Its
<1>3. \A g \in Handlers : handler[g].s \in {0} \cup SessionIds
  BY DEF ChatTypes, Doings
<1>4. ASSUME NEW g \in Handlers, handler'[g].op = "prompt"
      PROVE  /\ handler'[g].p \in Prompts
             /\ \A f \in Handlers : handler'[f].op = "prompt" /\ handler'[f].p = handler'[g].p => f = g
             /\ handler'[g].pc \in {"lock", "prune", "closing", "get"} =>
                   turn'[handler'[g].p].st = "none" /\ shown'[handler'[g].p] = "none"
  <2>1. handler[g].op = "prompt" /\ handler'[g].p = handler[g].p
    BY <1>1, <1>4 DEF Its
  <2>2. \A f \in Handlers : handler'[f].op = "prompt" =>
            handler[f].op = "prompt" /\ handler'[f].p = handler[f].p
    BY <1>1 DEF Its
  <2>3. handler'[g].p \in Prompts
    BY <2>1 DEF Handled
  <2>4. \A f \in Handlers : handler'[f].op = "prompt" /\ handler'[f].p = handler'[g].p => f = g
    BY <2>1, <2>2 DEF Handled
  <2>5. handler'[g].pc \in {"lock", "prune", "closing", "get"} =>
            turn'[handler'[g].p].st = "none" /\ shown'[handler'[g].p] = "none"
    <3>1. CASE g = h
      BY <1>1, <1>4, <3>1
    <3>2. CASE g # h
      BY <1>1, <1>2, <1>4, <2>1, <3>2 DEF Handled
    <3> QED
      BY <3>1, <3>2
  <2> QED
    BY <2>3, <2>4, <2>5
<1>5. ASSUME NEW g \in Handlers, handler'[g].pc = "status"
      PROVE  /\ handler'[g].op = "prompt" /\ handler'[g].s \in SessionIds
             /\ turn'[handler'[g].p].s = handler'[g].s
             /\ shown'[handler'[g].p] = "none" /\ handler'[g].p \notin left'
  <2>1. CASE g = h
    BY <1>1, <1>5, <2>1
  <2>2. CASE g # h
    BY <1>1, <1>2, <1>5, <2>2 DEF Handled
  <2> QED
    BY <2>1, <2>2
<1>6. ASSUME NEW g \in Handlers, handler'[g].s # 0 PROVE sess'[handler'[g].s].made
  BY <1>1, <1>3, <1>6 DEF Handled
<1>7. ASSUME NEW g \in Handlers, handler'[g].op = "switch" PROVE handler'[g].s # 0
  BY <1>1, <1>7 DEF Handled
<1> QED
  BY <1>4, <1>5, <1>6, <1>7 DEF Handled

LEMMA GuardedMoves ==
  ASSUME ChatTypes, Guarded, NEW h \in Handlers, NEW r, handler' = [handler EXCEPT ![h] = r],
         r.pc \notin {"idle", "lock"} /\ r.op \notin Lockless => boundary' = h,
         Placed(r),
         \A g \in Handlers : g # h /\ boundary = g => boundary' = g
  PROVE  Guarded'
<1>1. handler'[h] = r /\ \A g \in Handlers : g # h => handler'[g] = handler[g]
  BY DEF ChatTypes
<1> QED
  BY <1>1 DEF Guarded, Placed

(* A handler that neither leaves a session nor begins another one.         *)
LEMMA DrainedMoves ==
  ASSUME ChatTypes, Lives, Drained, NEW h \in Handlers, NEW r, handler' = [handler EXCEPT ![h] = r],
         TurnsGoOn, Leaving(h) => \A p \in Prompts \cap handler[h].ends : ~Open(p),
         ~(r.pc = "settle" /\ r.op \in Changing),
         r.pc = "publish" => current' = 0 \/ sess'[current'].closed,
         \A s \in SessionIds : sess[s].closed => sess'[s].closed,
         current' = current \/ (current' = 0 /\ (current # 0 => sess'[current].closed))
  PROVE  Drained'
<1>1. handler'[h] = r /\ \A g \in Handlers : g # h => handler'[g] = handler[g]
  BY DEF ChatTypes
<1>2. ASSUME NEW p \in Prompts, Open(p)'
      PROVE  \/ sess'[turn'[p].s].closed \/ turn'[p].s = current'
             \/ \E g \in Handlers : Leaving(g)' /\ p \in handler'[g].ends
  <2>1. Open(p) /\ turn'[p].s = turn[p].s
    BY <1>2 DEF TurnsGoOn
  <2>2. turn[p].s \in SessionIds
    BY <2>1 DEF Lives, Open, ChatTypes, Works
  <2>3. CASE sess[turn[p].s].closed \/ turn[p].s = current
    BY <2>1, <2>2, <2>3
  <2>4. CASE \E g \in Handlers : Leaving(g) /\ p \in handler[g].ends
    <3>1. PICK g \in Handlers : Leaving(g) /\ p \in handler[g].ends
      BY <2>4
    <3>2. g # h
      BY <2>1, <3>1
    <3>3. Leaving(g)' /\ p \in handler'[g].ends
      BY <1>1, <3>1, <3>2 DEF Leaving
    <3> QED
      BY <3>3
  <2> QED
    BY <2>1, <2>3, <2>4 DEF Drained
<1>3. ASSUME NEW g \in Handlers, Leaving(g)'
      PROVE  /\ current' = 0
             /\ \A p, q \in Prompts \cap handler'[g].ends : turn'[p].s = turn'[q].s
  <2>1. g # h /\ Leaving(g) /\ handler'[g] = handler[g]
    BY <1>1, <1>3 DEF Leaving
  <2>2. current = 0
    BY <2>1 DEF Drained
  <2> QED
    BY <2>1, <2>2 DEF Drained, TurnsGoOn
<1>4. ASSUME NEW g \in Handlers, handler'[g].pc = "publish", current' # 0
      PROVE  sess'[current'].closed
  <2>1. CASE g = h
    BY <1>1, <1>4, <2>1
  <2>2. CASE g # h
    <3>1. current' = current /\ current \in SessionIds
      BY <1>4 DEF ChatTypes
    <3>2. sess[current].closed
      BY <1>1, <1>4, <2>2, <3>1 DEF Drained
    <3> QED
      BY <3>1, <3>2
  <2> QED
    BY <2>1, <2>2
<1> QED
  BY <1>2, <1>3, <1>4 DEF Drained

(* A handler that closes nothing that is open.                             *)
LEMMA AwaitedMoves ==
  ASSUME ChatTypes, Lives, Awaited, NEW h \in Handlers, NEW r, handler' = [handler EXCEPT ![h] = r],
         TurnsGoOn,
         handler[h].pc = "closing" => \A p \in Prompts : turn[p].s \in handler[h].ends => ~Open(p),
         \A s \in SessionIds : sess'[s].closed => sess[s].closed \/ (r.pc = "closing" /\ s \in r.ends)
  PROVE  Awaited'
<1>1. handler'[h] = r /\ \A g \in Handlers : g # h => handler'[g] = handler[g]
  BY DEF ChatTypes
<1> SUFFICES ASSUME NEW p \in Prompts, Open(p)', sess'[turn'[p].s].closed
             PROVE  \E g \in Handlers : handler'[g].pc = "closing" /\ turn'[p].s \in handler'[g].ends
  BY DEF Awaited
<1>2. Open(p) /\ turn'[p].s = turn[p].s
  BY DEF TurnsGoOn
<1>3. turn[p].s \in SessionIds
  BY <1>2 DEF Lives, Open, ChatTypes, Works
<1>4. CASE r.pc = "closing" /\ turn[p].s \in r.ends
  BY <1>1, <1>2, <1>4
<1>5. CASE sess[turn[p].s].closed
  <2>1. PICK g \in Handlers : handler[g].pc = "closing" /\ turn[p].s \in handler[g].ends
    BY <1>2, <1>5 DEF Awaited
  <2>2. g # h
    BY <1>2, <2>1
  <2> QED
    BY <1>1, <1>2, <2>1, <2>2
<1> QED
  BY <1>2, <1>3, <1>4, <1>5

LEMMA GotoIs ==
  ASSUME ChatTypes, NEW h \in Handlers, NEW pc \in Stages, Goto(h, pc)
  PROVE  \E r \in Doings : /\ handler' = [handler EXCEPT ![h] = r]
                         /\ r.pc = pc /\ r.op = handler[h].op /\ r.s = handler[h].s
                         /\ r.p = handler[h].p /\ r.ends = handler[h].ends
<1>1. handler[h] \in Doings
  BY DEF ChatTypes
<1>2. PICK r : r = [handler[h] EXCEPT !.pc = pc]
  OBVIOUS
<1>3. /\ r \in Doings /\ r.pc = pc /\ r.op = handler[h].op /\ r.s = handler[h].s
      /\ r.p = handler[h].p /\ r.ends = handler[h].ends
  BY <1>1, <1>2 DEF Doings
<1>4. handler' = [handler EXCEPT ![h] = r]
  BY <1>2 DEF Goto
<1> QED
  BY <1>3, <1>4

(* A handler waits for the end of what E names.                            *)
Awaits(h, pc, E) == handler' = [handler EXCEPT ![h].pc = pc, ![h].ends = E]

LEMMA AwaitIs ==
  ASSUME ChatTypes, NEW h \in Handlers, NEW pc \in Stages, NEW E \in SUBSET Nat, Awaits(h, pc, E)
  PROVE  \E r \in Doings : /\ handler' = [handler EXCEPT ![h] = r]
                         /\ r.pc = pc /\ r.op = handler[h].op /\ r.s = handler[h].s
                         /\ r.p = handler[h].p /\ r.ends = E
<1>1. handler[h] \in Doings
  BY DEF ChatTypes
<1>2. PICK r : r = [handler[h] EXCEPT !.pc = pc, !.ends = E]
  OBVIOUS
<1>3. /\ r \in Doings /\ r.pc = pc /\ r.op = handler[h].op /\ r.s = handler[h].s
      /\ r.p = handler[h].p /\ r.ends = E
  BY <1>1, <1>2 DEF Doings
<1>4. handler' = [handler EXCEPT ![h] = r]
  BY <1>1, <1>2 DEF Doings, ChatTypes, Awaits
<1> QED
  BY <1>3, <1>4

LEMMA RestingIs ==
  Resting \in Doings /\ Resting.pc = "idle" /\ Resting.op = "none" /\ Resting.s = 0
BY DEF Resting, Doings, Stages, Free

(* A handler goes on, and at most turns are cancelled.                     *)
LEMMA Continues ==
  ASSUME ChatInv, NEW h \in Handlers, NEW r \in Doings, handler' = [handler EXCEPT ![h] = r],
         TurnsGoOn, UNCHANGED <<sess, current, delivery, shown, streaming, left>>,
         \/ boundary' = boundary
         \/ boundary = Free /\ boundary' = h
         \/ boundary = h /\ boundary' = Free,
         r.op = "prompt" => handler[h].op = "prompt" /\ r.p = handler[h].p,
         r.op = "prompt" /\ r.pc \in {"lock", "prune", "closing", "get"} =>
             handler[h].pc \in {"lock", "prune", "closing", "get"},
         r.pc # "status", r.s # 0 => sess[r.s].made, r.op = "switch" => r.s # 0,
         r.pc \notin {"idle", "lock"} /\ r.op \notin Lockless => boundary' = h,
         Placed(r),
         Leaving(h) => \A p \in Prompts \cap handler[h].ends : ~Open(p),
         ~(r.pc = "settle" /\ r.op \in Changing),
         r.pc = "publish" => current = 0 \/ sess[current].closed,
         handler[h].pc = "closing" => \A p \in Prompts : turn[p].s \in handler[h].ends => ~Open(p)
  PROVE  ChatInv'
<1> USE Numbers
<1>1. ChatTypes'
  <2>1. handler' \in [Handlers -> Doings] /\ turn' \in [Prompts -> Works]
    BY DEF ChatInv, ChatTypes, TurnsGoOn
  <2>2. boundary' \in {Free} \cup Handlers \cup Prompts
    BY DEF ChatInv, ChatTypes
  <2> QED
    BY <2>1, <2>2 DEF ChatInv, ChatTypes
<1>2. Lives' /\ Dated'
  BY LivesStays, DatedStays, DeliveriesStay DEF ChatInv
<1>3. NothingStale'
  <2>1. \A p \in Prompts : boundary = p => boundary' = p
    BY DEF Free
  <2> QED
    BY <2>1, NothingStaleStays DEF ChatInv
<1>4. Handled'
  <2>1. r.op = "prompt" => /\ Its(h, r.p)
                           /\ r.pc \in {"lock", "prune", "closing", "get"} =>
                                 turn'[r.p].st = "none" /\ shown'[r.p] = "none"
    BY DEF ChatInv, Handled, TurnsGoOn, Its
  <2>2. \A q \in Prompts : ~Its(h, q) =>
             /\ turn'[q].s = turn[q].s /\ (turn[q].st = "none" => turn'[q].st = "none")
             /\ shown[q] = "none" => shown'[q] = "none"
    BY DEF TurnsGoOn
  <2>3. \A g \in Handlers : g # h /\ handler[g].pc = "status" => handler[g].p \notin left'
    BY DEF ChatInv, Handled
  <2> QED
    BY <2>1, <2>2, <2>3, HandledMoves DEF ChatInv
<1>5. Guarded'
  <2>1. \A g \in Handlers : g # h /\ boundary = g => boundary' = g
    BY DEF Free
  <2> QED
    BY <2>1, GuardedMoves DEF ChatInv
<1>6. Drained'
  <2>1. sess' = sess /\ current' = current
    OBVIOUS
  <2>2. r.pc = "publish" => current' = 0 \/ sess'[current'].closed
    BY <2>1
  <2>3. \A s \in SessionIds : sess[s].closed => sess'[s].closed
    BY <2>1
  <2>4. ChatTypes /\ Lives /\ Drained
    BY DEF ChatInv
  <2> QED
    BY <2>1, <2>2, <2>3, <2>4, DrainedMoves
<1>7. Awaited'
  <2>1. sess' = sess
    OBVIOUS
  <2>2. \A s \in SessionIds : sess'[s].closed => sess[s].closed \/ (r.pc = "closing" /\ s \in r.ends)
    BY <2>1
  <2> QED
    BY <2>2, AwaitedMoves DEF ChatInv
<1> QED
  BY <1>1, <1>2, <1>3, <1>4, <1>5, <1>6, <1>7 DEF ChatInv

LEMMA TakeLockKeeps == ASSUME ChatInv, NEW h \in Handlers, TakeLock(h) PROVE ChatInv'
<1>1. handler[h].pc = "lock" /\ boundary = Free /\ boundary' = h
      /\ UNCHANGED <<sess, current, turn, delivery, shown, streaming, left>>
  BY DEF TakeLock
<1>2. handler[h].op \notin Lockless
  BY <1>1 DEF ChatInv, Guarded, Placed
<1>3. PICK pc \in {"prune", "abandon", "cancel"} :
         Goto(h, pc) /\ (handler[h].op \in Changing <=> pc = "abandon")
  BY DEF TakeLock, Changing
<1>4. PICK r \in Doings : /\ handler' = [handler EXCEPT ![h] = r]
                        /\ r.pc = pc /\ r.op = handler[h].op /\ r.s = handler[h].s
                        /\ r.p = handler[h].p /\ r.ends = handler[h].ends
  BY <1>3, GotoIs DEF ChatInv, Stages, Inside
<1>5. (r.s # 0 => sess[r.s].made) /\ (r.op = "switch" => r.s # 0)
  BY <1>4 DEF ChatInv, Handled
<1>6. TurnsGoOn
  BY <1>1, TurnsStay DEF ChatInv
<1> QED
  BY <1>1, <1>2, <1>3, <1>4, <1>5, <1>6, Continues DEF Leaving, Placed, Lockless

LEMMA ReturnKeeps ==
  ASSUME ChatInv, NEW h \in Handlers, Return(h), UNCHANGED <<sess, current, turn, delivery, shown, streaming, left>>,
         Leaving(h) => \A p \in Prompts \cap handler[h].ends : ~Open(p),
         handler[h].pc = "closing" => \A p \in Prompts : turn[p].s \in handler[h].ends => ~Open(p)
  PROVE  ChatInv'
<1>1. handler' = [handler EXCEPT ![h] = Resting]
      /\ boundary' = IF boundary = h THEN Free ELSE boundary
  BY DEF Return
<1>2. TurnsGoOn
  BY TurnsStay DEF ChatInv
<1>3. PICK r \in Doings : r = Resting /\ r.pc = "idle" /\ r.op = "none" /\ r.s = 0
  BY RestingIs
<1> QED
  BY <1>1, <1>2, <1>3, Continues DEF Lockless, Changing, Placed

LEMMA ClosedKeeps == ASSUME ChatInv, NEW h \in Handlers, Closed(h) PROVE ChatInv'
<1>1. handler[h].pc = "closing" /\ UNCHANGED <<sess, current, turn, delivery, shown, streaming, left>>
  BY DEF Closed
<1>2. \A p \in Prompts : turn[p].s \in handler[h].ends => ~Open(p)
  BY DEF Closed, Quiet, TurnsOf
<1>3. ~Leaving(h)
  BY <1>1 DEF Leaving
<1>4. CASE handler[h].op \in Lockless
  BY <1>1, <1>2, <1>3, <1>4, ReturnKeeps DEF Closed, Lockless
<1>5. CASE handler[h].op \notin Lockless
  <2>1. Goto(h, "get") /\ UNCHANGED boundary
    BY <1>5 DEF Closed, Lockless
  <2>2. PICK r \in Doings : /\ handler' = [handler EXCEPT ![h] = r]
                          /\ r.pc = "get" /\ r.op = handler[h].op /\ r.s = handler[h].s
                          /\ r.p = handler[h].p /\ r.ends = handler[h].ends
    BY <2>1, GotoIs DEF ChatInv, Stages, Inside
  <2>3. (r.s # 0 => sess[r.s].made) /\ (r.op = "switch" => r.s # 0)
    BY <2>2 DEF ChatInv, Handled
  <2>4. boundary = h /\ handler[h].op \notin Changing
    BY <1>1, <1>5 DEF ChatInv, Guarded, Placed
  <2>5. TurnsGoOn
    BY <1>1, TurnsStay DEF ChatInv
  <2> QED
    BY <1>1, <1>2, <1>3, <1>5, <2>1, <2>2, <2>3, <2>4, <2>5, Continues DEF Placed
<1> QED
  BY <1>4, <1>5

LEMMA SettledKeeps == ASSUME ChatInv, NEW h \in Handlers, Settled(h) PROVE ChatInv'
<1>1. handler[h].pc = "settle" /\ UNCHANGED <<sess, current, turn, delivery, shown, streaming, left>>
  BY DEF Settled, Changing
<1>2. \A p \in Prompts \cap handler[h].ends : ~Open(p)
  BY DEF Settled, Changing
<1>3. CASE handler[h].op \notin Changing
  BY <1>1, <1>2, <1>3, ReturnKeeps DEF Settled, Changing
<1>4. CASE handler[h].op \in Changing
  <2>1. Goto(h, "publish") /\ UNCHANGED boundary
    BY <1>4 DEF Settled, Changing
  <2>2. PICK r \in Doings : /\ handler' = [handler EXCEPT ![h] = r]
                          /\ r.pc = "publish" /\ r.op = handler[h].op /\ r.s = handler[h].s
                          /\ r.p = handler[h].p /\ r.ends = handler[h].ends
    BY <2>1, GotoIs DEF ChatInv, Stages, Inside
  <2>3. (r.s # 0 => sess[r.s].made) /\ (r.op = "switch" => r.s # 0)
    BY <2>2 DEF ChatInv, Handled
  <2>4. boundary = h /\ current = 0
    BY <1>1, <1>4 DEF ChatInv, Guarded, Placed, Drained, Leaving, Lockless
  <2>5. TurnsGoOn
    BY <1>1, TurnsStay DEF ChatInv
  <2> QED
    BY <1>1, <1>2, <1>4, <2>1, <2>2, <2>3, <2>4, <2>5, Continues DEF Lockless, Changing, Placed
<1> QED
  BY <1>3, <1>4

LEMMA CancelTurnsKeeps == ASSUME ChatInv, NEW h \in Handlers, CancelTurns(h) PROVE ChatInv'
<1>1. handler[h].pc = "cancel"
      /\ UNCHANGED <<sess, current, boundary, delivery, shown, streaming, left>>
  BY DEF CancelTurns
<1>2. PICK P \in SUBSET Prompts : /\ turn' = Killed(P)
                                  /\ handler' = [handler EXCEPT ![h].pc = "settle", ![h].ends = P]
  BY DEF CancelTurns, TurnsOf
<1>3. P \in SUBSET Nat /\ "settle" \in Stages
  BY Numbers DEF Stages, Inside
<1>4. PICK r \in Doings : /\ handler' = [handler EXCEPT ![h] = r]
                        /\ r.pc = "settle" /\ r.op = handler[h].op /\ r.s = handler[h].s
                        /\ r.p = handler[h].p /\ r.ends = P
  <2>1. ChatTypes /\ Awaits(h, "settle", P)
    BY <1>2 DEF ChatInv, Awaits
  <2> QED
    BY <1>3, <2>1, AwaitIs
<1>5. (r.s # 0 => sess[r.s].made) /\ (r.op = "switch" => r.s # 0)
  BY <1>4 DEF ChatInv, Handled
<1>6. TurnsGoOn
  BY <1>2, KilledTurns DEF ChatInv
<1> QED
  BY <1>1, <1>4, <1>5, <1>6, Continues DEF ChatInv, Guarded, Placed, Leaving, Lockless

(* Who has the lock is alone with the current session.                     *)
LEMMA Alone ==
  ASSUME ChatInv, NEW h \in Handlers, boundary = h
  PROVE  /\ \A g \in Handlers : g # h => handler[g].pc \notin Inside /\ ~Leaving(g)
         /\ \A p \in Prompts : At(p, "send") => ~Locked(p)
<1>1. h # Free /\ h \notin Prompts
  BY Numbers DEF Free
<1> QED
  BY <1>1 DEF ChatInv, Guarded, Placed, Inside, Leaving, NothingStale

(* Open work is of the session that is used, or of a closed one.           *)
LEMMA FoundWork ==
  ASSUME ChatInv, NEW h \in Handlers, boundary = h, handler[h].pc = "get",
         NEW s \in SessionIds, Found(s)
  PROVE  /\ \A p \in Prompts : Open(p) => turn[p].s = s \/ sess[turn[p].s].closed
         /\ ~sess[s].closed
<1> USE Numbers
<1>1. \A g \in Handlers : ~Leaving(g)
  BY Alone DEF Leaving
<1>2. current \in SessionIds /\ current # s => sess[current].closed
  BY DEF ChatInv, Lives, Found, Here
<1>3. ~sess[s].closed
  BY DEF ChatInv, Lives, Found, Here, Unused
<1>4. \A p \in Prompts : Open(p) => turn[p].s \in SessionIds
  BY DEF ChatInv, ChatTypes, Lives, Open, Works
<1> QED
  BY <1>1, <1>2, <1>3, <1>4 DEF ChatInv, Drained

(* Sessions that were made stay as they are; others may be made.           *)
SessionsGoOn ==
    /\ sess' \in [SessionIds -> Sessions]
    /\ \A t \in SessionIds :
          /\ sess'[t].made <=> sess'[t].listed \/ sess'[t].closed
          /\ ~(sess'[t].listed /\ sess'[t].closed)
          /\ sess'[t].closed = sess[t].closed
          /\ sess[t].made => sess'[t].made /\ sess'[t].gen = sess[t].gen

LEMMA SessionMade ==
  ASSUME ChatTypes, Lives, NEW s \in SessionIds, ~sess[s].made, sess' = [sess EXCEPT ![s] = Made]
  PROVE  SessionsGoOn /\ sess'[s].made
<1>1. Made \in Sessions /\ Made.made /\ Made.listed /\ ~Made.closed
  BY DEF Made, Unmade, Sessions
<1>2. sess'[s] = Made /\ \A t \in SessionIds : t # s => sess'[t] = sess[t]
  BY DEF ChatTypes
<1>3. sess' \in [SessionIds -> Sessions]
  BY <1>1 DEF ChatTypes
<1>4. sess[s].closed = FALSE
  BY DEF Lives, ChatTypes, Sessions
<1>5. Made.closed = FALSE
  BY DEF Made, Unmade
<1> QED
  BY <1>1, <1>2, <1>3, <1>4, <1>5 DEF SessionsGoOn, Lives

LEMMA SessionFound ==
  ASSUME ChatTypes, Lives, NEW s \in SessionIds, sess' = WithSession(s)
  PROVE  SessionsGoOn /\ sess'[s].made
<1>1. CASE sess[s].made
  BY <1>1 DEF WithSession, SessionsGoOn, ChatTypes, Lives
<1>2. CASE ~sess[s].made
  BY <1>2, SessionMade DEF WithSession
<1> QED
  BY <1>1, <1>2

LEMMA SessionUsed ==
  ASSUME ChatTypes, Lives, NEW s \in SessionIds, sess' = [WithSession(s) EXCEPT ![s].stale = FALSE]
  PROVE  SessionsGoOn /\ sess'[s].made
<1>1. WithSession(s) \in [SessionIds -> Sessions] /\ WithSession(s)[s].made
  BY DEF ChatTypes, WithSession, Made, Unmade, Sessions
<1>2. PICK w : w = WithSession(s)
  OBVIOUS
<1>3. PICK r : r = [w[s] EXCEPT !.stale = FALSE]
  OBVIOUS
<1>4. /\ r \in Sessions /\ r.made = w[s].made /\ r.listed = w[s].listed /\ r.closed = w[s].closed
      /\ r.gen = w[s].gen
  BY <1>1, <1>2, <1>3 DEF Sessions
<1>5. sess' = [w EXCEPT ![s] = r]
  BY <1>2, <1>3
<1>6. /\ sess' \in [SessionIds -> Sessions]
      /\ \A t \in SessionIds : /\ sess'[t].made = w[t].made /\ sess'[t].listed = w[t].listed
                               /\ sess'[t].closed = w[t].closed /\ sess'[t].gen = w[t].gen
  BY <1>1, <1>2, <1>4, <1>5
<1>7. CASE sess[s].made
  <2>1. w = sess
    BY <1>2, <1>7 DEF WithSession
  <2> QED
    BY <1>6, <1>7, <2>1 DEF SessionsGoOn, Lives
<1>8. CASE ~sess[s].made
  <2>1. w = [sess EXCEPT ![s] = Made]
    BY <1>2, <1>8 DEF WithSession
  <2>2. w[s] = Made /\ \A t \in SessionIds : t # s => w[t] = sess[t]
    BY <2>1 DEF ChatTypes
  <2>3. Made.made = TRUE /\ Made.listed = TRUE /\ Made.closed = FALSE
    BY DEF Made, Unmade
  <2>4. sess[s].closed = FALSE
    BY <1>8 DEF Lives, ChatTypes, Sessions
  <2>5. \A t \in SessionIds : t # s =>
            /\ sess'[t].made = sess[t].made /\ sess'[t].listed = sess[t].listed
            /\ sess'[t].closed = sess[t].closed /\ sess'[t].gen = sess[t].gen
    BY <1>6, <2>2
  <2>6. sess'[s].made = TRUE /\ sess'[s].listed = TRUE /\ sess'[s].closed = FALSE
    BY <1>6, <2>2, <2>3
  <2> QED
    BY <1>6, <1>8, <2>4, <2>5, <2>6 DEF SessionsGoOn, Lives
<1> QED
  BY <1>7, <1>8

(* Turns go on, and the prompt of h may become one of s.                   *)
TurnsComeTo(h, s) ==
    /\ turn' \in [Prompts -> Works]
    /\ \A q \in Prompts :
          \/ /\ turn'[q].s = turn[q].s
             /\ turn'[q].st = "none" <=> turn[q].st = "none"
             /\ turn[q].st \in Outcomes => turn'[q].st = turn[q].st
             /\ Open(q)' => Open(q)
          \/ /\ Its(h, q) /\ turn[q].st = "none" /\ ~sess[s].closed
             /\ turn'[q].s = s /\ turn'[q].st # "none"

(* The current session becomes s, by the one who has the lock.             *)
LEMMA CurrentBecomes ==
  ASSUME ChatInv, NEW h \in Handlers, boundary = h, handler[h].pc \in {"get", "publish"},
         NEW s \in SessionIds, current' = s, SessionsGoOn, sess'[s].made, TurnsComeTo(h, s),
         \A p \in Prompts : Open(p) => turn[p].s = s \/ sess[turn[p].s].closed,
         UNCHANGED <<delivery, streaming, left>>, boundary' \in {boundary, Free},
         shown' \in [Prompts -> {"none", "refused", "status", "part", "sorry", "whole"}],
         \A q \in Prompts : /\ shown[q] # "none" => shown'[q] # "none"
                            /\ ~Its(h, q) /\ shown[q] = "none" => shown'[q] = "none",
         NEW r \in Doings, handler' = [handler EXCEPT ![h] = r],
         r.pc \in {"idle", "settle", "status"}, r.pc # "idle" => boundary' = h,
         r.op = "prompt" => Its(h, r.p),
         r.pc = "status" => /\ r.op = "prompt" /\ r.s = s /\ turn'[r.p].s = s
                            /\ shown'[r.p] = "none" /\ r.p \notin left',
         r.s # 0 => sess'[r.s].made, r.op \notin Lockless \cup Changing
  PROVE  ChatInv'
<1> USE Numbers
<1>1. ChatTypes'
  <2>1. handler' \in [Handlers -> Doings] /\ turn' \in [Prompts -> Works] /\ sess' \in [SessionIds -> Sessions]
    BY DEF ChatInv, ChatTypes, TurnsComeTo, SessionsGoOn
  <2> QED
    BY <2>1 DEF ChatInv, ChatTypes
<1>2. \A q \in Prompts : /\ turn[q].s \in {0} \cup SessionIds
                         /\ turn[q].s # 0 => sess[turn[q].s].made
                         /\ turn[q].st = "none" <=> turn[q].s = 0
  BY DEF ChatInv, ChatTypes, Works, Lives
<1>3. \A q \in Prompts : turn'[q].s = turn[q].s \/ (turn'[q].s = s /\ turn[q].s = 0)
  BY <1>2 DEF TurnsComeTo
<1>4. Lives'
  <2>1. ASSUME NEW q \in Prompts
        PROVE  /\ turn'[q].st = "none" <=> turn'[q].s = 0
               /\ turn'[q].s # 0 => sess'[turn'[q].s].made
    BY <1>2 DEF TurnsComeTo, SessionsGoOn
  <2> QED
    BY <2>1 DEF Lives, SessionsGoOn
<1>5. Dated'
  <2> SUFFICES ASSUME NEW p \in Prompts
               PROVE  /\ delivery[p].pc # "none" => shown'[p] # "none" /\ turn'[p].s # 0
                      /\ p \in left => turn'[p].s # 0
                      /\ delivery[p].pc \notin {"none", "over"} => delivery[p].gen <= sess'[turn'[p].s].gen
                      /\ delivery[p].pc \notin {"none", "over"} /\ ~delivery[p].cut /\ p \in left =>
                            delivery[p].gen < sess'[turn'[p].s].gen
                      /\ delivery[p].pc \in {"send", "next"} => turn'[p].st \in Outcomes
    BY DEF Dated
  <2>1. CASE turn[p].s = 0
    BY <1>3, <2>1 DEF ChatInv, Dated
  <2>2. CASE turn[p].s # 0
    <3>1. turn'[p].s = turn[p].s /\ sess'[turn[p].s].gen = sess[turn[p].s].gen
      BY <1>2, <1>3, <2>2 DEF SessionsGoOn
    <3>2. turn[p].st \in Outcomes => turn'[p].st = turn[p].st
      BY DEF TurnsComeTo, Outcomes
    <3> QED
      BY <2>2, <3>1, <3>2 DEF ChatInv, Dated
  <2> QED
    BY <2>1, <2>2
<1>6. NothingStale'
  <2> SUFFICES ASSUME NEW p \in Prompts, At(p, "send"), Locked(p)' PROVE FALSE
    BY DEF NothingStale, At
  <2>1. turn[p].st \in Outcomes
    BY DEF At, ChatInv, Dated
  <2>2. turn'[p].st = turn[p].st
    BY <2>1 DEF TurnsComeTo, Outcomes
  <2>3. Locked(p)
    BY <2>2 DEF Locked
  <2> QED
    BY <2>3, Alone
<1>7. Guarded'
  <2>1. \A g \in Handlers : g # h /\ boundary = g => boundary' = g
    OBVIOUS
  <2>2. r.pc \notin {"idle", "lock"} /\ r.op \notin Lockless => boundary' = h
    OBVIOUS
  <2>3. Placed(r)
    BY DEF Placed
  <2> QED
    BY <2>1, <2>2, <2>3, GuardedMoves DEF ChatInv
<1>8. Handled'
  <2>1. r.op = "prompt" => /\ Its(h, r.p)
                           /\ r.pc \in {"lock", "prune", "closing", "get"} =>
                                 turn'[r.p].st = "none" /\ shown'[r.p] = "none"
    OBVIOUS
  <2>2. \A q \in Prompts : ~Its(h, q) =>
             /\ turn'[q].s = turn[q].s /\ (turn[q].st = "none" => turn'[q].st = "none")
             /\ shown[q] = "none" => shown'[q] = "none"
    BY DEF TurnsComeTo
  <2>3. \A g \in Handlers : g # h /\ handler[g].pc = "status" => handler[g].p \notin left'
    BY Alone DEF Inside
  <2>4. \A t \in SessionIds : sess[t].made => sess'[t].made
    BY DEF SessionsGoOn
  <2>5. r.op = "switch" => r.s # 0
    BY DEF Changing
  <2> QED
    BY <2>1, <2>2, <2>3, <2>4, <2>5, HandledMoves DEF ChatInv
<1>9. \A p \in Prompts : Open(p)' => \/ Open(p) /\ turn'[p].s = turn[p].s
                                     \/ turn'[p].s = s /\ ~sess[s].closed
  BY DEF TurnsComeTo
<1>10. handler'[h] = r /\ \A g \in Handlers : g # h => handler'[g] = handler[g]
  BY DEF ChatInv, ChatTypes
<1>11. Drained'
  <2>1. \A g \in Handlers : ~Leaving(g)' /\ handler'[g].pc # "publish"
    BY <1>10, Alone DEF Leaving, Inside
  <2>2. \A p \in Prompts : Open(p)' => sess'[turn'[p].s].closed \/ turn'[p].s = current'
    BY <1>2, <1>9 DEF SessionsGoOn, Open
  <2> QED
    BY <2>1, <2>2 DEF Drained
<1>12. Awaited'
  <2> SUFFICES ASSUME NEW p \in Prompts, Open(p)', sess'[turn'[p].s].closed
               PROVE  \E g \in Handlers : handler'[g].pc = "closing" /\ turn'[p].s \in handler'[g].ends
    BY DEF Awaited
  <2>1. Open(p) /\ turn'[p].s = turn[p].s /\ sess[turn[p].s].closed
    BY <1>2, <1>9 DEF SessionsGoOn, Open
  <2>2. PICK g \in Handlers : handler[g].pc = "closing" /\ turn[p].s \in handler[g].ends
    BY <2>1 DEF ChatInv, Awaited
  <2> QED
    BY <1>10, <2>1, <2>2
<1> QED
  BY <1>1, <1>4, <1>5, <1>6, <1>7, <1>8, <1>11, <1>12 DEF ChatInv

LEMMA EnqueueKeeps == ASSUME ChatInv, NEW h \in Handlers, Enqueue(h) PROVE ChatInv'
<1> USE Numbers
<1>1. handler[h].pc = "get" /\ handler[h].op = "prompt" /\ UNCHANGED <<delivery, streaming, left>>
  BY DEF Enqueue
<1>2. boundary = h
  BY <1>1 DEF ChatInv, Guarded, Placed, Lockless
<1>3. PICK p \in Prompts : /\ p = handler[h].p
                           /\ turn[p].st = "none" /\ shown[p] = "none" /\ p \notin left /\ Its(h, p)
  BY <1>1 DEF ChatInv, Handled, Dated, Lives, Its
<1>4. PICK s \in SessionIds :
         /\ Found(s) /\ sess' = [WithSession(s) EXCEPT ![s].stale = FALSE] /\ current' = s
         /\ \/ /\ shown' = [shown EXCEPT ![p] = "refused"] /\ Return(h) /\ UNCHANGED turn
            \/ /\ turn' = [turn EXCEPT ![p] = [s |-> s, st |-> "queued", kill |-> FALSE]]
               /\ handler' = [handler EXCEPT ![h].pc = "status", ![h].s = s]
               /\ UNCHANGED <<shown, boundary>>
  BY <1>3 DEF Enqueue
<1>5. /\ \A q \in Prompts : Open(q) => turn[q].s = s \/ sess[turn[q].s].closed
      /\ ~sess[s].closed
  BY <1>1, <1>2, <1>4, FoundWork
<1>6. SessionsGoOn /\ sess'[s].made
  BY <1>4, SessionUsed DEF ChatInv
<1>7. CASE shown' = [shown EXCEPT ![p] = "refused"] /\ Return(h) /\ UNCHANGED turn
  <2>1. TurnsComeTo(h, s)
    BY <1>7 DEF TurnsComeTo, ChatInv, ChatTypes, Open
  <2>2. shown' \in [Prompts -> {"none", "refused", "status", "part", "sorry", "whole"}]
    BY <1>7 DEF ChatInv, ChatTypes
  <2>3. \A q \in Prompts : /\ shown[q] # "none" => shown'[q] # "none"
                           /\ ~Its(h, q) /\ shown[q] = "none" => shown'[q] = "none"
    BY <1>3, <1>7 DEF ChatInv, ChatTypes
  <2>4. PICK r \in Doings : r = Resting /\ r.pc = "idle" /\ r.op = "none" /\ r.s = 0
    BY RestingIs
  <2>5. handler' = [handler EXCEPT ![h] = r] /\ boundary' \in {boundary, Free}
    BY <1>7, <2>4 DEF Return
  <2>6. r.op \notin Lockless \cup Changing
    BY <2>4 DEF Lockless, Changing
  <2> QED
    BY <1>1, <1>2, <1>4, <1>5, <1>6, <2>1, <2>2, <2>3, <2>4, <2>5, <2>6, CurrentBecomes
<1>8. CASE /\ turn' = [turn EXCEPT ![p] = [s |-> s, st |-> "queued", kill |-> FALSE]]
           /\ handler' = [handler EXCEPT ![h].pc = "status", ![h].s = s]
           /\ UNCHANGED <<shown, boundary>>
  <2>1. PICK w : w = [s |-> s, st |-> "queued", kill |-> FALSE]
    OBVIOUS
  <2>2. w \in Works /\ w.s = s /\ w.st = "queued"
    BY <2>1 DEF Works
  <2>3. turn' = [turn EXCEPT ![p] = w]
    BY <1>8, <2>1
  <2>4. turn'[p] = w /\ \A q \in Prompts : q # p => turn'[q] = turn[q]
    BY <2>3 DEF ChatInv, ChatTypes
  <2>5. turn' \in [Prompts -> Works]
    BY <2>2, <2>3 DEF ChatInv, ChatTypes
  <2>6. TurnsComeTo(h, s)
    BY <1>3, <1>5, <2>2, <2>4, <2>5 DEF TurnsComeTo, Open
  <2>7. handler[h] \in Doings
    BY DEF ChatInv, ChatTypes
  <2>8. PICK r : r = [handler[h] EXCEPT !.pc = "status", !.s = s]
    OBVIOUS
  <2>9. r \in Doings /\ r.pc = "status" /\ r.op = "prompt" /\ r.s = s /\ r.p = p
    BY <1>1, <1>3, <2>7, <2>8 DEF Doings, Stages, Inside
  <2>10. handler' = [handler EXCEPT ![h] = r]
    BY <1>8, <2>7, <2>8 DEF Doings, ChatInv, ChatTypes
  <2>11. r.op \notin Lockless \cup Changing
    BY <2>9 DEF Lockless, Changing
  <2>12. shown' \in [Prompts -> {"none", "refused", "status", "part", "sorry", "whole"}]
    BY <1>8 DEF ChatInv, ChatTypes
  <2>13. /\ r.op = "prompt" => Its(h, r.p)
         /\ r.pc = "status" => /\ r.op = "prompt" /\ r.s = s /\ turn'[r.p].s = s
                               /\ shown'[r.p] = "none" /\ r.p \notin left'
         /\ r.s # 0 => sess'[r.s].made
    BY <1>1, <1>3, <1>6, <1>8, <2>2, <2>4, <2>9
  <2>14. boundary' = h /\ boundary' \in {boundary, Free} /\ shown' = shown
    BY <1>2, <1>8
  <2> QED
    BY <1>1, <1>2, <1>4, <1>5, <1>6, <2>6, <2>9, <2>10, <2>11, <2>12, <2>13, <2>14, CurrentBecomes
<1> QED
  BY <1>4, <1>7, <1>8

LEMMA ResetKeeps == ASSUME ChatInv, NEW h \in Handlers, Reset(h) PROVE ChatInv'
<1> USE Numbers
<1>1. handler[h].pc = "get" /\ handler[h].op = "reset" /\ UNCHANGED <<boundary, delivery, shown, streaming, left>>
  BY DEF Reset
<1>2. boundary = h
  BY <1>1 DEF ChatInv, Guarded, Placed, Lockless
<1>3. PICK s \in SessionIds :
         /\ Found(s) /\ sess' = WithSession(s) /\ current' = s /\ turn' = Killed(TurnsOf({s}))
         /\ Awaits(h, "settle", TurnsOf({s}))
  BY DEF Reset, Awaits
<1>4. /\ \A q \in Prompts : Open(q) => turn[q].s = s \/ sess[turn[q].s].closed
      /\ ~sess[s].closed
  BY <1>1, <1>2, <1>3, FoundWork
<1>5. SessionsGoOn /\ sess'[s].made
  BY <1>3, SessionFound DEF ChatInv
<1>6. TurnsComeTo(h, s)
  BY <1>3, KilledTurns DEF ChatInv, TurnsGoOn, TurnsComeTo
<1>7. PICK E \in SUBSET Nat : E = TurnsOf({s})
  BY DEF TurnsOf
<1>8. PICK r \in Doings : /\ handler' = [handler EXCEPT ![h] = r]
                        /\ r.pc = "settle" /\ r.op = handler[h].op /\ r.s = handler[h].s
                        /\ r.p = handler[h].p /\ r.ends = E
  <2>1. ChatTypes /\ Awaits(h, "settle", E)
    BY <1>3, <1>7 DEF ChatInv
  <2>2. "settle" \in Stages
    BY DEF Stages, Inside
  <2> QED
    BY <2>1, <2>2, AwaitIs
<1>9. r.s # 0 => sess'[r.s].made
  <2>1. r.s \in {0} \cup SessionIds /\ (r.s # 0 => sess[r.s].made)
    BY <1>8 DEF ChatInv, Handled, Doings
  <2> QED
    BY <1>5, <2>1 DEF SessionsGoOn
<1>10. r.op \notin Lockless \cup Changing
  BY <1>1, <1>8 DEF Lockless, Changing
<1>11. shown' \in [Prompts -> {"none", "refused", "status", "part", "sorry", "whole"}]
  BY <1>1 DEF ChatInv, ChatTypes
<1>12. shown' = shown /\ boundary' = h /\ boundary' \in {boundary, Free}
  BY <1>1, <1>2
<1> QED
  BY <1>1, <1>2, <1>3, <1>4, <1>5, <1>6, <1>8, <1>9, <1>10, <1>11, <1>12, CurrentBecomes

LEMMA PublishKeeps == ASSUME ChatInv, NEW h \in Handlers, Publish(h) PROVE ChatInv'
<1> USE Numbers
<1>1. handler[h].pc = "publish" /\ Return(h) /\ UNCHANGED <<turn, delivery, shown, streaming, left>>
  BY DEF Publish
<1>2. boundary = h
  BY <1>1 DEF ChatInv, Guarded, Placed, Lockless
<1>3. PICK s \in SessionIds :
         /\ current' = s
         /\ \/ UNCHANGED sess /\ s = handler[h].s
            \/ ~sess[s].made /\ sess' = [sess EXCEPT ![s] = Made]
  <2>1. CASE handler[h].op = "switch"
    <3>1. current' = handler[h].s /\ UNCHANGED sess
      BY <2>1 DEF Publish
    <3>2. handler[h].s \in SessionIds
      BY <1>1, <2>1 DEF ChatInv, ChatTypes, Doings, Handled
    <3> QED
      BY <3>1, <3>2
  <2>2. CASE handler[h].op # "switch"
    BY <2>2 DEF Publish, Unused
  <2> QED
    BY <2>1, <2>2
<1>4. \A q \in Prompts : Open(q) => turn[q].s = s \/ sess[turn[q].s].closed
  <2>1. \A g \in Handlers : ~Leaving(g)
    BY <1>1, <1>2, Alone DEF Leaving
  <2>2. current # 0 => sess[current].closed
    BY <1>1 DEF ChatInv, Drained
  <2>3. \A q \in Prompts : Open(q) => turn[q].s # 0
    BY DEF ChatInv, Lives, Open
  <2> QED
    BY <2>1, <2>2, <2>3 DEF ChatInv, Drained
<1>5. SessionsGoOn /\ sess'[s].made
  <2>1. CASE UNCHANGED sess /\ s = handler[h].s
    BY <2>1 DEF SessionsGoOn, ChatInv, ChatTypes, Lives, Handled
  <2> QED
    BY <1>3, <2>1, SessionMade DEF ChatInv
<1>6. TurnsComeTo(h, s)
  BY <1>1, TurnsStay DEF ChatInv, TurnsGoOn, TurnsComeTo
<1>7. PICK r \in Doings : r = Resting /\ r.pc = "idle" /\ r.op = "none" /\ r.s = 0
  BY RestingIs
<1>8. handler' = [handler EXCEPT ![h] = r] /\ boundary' \in {boundary, Free}
  BY <1>1, <1>7 DEF Return
<1>9. r.op \notin Lockless \cup Changing
  BY <1>7 DEF Lockless, Changing
<1>10. shown' \in [Prompts -> {"none", "refused", "status", "part", "sorry", "whole"}] /\ shown' = shown
  BY <1>1 DEF ChatInv, ChatTypes
<1> QED
  BY <1>1, <1>2, <1>3, <1>4, <1>5, <1>6, <1>7, <1>8, <1>9, <1>10, CurrentBecomes

LEMMA SendStatusKeeps == ASSUME ChatInv, NEW h \in Handlers, SendStatus(h) PROVE ChatInv'
<1> USE Numbers
<1>1. handler[h].pc = "status" /\ UNCHANGED <<sess, current, streaming, left>>
  BY DEF SendStatus
<1>2. PICK p \in Prompts : /\ p = handler[h].p /\ Its(h, p)
                           /\ turn[p].s = handler[h].s /\ handler[h].s \in SessionIds
                           /\ shown[p] = "none" /\ p \notin left /\ handler[h].op = "prompt"
  BY <1>1 DEF ChatInv, Handled, Its
<1>3. boundary = h
  BY <1>1, <1>2 DEF ChatInv, Guarded, Lockless
<1>4. CASE /\ shown' = [shown EXCEPT ![p] = "status"]
           /\ delivery' = [delivery EXCEPT ![p] = [pc |-> "type", gen |-> sess[handler[h].s].gen, cut |-> FALSE]]
           /\ Return(h) /\ UNCHANGED turn
  <2>1. PICK d : d = [pc |-> "type", gen |-> sess[turn[p].s].gen, cut |-> FALSE]
    OBVIOUS
  <2>2. d \in Deliveries /\ d.pc = "type" /\ d.gen = sess[turn[p].s].gen
    BY <1>2, <2>1 DEF Deliveries, ChatInv, ChatTypes, Sessions
  <2>3. delivery' = [delivery EXCEPT ![p] = d]
    BY <1>2, <1>4, <2>1
  <2>4. delivery'[p] = d /\ \A q \in Prompts : q # p => delivery'[q] = delivery[q]
    BY <2>3 DEF ChatInv, ChatTypes
  <2>5. shown'[p] = "status" /\ \A q \in Prompts : q # p => shown'[q] = shown[q]
    BY <1>4 DEF ChatInv, ChatTypes
  <2>6. PICK r \in Doings : r = Resting /\ r.pc = "idle" /\ r.op = "none" /\ r.s = 0
    BY RestingIs
  <2>7. handler' = [handler EXCEPT ![h] = r] /\ boundary' = Free
    BY <1>3, <1>4, <2>6 DEF Return
  <2>8. TurnsGoOn
    BY <1>4, TurnsStay DEF ChatInv
  <2>9. ChatTypes'
    <3>1. handler' \in [Handlers -> Doings] /\ delivery' \in [Prompts -> Deliveries]
          /\ shown' \in [Prompts -> {"none", "refused", "status", "part", "sorry", "whole"}]
      BY <1>4, <2>2, <2>3, <2>7 DEF ChatInv, ChatTypes
    <3> QED
      BY <1>1, <1>4, <2>7, <3>1 DEF ChatInv, ChatTypes
  <2>10. Lives'
    BY <1>1, <2>8, LivesStays DEF ChatInv
  <2>11. Dated'
    <3>1. sess[turn[p].s].gen \in Nat /\ turn[p].s # 0
      BY <1>2 DEF ChatInv, ChatTypes, Sessions
    <3> SUFFICES ASSUME NEW q \in Prompts
                 PROVE  /\ delivery'[q].pc # "none" => shown'[q] # "none" /\ turn'[q].s # 0
                        /\ q \in left' => turn'[q].s # 0
                        /\ delivery'[q].pc \notin {"none", "over"} => delivery'[q].gen <= sess'[turn'[q].s].gen
                        /\ delivery'[q].pc \notin {"none", "over"} /\ ~delivery'[q].cut /\ q \in left' =>
                              delivery'[q].gen < sess'[turn'[q].s].gen
                        /\ delivery'[q].pc \in {"send", "next"} => turn'[q].st \in Outcomes
      BY DEF Dated
    <3>2. CASE q = p
      BY <1>1, <1>2, <1>4, <2>2, <2>4, <2>5, <3>1, <3>2
    <3>3. CASE q # p
      BY <1>1, <1>4, <2>4, <2>5, <3>3 DEF ChatInv, Dated
    <3> QED
      BY <3>2, <3>3
  <2>12. NothingStale'
    <3> SUFFICES ASSUME NEW q \in Prompts, At(q, "send")', Locked(q)' PROVE FALSE
      BY DEF NothingStale
    <3>1. At(q, "send") /\ Locked(q)
      BY <1>1, <1>4, <2>2, <2>4 DEF At, Locked
    <3> QED
      BY <1>3, <3>1, Alone
  <2>13. Guarded'
    <3>1. \A g \in Handlers : g # h /\ boundary = g => boundary' = g
      BY <1>3
    <3>2. Placed(r) /\ (r.pc \notin {"idle", "lock"} /\ r.op \notin Lockless => boundary' = h)
      BY <2>6 DEF Placed, Lockless, Changing
    <3> QED
      BY <2>7, <3>1, <3>2, GuardedMoves DEF ChatInv
  <2>14. Handled'
    <3>1. \A q \in Prompts : ~Its(h, q) =>
             /\ turn'[q].s = turn[q].s /\ (turn[q].st = "none" => turn'[q].st = "none")
             /\ shown[q] = "none" => shown'[q] = "none"
      BY <1>2, <1>4, <2>5
    <3>2. \A g \in Handlers : g # h /\ handler[g].pc = "status" => handler[g].p \notin left'
      BY <1>3, Alone DEF Inside
    <3>3. \A t \in SessionIds : sess[t].made => sess'[t].made
      BY <1>1
    <3> QED
      BY <2>6, <2>7, <3>1, <3>2, <3>3, HandledMoves DEF ChatInv
  <2>15. Drained' /\ Awaited'
    <3>1. ~Leaving(h) /\ handler[h].pc # "closing"
      BY <1>1 DEF Leaving
    <3>2. sess' = sess /\ current' = current
      BY <1>1
    <3> QED
      BY <2>6, <2>7, <2>8, <3>1, <3>2, DrainedMoves, AwaitedMoves DEF ChatInv
  <2> QED
    BY <2>9, <2>10, <2>11, <2>12, <2>13, <2>14, <2>15 DEF ChatInv
<1>5. CASE /\ turn' = Killed({p})
           /\ handler' = [handler EXCEPT ![h].pc = "settle", ![h].ends = {p}]
           /\ UNCHANGED <<shown, delivery, boundary>>
  <2>1. PICK E \in SUBSET Nat : E = {p}
    OBVIOUS
  <2>2. ChatTypes /\ Awaits(h, "settle", E) /\ "settle" \in Stages
    BY <1>5, <2>1 DEF ChatInv, Awaits, Stages, Inside
  <2>3. PICK r \in Doings : /\ handler' = [handler EXCEPT ![h] = r]
                          /\ r.pc = "settle" /\ r.op = handler[h].op /\ r.s = handler[h].s
                          /\ r.p = handler[h].p /\ r.ends = E
    BY <2>2, AwaitIs
  <2>4. (r.s # 0 => sess[r.s].made) /\ (r.op = "switch" => r.s # 0)
    BY <2>3 DEF ChatInv, Handled
  <2>5. TurnsGoOn
    BY <1>5, KilledTurns DEF ChatInv
  <2>6. Placed(r) /\ ~Leaving(h) /\ r.op \notin Changing
    BY <1>1, <1>2, <2>3 DEF Placed, Leaving, Lockless, Changing
  <2> QED
    BY <1>1, <1>2, <1>3, <1>5, <2>3, <2>4, <2>5, <2>6, Continues
<1> QED
  BY <1>2, <1>4, <1>5 DEF SendStatus

(* Sessions that are closed, by whoever.                                   *)
LEMMA ClosesKeeps ==
  ASSUME ChatInv, NEW h \in Handlers, handler[h].pc \in {"prune", "close_all"},
         NEW S \in SUBSET SessionIds, \A s \in S : sess[s].listed, Closes(h, S),
         UNCHANGED <<boundary, shown, streaming>>
  PROVE  ChatInv'
<1> USE Numbers
<1>1. \A s \in SessionIds : /\ sess'[s] \in Sessions /\ sess'[s].made = sess[s].made
                            /\ s \in S => /\ ~sess'[s].listed /\ sess'[s].closed
                                          /\ sess'[s].gen = sess[s].gen + 1
                            /\ s \notin S => sess'[s] = sess[s]
  <2> TAKE s \in SessionIds
  <2>1. sess[s] \in Sessions
    BY DEF ChatInv, ChatTypes
  <2>2. CASE s \notin S
    BY <2>1, <2>2 DEF Closes
  <2>3. CASE s \in S
    <3>1. PICK n \in Nat : n = sess[s].gen + 1
      BY <2>1 DEF Sessions
    <3>2. PICK r : r = [sess[s] EXCEPT !.listed = FALSE, !.closed = TRUE, !.gen = n]
      OBVIOUS
    <3>3. r \in Sessions /\ r.made = sess[s].made /\ ~r.listed /\ r.closed /\ r.gen = n
      BY <2>1, <3>2 DEF Sessions
    <3>4. sess'[s] = [sess[s] EXCEPT !.listed = FALSE, !.closed = TRUE, !.gen = @ + 1]
      BY <2>3 DEF Closes
    <3>5. sess'[s] = r
      BY <2>1, <3>1, <3>2, <3>4 DEF Sessions
    <3> QED
      BY <2>3, <3>1, <3>3, <3>5
  <2> QED
    BY <2>2, <2>3
<1>2. sess' \in [SessionIds -> Sessions]
  <2>1. sess' = [s \in SessionIds |-> sess'[s]]
    BY DEF Closes
  <2> QED
    BY <1>1, <2>1
<1>3. TurnsGoOn
  BY KilledTurns DEF ChatInv, Closes
<1>4. \A p \in Prompts :
         /\ delivery'[p] \in Deliveries /\ delivery'[p].pc = delivery[p].pc
         /\ delivery'[p].gen = delivery[p].gen /\ (delivery[p].cut => delivery'[p].cut)
         /\ turn[p].s \in S /\ delivery[p].pc \notin {"none", "over"} => delivery'[p].cut
  <2> TAKE p \in Prompts
  <2>1. delivery[p] \in Deliveries
    BY DEF ChatInv, ChatTypes
  <2>2. delivery'[p] = IF p \in TurnsOf(S) /\ delivery[p].pc \notin {"none", "over"}
                       THEN [delivery[p] EXCEPT !.cut = TRUE] ELSE delivery[p]
    BY DEF Closes, Cut
  <2>3. CASE p \in TurnsOf(S) /\ delivery[p].pc \notin {"none", "over"}
    <3>1. PICK d : d = [delivery[p] EXCEPT !.cut = TRUE]
      OBVIOUS
    <3>2. d \in Deliveries /\ d.pc = delivery[p].pc /\ d.gen = delivery[p].gen /\ d.cut
      BY <2>1, <3>1 DEF Deliveries
    <3> QED
      BY <2>2, <2>3, <3>1, <3>2
  <2>4. CASE ~(p \in TurnsOf(S) /\ delivery[p].pc \notin {"none", "over"})
    BY <2>1, <2>2, <2>4 DEF TurnsOf
  <2> QED
    BY <2>3, <2>4
<1>5. delivery' \in [Prompts -> Deliveries]
  <2>1. delivery' = [p \in Prompts |-> delivery'[p]]
    BY DEF Closes, Cut
  <2> QED
    BY <1>4, <2>1
<1>6. PICK E \in SUBSET Nat : E = S
  OBVIOUS
<1>7. PICK r \in Doings : /\ handler' = [handler EXCEPT ![h] = r]
                        /\ r.pc = "closing" /\ r.op = handler[h].op /\ r.s = handler[h].s
                        /\ r.p = handler[h].p /\ r.ends = E
  <2>1. ChatTypes /\ Awaits(h, "closing", E) /\ "closing" \in Stages
    BY <1>6 DEF ChatInv, Closes, Awaits, Stages
  <2> QED
    BY <2>1, AwaitIs
<1>8. current' = (IF current \in S THEN 0 ELSE current)
      /\ left' = left \cup {p \in TurnsOf(S) : shown[p] # "none"}
  BY DEF Closes
<1>9. ChatTypes'
  <2>1. handler' \in [Handlers -> Doings] /\ turn' \in [Prompts -> Works]
    BY <1>3, <1>7 DEF ChatInv, ChatTypes, TurnsGoOn
  <2>2. left' \subseteq Prompts /\ current' \in {0} \cup SessionIds
    BY <1>8 DEF ChatInv, ChatTypes, TurnsOf
  <2> QED
    BY <1>2, <1>5, <2>1, <2>2 DEF ChatInv, ChatTypes
<1>10. \A p \in Prompts : turn'[p].s = turn[p].s /\ turn[p].s \in {0} \cup SessionIds
  BY <1>3 DEF TurnsGoOn, ChatInv, ChatTypes, Works
<1>11. Lives'
  <2>1. \A s \in SessionIds : /\ sess'[s].made <=> sess'[s].listed \/ sess'[s].closed
                              /\ ~(sess'[s].listed /\ sess'[s].closed)
    BY <1>1 DEF ChatInv, Lives
  <2>2. current' # 0 => sess'[current'].made
    BY <1>1, <1>8 DEF ChatInv, ChatTypes, Lives
  <2>3. \A p \in Prompts : /\ turn'[p].st = "none" <=> turn'[p].s = 0
                           /\ turn'[p].s # 0 => sess'[turn'[p].s].made
    BY <1>1, <1>3, <1>10 DEF ChatInv, Lives, TurnsGoOn
  <2> QED
    BY <2>1, <2>2, <2>3 DEF Lives
<1>12. Placed(handler[h])
  BY DEF ChatInv, Guarded
<1>13. Guarded'
  <2>1. Placed(r)
    BY <1>7, <1>12 DEF Placed
  <2>2. r.pc \notin {"idle", "lock"} /\ r.op \notin Lockless => boundary' = h
    BY <1>7, <1>12 DEF ChatInv, Guarded
  <2> QED
    BY <1>7, <2>1, <2>2, GuardedMoves DEF ChatInv
<1>14. Handled'
  <2>1. r.op = "prompt" => /\ Its(h, r.p)
                           /\ r.pc \in {"lock", "prune", "closing", "get"} =>
                                 turn'[r.p].st = "none" /\ shown'[r.p] = "none"
    <3> SUFFICES ASSUME r.op = "prompt" PROVE Its(h, r.p) /\ turn'[r.p].st = "none" /\ shown'[r.p] = "none"
      OBVIOUS
    <3>1. handler[h].op = "prompt" /\ handler[h].pc = "prune"
      BY <1>7, <1>12 DEF Placed
    <3>2. r.p \in Prompts /\ turn[r.p].st = "none" /\ shown[r.p] = "none"
      BY <1>7, <3>1 DEF ChatInv, Handled
    <3> QED
      BY <1>3, <1>7, <3>1, <3>2 DEF TurnsGoOn, Its
  <2>2. \A q \in Prompts : ~Its(h, q) =>
             /\ turn'[q].s = turn[q].s /\ (turn[q].st = "none" => turn'[q].st = "none")
             /\ shown[q] = "none" => shown'[q] = "none"
    BY <1>3 DEF TurnsGoOn
  <2>3. \A g \in Handlers : g # h /\ handler[g].pc = "status" => handler[g].p \notin left'
    BY <1>8 DEF ChatInv, Handled
  <2>4. r.s # 0 => sess'[r.s].made
    BY <1>1, <1>7 DEF ChatInv, Handled, Doings
  <2>5. (r.op = "switch" => r.s # 0) /\ r.pc # "status"
    BY <1>7 DEF ChatInv, Handled
  <2>6. \A t \in SessionIds : sess[t].made => sess'[t].made
    BY <1>1
  <2> QED
    BY <1>7, <2>1, <2>2, <2>3, <2>4, <2>5, <2>6, HandledMoves DEF ChatInv
<1>15. Dated'
  <2> SUFFICES ASSUME NEW p \in Prompts
               PROVE  /\ delivery'[p].pc # "none" => shown[p] # "none" /\ turn'[p].s # 0
                      /\ p \in left' => turn'[p].s # 0
                      /\ delivery'[p].pc \notin {"none", "over"} => delivery'[p].gen <= sess'[turn'[p].s].gen
                      /\ delivery'[p].pc \notin {"none", "over"} /\ ~delivery'[p].cut /\ p \in left' =>
                            delivery'[p].gen < sess'[turn'[p].s].gen
                      /\ delivery'[p].pc \in {"send", "next"} => turn'[p].st \in Outcomes
    BY DEF Dated
  <2>1. p \in left' => p \in left \/ turn[p].s \in S
    BY <1>8 DEF TurnsOf
  <2>2. turn[p].st \in Outcomes => turn'[p].st = turn[p].st
    BY <1>3 DEF TurnsGoOn
  <2>3. turn[p].s # 0 => /\ sess[turn[p].s].gen \in Nat
                         /\ \/ sess'[turn[p].s].gen = sess[turn[p].s].gen
                            \/ sess'[turn[p].s].gen = sess[turn[p].s].gen + 1
    BY <1>1, <1>10 DEF ChatInv, ChatTypes, Sessions
  <2>4. delivery[p].gen \in Nat /\ 0 \notin S
    BY DEF ChatInv, ChatTypes, Deliveries
  <2>5. delivery[p].pc # "none" => shown[p] # "none" /\ turn'[p].s # 0
    BY <1>10 DEF ChatInv, Dated
  <2>6. p \in left' => turn'[p].s # 0
    BY <1>10, <2>1, <2>4 DEF ChatInv, Dated
  <2>7. delivery[p].pc \notin {"none", "over"} => delivery[p].gen <= sess'[turn[p].s].gen
    <3> SUFFICES ASSUME delivery[p].pc \notin {"none", "over"} PROVE delivery[p].gen <= sess'[turn[p].s].gen
      OBVIOUS
    <3>1. turn[p].s # 0 /\ delivery[p].gen <= sess[turn[p].s].gen
      BY DEF ChatInv, Dated
    <3> QED
      BY <2>3, <2>4, <3>1
  <2>8. delivery[p].pc \notin {"none", "over"} /\ ~delivery'[p].cut /\ p \in left' =>
            delivery[p].gen < sess'[turn[p].s].gen
    <3> SUFFICES ASSUME delivery[p].pc \notin {"none", "over"}, ~delivery'[p].cut, p \in left'
                 PROVE  delivery[p].gen < sess'[turn[p].s].gen
      OBVIOUS
    <3>1. turn[p].s \notin S /\ ~delivery[p].cut /\ p \in left
      BY <1>4, <2>1
    <3>2. turn[p].s # 0 /\ delivery[p].gen < sess[turn[p].s].gen
      BY <3>1 DEF ChatInv, Dated
    <3> QED
      BY <2>3, <2>4, <3>2
  <2>9. delivery[p].pc \in {"send", "next"} => turn'[p].st \in Outcomes
    BY <2>2 DEF ChatInv, Dated
  <2> QED
    BY <1>4, <1>10, <2>5, <2>6, <2>7, <2>8, <2>9
<1>16. NothingStale'
  <2> SUFFICES ASSUME NEW p \in Prompts, At(p, "send")', Locked(p)'
               PROVE  p \notin left' /\ boundary' = p
    BY DEF NothingStale
  <2>1. At(p, "send") /\ turn[p].s \notin S
    BY <1>4 DEF At
  <2>2. turn'[p].st = turn[p].st
    BY <1>3, <2>1 DEF At, ChatInv, Dated, TurnsGoOn
  <2>3. Locked(p)
    BY <2>2 DEF Locked
  <2> QED
    BY <1>8, <2>1, <2>3 DEF ChatInv, NothingStale, TurnsOf
<1>17. \A s \in SessionIds : /\ sess[s].closed => sess'[s].closed
                             /\ sess'[s].closed => sess[s].closed \/ s \in E
  BY <1>1, <1>6
<1>18. Drained'
  <2>1. ~Leaving(h) /\ r.pc # "publish" /\ r.pc # "settle"
    BY <1>7 DEF Leaving
  <2>2. current' = current \/ (current' = 0 /\ (current # 0 => sess'[current].closed))
    BY <1>1, <1>8
  <2> QED
    BY <1>3, <1>7, <1>17, <2>1, <2>2, DrainedMoves DEF ChatInv
<1>19. Awaited'
  BY <1>3, <1>7, <1>17, AwaitedMoves DEF ChatInv
<1> QED
  BY <1>9, <1>11, <1>13, <1>14, <1>15, <1>16, <1>18, <1>19 DEF ChatInv

LEMMA PruneKeeps == ASSUME ChatInv, NEW h \in Handlers, Prune(h) PROVE ChatInv'
<1>1. handler[h].pc = "prune" /\ UNCHANGED <<boundary, shown, streaming>>
  BY DEF Prune
<1>2. CASE Closes(h, Expired)
  <2>1. PICK S \in SUBSET SessionIds : S = Expired
    BY DEF Expired
  <2>2. \A s \in S : sess[s].listed
    BY <2>1 DEF Expired
  <2>3. Closes(h, S)
    BY <1>2, <2>1
  <2> QED
    BY <1>1, <2>2, <2>3, ClosesKeeps
<1>3. CASE handler[h].op # "look" /\ Goto(h, "get") /\ UNCHANGED <<sess, current, left, turn, delivery>>
  <2>1. PICK r \in Doings : /\ handler' = [handler EXCEPT ![h] = r]
                          /\ r.pc = "get" /\ r.op = handler[h].op /\ r.s = handler[h].s
                          /\ r.p = handler[h].p /\ r.ends = handler[h].ends
    BY <1>3, GotoIs DEF ChatInv, Stages, Inside
  <2>2. (r.s # 0 => sess[r.s].made) /\ (r.op = "switch" => r.s # 0)
    BY <2>1 DEF ChatInv, Handled
  <2>3. Placed(handler[h])
    BY DEF ChatInv, Guarded
  <2>4. Placed(r) /\ ~Leaving(h) /\ r.op \notin Lockless
    BY <1>1, <1>3, <2>1, <2>3 DEF Placed, Leaving, Lockless
  <2>5. boundary' = h /\ boundary' = boundary
    BY <1>1, <2>1, <2>4 DEF ChatInv, Guarded
  <2>6. TurnsGoOn
    BY <1>3, TurnsStay DEF ChatInv
  <2> QED
    BY <1>1, <1>3, <2>1, <2>2, <2>4, <2>5, <2>6, Continues
<1> QED
  BY <1>2, <1>3 DEF Prune

LEMMA CloseAllKeeps == ASSUME ChatInv, NEW h \in Handlers, CloseAll(h) PROVE ChatInv'
<1>1. handler[h].pc = "close_all" /\ UNCHANGED <<boundary, shown, streaming>>
  BY DEF CloseAll
<1>2. PICK S \in SUBSET SessionIds : Closes(h, S) /\ \A s \in S : sess[s].listed
  BY DEF CloseAll
<1> QED
  BY <1>1, <1>2, ClosesKeeps

(* A session is left: its generation moves on, and its work is awaited.    *)
LEMMA AbandonKeeps == ASSUME ChatInv, NEW h \in Handlers, Abandon(h) PROVE ChatInv'
<1> USE Numbers
<1>1. handler[h].pc = "abandon" /\ UNCHANGED <<delivery, shown, streaming>>
  BY DEF Abandon
<1>2. Placed(handler[h])
  BY DEF ChatInv, Guarded
<1>3. handler[h].op \in Changing /\ ~Leaving(h)
  BY <1>1, <1>2 DEF Placed, Leaving
<1>4. boundary = h
  BY <1>1, <1>3 DEF ChatInv, Guarded, Lockless, Changing
<1>5. CASE Return(h) /\ UNCHANGED <<sess, current, turn, left>>
  BY <1>1, <1>3, <1>5, ReturnKeeps
<1>6. CASE Goto(h, "publish") /\ Here = 0 /\ UNCHANGED <<boundary, sess, current, turn, left>>
  <2>1. PICK r \in Doings : /\ handler' = [handler EXCEPT ![h] = r]
                          /\ r.pc = "publish" /\ r.op = handler[h].op /\ r.s = handler[h].s
                          /\ r.p = handler[h].p /\ r.ends = handler[h].ends
    BY <1>6, GotoIs DEF ChatInv, Stages, Inside
  <2>2. (r.s # 0 => sess[r.s].made) /\ (r.op = "switch" => r.s # 0)
    BY <2>1 DEF ChatInv, Handled
  <2>3. Placed(r) /\ r.op # "prompt"
    BY <1>3, <2>1 DEF Placed, Changing, Lockless
  <2>4. current = 0 \/ sess[current].closed
    BY <1>6 DEF Here, ChatInv, ChatTypes, Lives
  <2>5. TurnsGoOn
    BY <1>6, TurnsStay DEF ChatInv
  <2> QED
    BY <1>1, <1>3, <1>4, <1>6, <2>1, <2>2, <2>3, <2>4, <2>5, Continues
<1>7. CASE /\ current' = 0
           /\ sess' = (IF Here = 0 THEN sess ELSE [sess EXCEPT ![Here].gen = @ + 1])
           /\ left' = (IF Here = 0 THEN left ELSE left \cup TurnsOf({Here}))
           /\ turn' = (IF Here = 0 THEN turn ELSE Killed(TurnsOf({Here})))
           /\ handler' = [handler EXCEPT ![h].pc = "settle",
                            ![h].ends = IF Here = 0 THEN {} ELSE TurnsOf({Here})]
           /\ UNCHANGED boundary
  <2>1. Here = 0 \/ (Here \in SessionIds /\ Here = current)
    BY DEF Here, ChatInv, ChatTypes
  <2>2. PICK c \in {0} \cup SessionIds : c = Here
    BY <2>1
  <2>3. PICK E \in SUBSET Prompts : E = IF c = 0 THEN {} ELSE TurnsOf({c})
    BY DEF TurnsOf
  <2>4. \A p \in Prompts : p \in E <=> c # 0 /\ turn[p].s = c
    BY <2>3 DEF TurnsOf
  <2>5. TurnsGoOn
    <3>1. CASE c = 0
      BY <1>7, <2>2, <3>1, TurnsStay DEF ChatInv
    <3>2. CASE c # 0
      BY <1>7, <2>2, <3>2, KilledTurns DEF ChatInv
    <3> QED
      BY <3>1, <3>2
  <2>6. \A s \in SessionIds : /\ sess[s] \in Sessions /\ sess'[s] \in Sessions
                              /\ sess'[s].made = sess[s].made /\ sess'[s].listed = sess[s].listed
                              /\ sess'[s].closed = sess[s].closed
                              /\ s # c => sess'[s] = sess[s]
                              /\ s = c => sess'[s].gen = sess[s].gen + 1
    <3>1. CASE c = 0
      BY <1>7, <2>2, <3>1 DEF ChatInv, ChatTypes
    <3>2. CASE c # 0
      <4>1. sess[c] \in Sessions /\ c \in SessionIds
        BY <3>2 DEF ChatInv, ChatTypes
      <4>2. PICK n \in Nat : n = sess[c].gen + 1
        BY <4>1 DEF Sessions
      <4>3. PICK r : r = [sess[c] EXCEPT !.gen = n]
        OBVIOUS
      <4>4. /\ r \in Sessions /\ r.made = sess[c].made /\ r.listed = sess[c].listed
            /\ r.closed = sess[c].closed /\ r.gen = n
        BY <4>1, <4>3 DEF Sessions
      <4>5. sess' = [sess EXCEPT ![c] = r]
        BY <1>7, <2>2, <3>2, <4>2, <4>3
      <4> QED
        BY <4>1, <4>2, <4>4, <4>5 DEF ChatInv, ChatTypes
    <3> QED
      BY <3>1, <3>2
  <2>7. sess' \in [SessionIds -> Sessions]
    <3>1. sess' = [s \in SessionIds |-> sess'[s]]
      BY <1>7 DEF ChatInv, ChatTypes
    <3> QED
      BY <2>6, <3>1
  <2>8. PICK r \in Doings : /\ handler' = [handler EXCEPT ![h] = r]
                          /\ r.pc = "settle" /\ r.op = handler[h].op /\ r.s = handler[h].s
                          /\ r.p = handler[h].p /\ r.ends = E
    <3>1. E \in SUBSET Nat /\ "settle" \in Stages
      BY DEF Stages, Inside
    <3>2. Awaits(h, "settle", E)
      BY <1>7, <2>2, <2>3 DEF Awaits
    <3> QED
      BY <3>1, <3>2, AwaitIs DEF ChatInv
  <2>9. handler'[h] = r /\ \A g \in Handlers : g # h => handler'[g] = handler[g]
    BY <2>8 DEF ChatInv, ChatTypes
  <2>10. \A p \in Prompts : /\ p \in left' <=> p \in left \/ p \in E
                            /\ turn[p].s \in {0} \cup SessionIds /\ turn'[p].s = turn[p].s
    BY <1>7, <2>2, <2>3, <2>5 DEF TurnsGoOn, ChatInv, ChatTypes, Works
  <2>11. ChatTypes'
    <3>1. handler' \in [Handlers -> Doings] /\ turn' \in [Prompts -> Works]
      BY <2>5, <2>8 DEF ChatInv, ChatTypes, TurnsGoOn
    <3>2. left' \subseteq Prompts /\ current' \in {0} \cup SessionIds
      BY <1>7 DEF ChatInv, ChatTypes, TurnsOf
    <3> QED
      BY <1>1, <1>7, <2>7, <3>1, <3>2 DEF ChatInv, ChatTypes
  <2>12. Lives'
    <3>1. \A s \in SessionIds : /\ sess'[s].made <=> sess'[s].listed \/ sess'[s].closed
                                /\ ~(sess'[s].listed /\ sess'[s].closed)
      BY <2>6 DEF ChatInv, Lives
    <3>2. \A p \in Prompts : /\ turn'[p].st = "none" <=> turn'[p].s = 0
                             /\ turn'[p].s # 0 => sess'[turn'[p].s].made
      BY <2>5, <2>6, <2>10 DEF ChatInv, Lives, TurnsGoOn
    <3> QED
      BY <1>7, <3>1, <3>2 DEF Lives
  <2>13. Guarded'
    <3>1. Placed(r)
      BY <1>3, <2>8 DEF Placed, Changing, Lockless
    <3> QED
      BY <1>4, <1>7, <2>8, <3>1, GuardedMoves DEF ChatInv
  <2>14. Handled'
    <3>1. r.op # "prompt" /\ r.pc # "status"
      BY <1>3, <2>8 DEF Changing
    <3>2. \A q \in Prompts : ~Its(h, q) =>
             /\ turn'[q].s = turn[q].s /\ (turn[q].st = "none" => turn'[q].st = "none")
             /\ shown[q] = "none" => shown'[q] = "none"
      BY <1>1, <2>5 DEF TurnsGoOn
    <3>3. \A g \in Handlers : g # h /\ handler[g].pc = "status" => handler[g].p \notin left'
      BY <1>4, Alone DEF Inside
    <3>4. (r.s # 0 => sess'[r.s].made) /\ (r.op = "switch" => r.s # 0)
      <4>1. r.s \in {0} \cup SessionIds
        BY DEF Doings
      <4>2. (r.s # 0 => sess[r.s].made) /\ (r.op = "switch" => r.s # 0)
        BY <2>8 DEF ChatInv, Handled
      <4> QED
        BY <2>6, <4>1, <4>2
    <3>5. \A t \in SessionIds : sess[t].made => sess'[t].made
      BY <2>6
    <3> QED
      BY <2>8, <3>1, <3>2, <3>3, <3>4, <3>5, HandledMoves DEF ChatInv
  <2>15. Dated'
    <3> SUFFICES ASSUME NEW p \in Prompts
                 PROVE  /\ delivery[p].pc # "none" => shown[p] # "none" /\ turn'[p].s # 0
                        /\ p \in left' => turn'[p].s # 0
                        /\ delivery[p].pc \notin {"none", "over"} => delivery[p].gen <= sess'[turn'[p].s].gen
                        /\ delivery[p].pc \notin {"none", "over"} /\ ~delivery[p].cut /\ p \in left' =>
                              delivery[p].gen < sess'[turn'[p].s].gen
                        /\ delivery[p].pc \in {"send", "next"} => turn'[p].st \in Outcomes
      BY <1>1 DEF Dated
    <3>1. turn[p].st \in Outcomes => turn'[p].st = turn[p].st
      BY <2>5 DEF TurnsGoOn
    <3>2. turn[p].s # 0 => /\ sess[turn[p].s].gen \in Nat
                           /\ turn[p].s # c => sess'[turn[p].s].gen = sess[turn[p].s].gen
                           /\ turn[p].s = c => sess'[turn[p].s].gen = sess[turn[p].s].gen + 1
      BY <2>6, <2>10 DEF Sessions
    <3>3. delivery[p].gen \in Nat
      BY DEF ChatInv, ChatTypes, Deliveries
    <3>4. delivery[p].pc # "none" => shown[p] # "none" /\ turn[p].s # 0
      BY DEF ChatInv, Dated
    <3>5. p \in left' => turn[p].s # 0
      BY <2>4, <2>10 DEF ChatInv, Dated
    <3>6. ASSUME delivery[p].pc \notin {"none", "over"}
          PROVE  /\ delivery[p].gen <= sess'[turn[p].s].gen
                 /\ ~delivery[p].cut /\ p \in left' => delivery[p].gen < sess'[turn[p].s].gen
      <4>1. /\ turn[p].s # 0 /\ delivery[p].gen <= sess[turn[p].s].gen
            /\ ~delivery[p].cut /\ p \in left => delivery[p].gen < sess[turn[p].s].gen
        BY <3>6 DEF ChatInv, Dated
      <4>2. p \in left' => p \in left \/ turn[p].s = c
        BY <2>4, <2>10
      <4> QED
        BY <3>2, <3>3, <4>1, <4>2
    <3> QED
      BY <2>10, <3>1, <3>4, <3>5, <3>6 DEF ChatInv, Dated
  <2>16. NothingStale'
    <3> SUFFICES ASSUME NEW p \in Prompts, At(p, "send")', Locked(p)' PROVE FALSE
      BY DEF NothingStale
    <3>1. At(p, "send")
      BY <1>1 DEF At
    <3>2. turn'[p].st = turn[p].st
      BY <2>5, <3>1 DEF At, ChatInv, Dated, TurnsGoOn
    <3>3. Locked(p)
      BY <1>1, <3>2 DEF Locked
    <3> QED
      BY <1>4, <3>1, <3>3, Alone
  <2>17. Drained'
    <3>1. ASSUME NEW p \in Prompts, Open(p)'
          PROVE  sess'[turn'[p].s].closed \/ p \in handler'[h].ends
      <4>1. Open(p) /\ turn[p].s \in SessionIds /\ turn'[p].s = turn[p].s
        BY <2>5, <2>10, <3>1 DEF TurnsGoOn, Open, ChatInv, Lives
      <4>2. sess[turn[p].s].closed \/ turn[p].s = current
        BY <1>3, <1>4, <4>1, Alone DEF ChatInv, Drained
      <4>3. turn[p].s = current /\ ~sess[turn[p].s].closed => p \in E
        BY <2>2, <2>4, <4>1 DEF Here, ChatInv, Lives
      <4> QED
        BY <2>6, <2>8, <2>9, <4>1, <4>2, <4>3
    <3>2. Leaving(h)' /\ \A g \in Handlers : g # h => ~Leaving(g)' /\ handler'[g].pc # "publish"
      BY <1>3, <1>4, <2>8, <2>9, Alone DEF Leaving, Inside
    <3>3. \A p, q \in Prompts \cap handler'[h].ends : turn'[p].s = turn'[q].s
      BY <2>4, <2>8, <2>9, <2>10
    <3> QED
      BY <1>7, <3>1, <3>2, <3>3 DEF Drained
  <2>18. Awaited'
    <3>1. \A s \in SessionIds : sess'[s].closed => sess[s].closed \/ (r.pc = "closing" /\ s \in r.ends)
      BY <2>6
    <3>2. handler[h].pc # "closing"
      BY <1>1
    <3> QED
      BY <2>5, <2>8, <3>1, <3>2, AwaitedMoves DEF ChatInv
  <2> QED
    BY <2>11, <2>12, <2>13, <2>14, <2>15, <2>16, <2>17, <2>18 DEF ChatInv
<1> QED
  BY <1>5, <1>6, <1>7 DEF Abandon

(* An update arrives, at a handler that rests.                             *)
LEMMA ArrivesKeeps == ASSUME ChatInv, NEW h \in Handlers, Arrives(h) PROVE ChatInv'
<1> USE Numbers
<1>1. handler[h].pc = "idle"
      /\ UNCHANGED <<sess, current, boundary, turn, delivery, shown, streaming, left>>
  BY DEF Arrives
<1>2. TurnsGoOn /\ Delivers
  BY <1>1, TurnsStay, DeliveriesStay DEF ChatInv
<1>3. Lives' /\ Dated' /\ NothingStale'
  BY <1>1, <1>2, LivesStays, DatedStays, NothingStaleStays DEF ChatInv
<1>4. PICK r \in Doings :
         /\ handler' = [handler EXCEPT ![h] = r] /\ r.pc \in {"lock", "prune", "close_all"}
         /\ Placed(r) /\ (r.pc # "lock" => r.op \in Lockless)
         /\ (r.s # 0 => sess[r.s].made) /\ (r.op = "switch" => r.s # 0)
         /\ r.op = "prompt" => /\ r.p \in Prompts /\ turn[r.p].st = "none" /\ shown[r.p] = "none"
                               /\ \A g \in Handlers : handler[g].p # r.p
  <2>1. ASSUME NEW p \in Prompts, turn[p].st = "none", shown[p] = "none",
               \A g \in Handlers : handler[g].p # p,
               handler' = [handler EXCEPT ![h] = [Resting EXCEPT !.pc = "lock", !.op = "prompt", !.p = p]]
        PROVE  \E r \in Doings : 
                  /\ handler' = [handler EXCEPT ![h] = r] /\ r.pc \in {"lock", "prune", "close_all"}
                  /\ Placed(r) /\ (r.pc # "lock" => r.op \in Lockless)
                  /\ (r.s # 0 => sess[r.s].made) /\ (r.op = "switch" => r.s # 0)
                  /\ r.op = "prompt" => /\ r.p \in Prompts /\ turn[r.p].st = "none" /\ shown[r.p] = "none"
                                        /\ \A g \in Handlers : handler[g].p # r.p
    <3>1. PICK r : r = [Resting EXCEPT !.pc = "lock", !.op = "prompt", !.p = p]
      OBVIOUS
    <3>2. r \in Doings /\ r.pc = "lock" /\ r.op = "prompt" /\ r.p = p /\ r.s = 0
      BY <3>1 DEF Resting, Doings, Stages
    <3>3. Placed(r)
      BY <3>2 DEF Placed, Lockless, Changing
    <3> QED
      BY <2>1, <3>1, <3>2, <3>3
  <2>2. ASSUME NEW op \in Commands, NEW s \in SessionIds, NEW p \in Prompts,
               op = "switch" => sess[s].made,
               handler' = [handler EXCEPT ![h] =
                    [Resting EXCEPT !.pc = CASE op = "look" -> "prune" [] op = "shutdown" -> "close_all"
                                             [] OTHER -> "lock",
                                 !.op = op,
                                 !.s = IF op = "switch" THEN s ELSE 0,
                                 !.p = IF op = "stop_button" THEN p ELSE Free]]
        PROVE  \E r \in Doings : 
                  /\ handler' = [handler EXCEPT ![h] = r] /\ r.pc \in {"lock", "prune", "close_all"}
                  /\ Placed(r) /\ (r.pc # "lock" => r.op \in Lockless)
                  /\ (r.s # 0 => sess[r.s].made) /\ (r.op = "switch" => r.s # 0)
                  /\ r.op = "prompt" => /\ r.p \in Prompts /\ turn[r.p].st = "none" /\ shown[r.p] = "none"
                                        /\ \A g \in Handlers : handler[g].p # r.p
    <3>1. PICK pc : pc = CASE op = "look" -> "prune" [] op = "shutdown" -> "close_all" [] OTHER -> "lock"
      OBVIOUS
    <3>2. PICK t \in {0} \cup SessionIds : t = IF op = "switch" THEN s ELSE 0
      OBVIOUS
    <3>3. PICK q \in {Free} \cup Prompts : q = IF op = "stop_button" THEN p ELSE Free
      OBVIOUS
    <3>4. pc \in {"lock", "prune", "close_all"}
          /\ (pc = "prune" <=> op = "look") /\ (pc = "close_all" <=> op = "shutdown")
      BY <3>1
    <3>5. PICK r : r = [Resting EXCEPT !.pc = pc, !.op = op, !.s = t, !.p = q]
      OBVIOUS
    <3>6. r = [pc |-> pc, op |-> op, s |-> t, p |-> q, ends |-> {}]
      BY <3>5 DEF Resting
    <3>7. r \in Doings
      BY <3>4, <3>6 DEF Doings, Stages
    <3>8. r.pc = pc /\ r.op = op /\ r.s = t /\ op # "prompt"
      BY <3>6 DEF Commands
    <3>9. Placed(r) /\ (r.pc # "lock" => r.op \in Lockless)
      BY <3>4, <3>8 DEF Placed, Lockless, Changing
    <3>10. handler' = [handler EXCEPT ![h] = r]
      BY <2>2, <3>1, <3>2, <3>3, <3>5
    <3> QED
      BY <2>2, <3>2, <3>4, <3>7, <3>8, <3>9, <3>10
  <2> QED
    BY <2>1, <2>2 DEF Arrives
<1>5. ChatTypes'
  <2>1. handler' \in [Handlers -> Doings]
    BY <1>4 DEF ChatInv, ChatTypes
  <2> QED
    BY <1>1, <2>1 DEF ChatInv, ChatTypes
<1>6. Guarded'
  BY <1>1, <1>4, GuardedMoves DEF ChatInv
<1>7. handler'[h] = r /\ \A g \in Handlers : g # h => handler'[g] = handler[g]
  BY <1>4 DEF ChatInv, ChatTypes
<1>8. Handled'
  <2>1. ASSUME NEW g \in Handlers, handler'[g].op = "prompt"
        PROVE  /\ handler'[g].p \in Prompts
               /\ \A f \in Handlers : handler'[f].op = "prompt" /\ handler'[f].p = handler'[g].p => f = g
               /\ handler'[g].pc \in {"lock", "prune", "closing", "get"} =>
                     turn[handler'[g].p].st = "none" /\ shown[handler'[g].p] = "none"
    BY <1>4, <1>7, <2>1 DEF ChatInv, Handled
  <2>2. ASSUME NEW g \in Handlers, handler'[g].pc = "status" PROVE g # h
    BY <1>4, <1>7, <2>2
  <2>3. \A g \in Handlers : /\ handler'[g].s # 0 => sess[handler'[g].s].made
                            /\ handler'[g].op = "switch" => handler'[g].s # 0
    BY <1>4, <1>7 DEF ChatInv, Handled
  <2> QED
    BY <1>1, <1>7, <2>1, <2>2, <2>3 DEF ChatInv, Handled
<1>9. ~Leaving(h) /\ handler[h].pc # "closing" /\ r.pc # "publish" /\ r.pc # "settle"
  BY <1>1, <1>4 DEF Leaving
<1>10. sess' = sess /\ current' = current
  BY <1>1
<1>11. Drained' /\ Awaited'
  BY <1>2, <1>4, <1>9, <1>10, DrainedMoves, AwaitedMoves DEF ChatInv
<1> QED
  BY <1>3, <1>5, <1>6, <1>8, <1>11 DEF ChatInv

-----------------------------------------------------------------------------
(* The theorems *)

LEMMA ChatStays == ASSUME ChatInv, UNCHANGED chatVars PROVE ChatInv'
BY DEF ChatInv, chatVars, ChatTypes, Lives, Guarded, Handled, Dated, NothingStale, Drained, Awaited,
       At, Locked, Open, Leaving

LEMMA ChatSteps == ChatInv /\ [ChatNext]_chatVars => ChatInv'
<1> SUFFICES ASSUME ChatInv, [ChatNext]_chatVars PROVE ChatInv'
  OBVIOUS
<1>1. CASE UNCHANGED chatVars
  BY <1>1, ChatStays
<1>2. ASSUME NEW h \in Handlers, HandlerStep(h) PROVE ChatInv'
  BY <1>2, TakeLockKeeps, PruneKeeps, CloseAllKeeps, ClosedKeeps, EnqueueKeeps, ResetKeeps,
     SendStatusKeeps, AbandonKeeps, PublishKeeps, CancelTurnsKeeps, SettledKeeps DEF HandlerStep
<1>3. ASSUME NEW p \in Prompts, TurnStarts(p) \/ TurnEnds(p) \/ EditEnds(p) \/ StreamEdit(p)
      PROVE  ChatInv'
  BY <1>3, TurnsKeep, TypingAskedKeeps
<1>4. ASSUME NEW p \in Prompts, DeliveryStep(p) PROVE ChatInv'
  BY <1>4, TypingAskedKeeps, SendBeginsKeeps, SendEndsKeeps, OverKeeps DEF DeliveryStep
<1>5. ASSUME NEW h \in Handlers, Arrives(h) PROVE ChatInv'
  BY <1>5, ArrivesKeeps
<1>6. ASSUME NEW s \in SessionIds, Expires(s) PROVE ChatInv'
  BY <1>6, ExpiresKeeps
<1> QED
  BY <1>1, <1>2, <1>3, <1>4, <1>5, <1>6 DEF ChatNext, ChatProgress

(* The inductive invariant of the chat holds at all times, however the     *)
(* updates, turns, deliveries and expiries of a chat interleave            *)
(* (bot.TelegramBot, handlers.SessionManager).                             *)
THEOREM ChatInvariance == ChatSpec => []ChatInv
<1>1. ChatInit => ChatInv
  BY ChatInitHolds
<1>2. ChatInv /\ [ChatNext]_chatVars => ChatInv'
  BY ChatSteps
<1> QED
  BY <1>1, <1>2, PTL DEF ChatSpec

(* A session begins when the one before has drained, no answer of a        *)
(* session that was left is sent under the boundary lock, and whoever      *)
(* closed a session goes on when it does not work any more                 *)
(* (bot.create_new_session, _is_delivery_current, _close_session).         *)
THEOREM ChatsDoNotMix == ChatSpec => []SessionsDoNotMix
<1>1. ChatInv => SessionsDoNotMix
  <2> SUFFICES ASSUME ChatInv PROVE SessionsDoNotMix
    OBVIOUS
  <2> USE Numbers
  <2>1. DrainedFirst
    <3> SUFFICES ASSUME NEW p \in Prompts, NEW q \in Prompts, Open(p), Open(q), turn[p].s # turn[q].s,
                        ~sess[turn[p].s].closed, ~sess[turn[q].s].closed
                 PROVE  FALSE
      BY DEF DrainedFirst
    <3>1. \A g, f \in Handlers : Leaving(g) /\ Leaving(f) => g = f
      BY DEF ChatInv, Guarded, Leaving, Lockless, Changing
    <3>2. turn[p].s # 0 /\ turn[q].s # 0
      BY DEF ChatInv, Lives, Open
    <3>3. CASE current # 0
      BY <3>2, <3>3 DEF ChatInv, Drained
    <3>4. CASE current = 0
      <4>1. PICK g \in Handlers : Leaving(g) /\ p \in handler[g].ends
        BY <3>2, <3>4 DEF ChatInv, Drained
      <4>2. PICK f \in Handlers : Leaving(f) /\ q \in handler[f].ends
        BY <3>2, <3>4 DEF ChatInv, Drained
      <4> QED
        BY <3>1, <4>1, <4>2 DEF ChatInv, Drained
    <3> QED
      BY <3>3, <3>4
  <2>2. ClosedIsOver
    <3> SUFFICES ASSUME NEW s \in SessionIds, sess[s].closed,
                        \A h \in Handlers : handler[h].pc = "closing" => s \notin handler[h].ends,
                        NEW p \in Prompts, turn[p].s = s, Open(p)
                 PROVE  FALSE
      BY DEF ClosedIsOver, Quiet, TurnsOf
    <3> QED
      BY DEF ChatInv, Awaited
  <2> QED
    BY <2>1, <2>2 DEF SessionsDoNotMix, ChatInv
<1> QED
  BY <1>1, ChatInvariance, PTL

-----------------------------------------------------------------------------
(* The schedule.  Its types: a table says of some jobs when they last ran. *)

Tables == UNION {[S -> 0..MaxTime] : S \in SUBSET Jobs}

Operations == [pc : {"rest", "load", "write", "replace", "done", "failed"},
               op : {"none", "create", "delete", "stamp"}, job : Nat, copy : Tables]

Ticks == [pc : {"asleep", "next", "stamp", "stamping", "run", "dead"}, now : 0..MaxTime,
          listed : Tables, todo : SUBSET Jobs, job : Nat]

ScheduleTypes ==
    /\ file \in Tables /\ memo \in Tables /\ time \in 0..MaxTime
    /\ spare = << >> \/ \E f \in Tables : spare = <<f>>
    /\ thread \in [Threads -> Operations]
    /\ tick \in Ticks
    /\ kind \in {"prompts", "skills"}
    /\ runs \in [Jobs -> [0..MaxTime -> Nat]]
    /\ promised \subseteq Jobs /\ faults \in Nat

(* Whose operation of the store it is, and where the loop is.              *)
Places ==
    /\ \A t \in Threads : thread[t].pc # "rest" =>
         /\ kind = "prompts" /\ thread[t].job \in Jobs
         /\ t = Loop => thread[t].op = "stamp" /\ tick.pc = "stamping" /\ thread[t].job = tick.job
         /\ t # Loop => thread[t].op \in {"create", "delete"}
    /\ \A t \in Threads : thread[t].pc = "rest" => thread[t].op = "none"
    /\ tick.pc = "stamping" => thread[Loop].pc # "rest"
    /\ tick.now <= time /\ tick.todo \subseteq DOMAIN tick.listed
    /\ tick.pc = "asleep" => tick.listed = NoJobs
    /\ tick.pc \in {"stamp", "stamping", "run"} => tick.job \in DOMAIN tick.listed \ tick.todo

(* No entry of a table is later than n.                                    *)
Past(table, n) == \A j \in DOMAIN table : table[j] <= n

(* Skills: what ran is remembered, and so is what this tick has looked at. *)
Remembered ==
    /\ file = NoJobs /\ promised = {} /\ Past(memo, time) /\ tick.pc # "dead"
    /\ \A j \in Jobs, n \in 0..MaxTime :
         runs[j][n] <= 1 /\ (runs[j][n] > 0 => j \in DOMAIN memo /\ n <= memo[j])
    /\ tick.pc = "stamp" => tick.job \in DOMAIN memo /\ memo[tick.job] < tick.now
    /\ tick.pc = "run" =>
         tick.job \in DOMAIN memo /\ runs[tick.job][memo[tick.job]] = 0
    /\ \A j \in DOMAIN tick.listed \ tick.todo :
         \/ tick.pc = "stamp" /\ j = tick.job
         \/ j \in DOMAIN memo /\ tick.now <= memo[j]

Writing(t) == thread[t].pc \in {"write", "replace"}

(* Prompts, while no two operations of the store overlap: a copy that is   *)
(* to replace the file is the file with one change, ...                    *)
Changes(t) ==
    \/ thread[t].op = "create" /\ \E n \in 0..time : thread[t].copy = With(file, thread[t].job, n)
    \/ thread[t].op = "delete" /\ thread[t].copy = Without(file, thread[t].job)
    \/ /\ thread[t].op = "stamp" /\ thread[t].job \in DOMAIN file
       /\ thread[t].copy = With(file, thread[t].job, tick.now)

OneWriter ==
    \A t \in Threads : Writing(t) =>
      /\ \A u \in Threads : Writing(u) => u = t
      /\ thread[t].pc = "replace" => spare = <<thread[t].copy>>
      /\ Changes(t)

(* ... nobody knows a job that is being created, ...                       *)
New ==
    \A t \in Threads : thread[t].op = "create" =>
      /\ thread[t].job \notin promised
      /\ \A u \in Threads \ {t, Loop} : thread[u].pc # "rest" => thread[u].job # thread[t].job
      /\ thread[t].pc # "done" =>
           /\ thread[t].job \notin DOMAIN file \cup DOMAIN tick.listed
           /\ \A n \in 0..MaxTime : runs[thread[t].job][n] = 0

(* A job that is not deleted has run, or been looked at, up to n.          *)
Stamps(j, n) == j \in DOMAIN file => n <= file[j]

AtHand(j) == tick.pc \in {"stamp", "stamping", "run"} /\ j = tick.job

(* ... what ran is stamped, what may run has not run, ...                  *)
Ran ==
    /\ \A j \in Jobs, n \in 0..MaxTime :
         /\ runs[j][n] <= 1
         /\ runs[j][n] > 0 => n <= time /\ Stamps(j, n) /\ (tick.pc # "asleep" => n <= tick.now)
    /\ \A j \in DOMAIN tick.listed : j \in tick.todo \/ AtHand(j) =>
         (tick.listed[j] < tick.now => runs[j][tick.now] = 0)
    /\ \A j \in DOMAIN tick.listed : AtHand(j) => tick.listed[j] < tick.now

(* ... what this tick has looked at has been stamped, if it was due, ...   *)
Looked ==
    /\ Past(file, time) /\ Past(tick.listed, tick.now)
    /\ \A j \in DOMAIN tick.listed : Stamps(j, tick.listed[j])
    /\ thread[Loop].pc = "done" => Stamps(tick.job, tick.now)
    /\ tick.pc # "dead" => \A j \in DOMAIN tick.listed \ tick.todo :
         \/ tick.pc \in {"stamp", "stamping"} /\ j = tick.job
         \/ Stamps(j, tick.now)

(* ... and, without a fault, the file is what the tool has confirmed or is *)
(* about to confirm.                                                       *)
DoneWith(op, j) == \E t \in Threads : thread[t].pc = "done" /\ thread[t].op = op /\ thread[t].job = j

Holds ==
    faults = 0 =>
      /\ \A t \in Threads : thread[t].pc # "failed"
      /\ tick.pc # "dead"
      /\ \A j \in Jobs : j \in DOMAIN file <=>
           (j \in promised \/ DoneWith("create", j)) /\ ~DoneWith("delete", j)

Prompted == OneWriter /\ New /\ Ran /\ Looked /\ Holds

ScheduleInv ==
    /\ ScheduleTypes /\ Places
    /\ kind = "skills" => Remembered /\ ~missed
    /\ kind = "prompts" /\ ~crossed => Prompted /\ ~missed

-----------------------------------------------------------------------------
LEMMA TableFacts ==
    ASSUME NEW f \in Tables
    PROVE  DOMAIN f \subseteq Jobs /\ \A j \in DOMAIN f : f[j] \in 0..MaxTime
BY DEF Tables

LEMMA IsTable ==
    ASSUME NEW S \in SUBSET Jobs, NEW f \in [S -> 0..MaxTime]
    PROVE  f \in Tables
BY DEF Tables

LEMMA NoJobsFacts == NoJobs \in Tables /\ DOMAIN NoJobs = {}
<1>1. NoJobs \in [{} -> 0..MaxTime]  BY DEF NoJobs
<1> QED  BY <1>1, IsTable

LEMMA WithFacts ==
    ASSUME NEW f \in Tables, NEW j \in Jobs, NEW n \in 0..MaxTime
    PROVE  /\ With(f, j, n) \in Tables
           /\ DOMAIN With(f, j, n) = DOMAIN f \cup {j}
           /\ With(f, j, n)[j] = n
           /\ \A i \in DOMAIN f \ {j} : With(f, j, n)[i] = f[i]
<1>1. With(f, j, n) \in [DOMAIN f \cup {j} -> 0..MaxTime]
  BY TableFacts DEF With
<1>2. With(f, j, n) \in Tables  BY <1>1, IsTable, TableFacts
<1> QED  BY <1>1, <1>2 DEF With

LEMMA WithTable ==
    ASSUME NEW f \in Tables, NEW j \in Jobs, NEW n \in 0..MaxTime, NEW g, g = With(f, j, n)
    PROVE  /\ g \in Tables
           /\ DOMAIN g = DOMAIN f \cup {j}
           /\ g[j] = n
           /\ \A i \in DOMAIN f \ {j} : g[i] = f[i]
<1>1. /\ With(f, j, n) \in Tables
      /\ DOMAIN With(f, j, n) = DOMAIN f \cup {j}
      /\ With(f, j, n)[j] = n
      /\ \A i \in DOMAIN f \ {j} : With(f, j, n)[i] = f[i]
  BY WithFacts
<1> QED  BY <1>1

LEMMA WithoutFacts ==
    ASSUME NEW f \in Tables, NEW j
    PROVE  /\ Without(f, j) \in Tables
           /\ DOMAIN Without(f, j) = DOMAIN f \ {j}
           /\ \A i \in DOMAIN f \ {j} : Without(f, j)[i] = f[i]
<1>1. Without(f, j) \in [DOMAIN f \ {j} -> 0..MaxTime]
  BY TableFacts DEF Without, Restrict
<1>2. Without(f, j) \in Tables  BY <1>1, IsTable, TableFacts
<1> QED  BY <1>1, <1>2 DEF Without, Restrict

LEMMA FirstOf ==
    ASSUME NEW S \in SUBSET Nat, S # {}
    PROVE  Min(S) \in S
<1>1. PICK m \in S : \A y \in S : ~ (<<y, m>> \in OpToRel(<, Nat))
  BY NatLessThanWellFounded, WFMin
<1>2. \A y \in S : ~ (y < m)
  BY <1>1 DEF OpToRel
<1>3. \A y \in S : m =< y
  BY <1>2
<1> QED  BY <1>3 DEF Min

LEMMA RestFacts ==
    /\ Rest \in Operations /\ Rest.pc = "rest" /\ Rest.op = "none"
    /\ Asleep \in Ticks /\ Asleep.pc = "asleep" /\ Asleep.now = 0 /\ Asleep.listed = NoJobs
    /\ Asleep.todo = {}
BY NoJobsFacts, ScheduleAssumption DEF Rest, Asleep, Operations, Ticks

LEMMA ScheduleInitially == ScheduleInit => ScheduleInv
<1> SUFFICES ASSUME ScheduleInit PROVE ScheduleInv  OBVIOUS
<1>1. PICK D \in SUBSET Jobs : memo = IF kind = "skills" THEN [j \in D |-> 0] ELSE NoJobs
  BY DEF ScheduleInit
<1>2. memo \in Tables /\ \A j \in DOMAIN memo : memo[j] = 0
  BY <1>1, IsTable, NoJobsFacts, ScheduleAssumption
<1>3. \A t \in Threads : thread[t] = Rest
  BY DEF ScheduleInit
<1>4. ScheduleTypes
  BY <1>2, <1>3, RestFacts, NoJobsFacts, ScheduleAssumption DEF ScheduleInit, ScheduleTypes
<1>5. Places
  BY <1>3, RestFacts, NoJobsFacts DEF ScheduleInit, Places, Threads
<1>6. Remembered
  BY <1>2, RestFacts, NoJobsFacts DEF ScheduleInit, Remembered, Past
<1>7. OneWriter /\ New
  BY <1>3, RestFacts DEF OneWriter, New, Writing
<1>8. Ran /\ Looked
  BY <1>3, RestFacts, NoJobsFacts DEF ScheduleInit, Ran, Looked, Past, Threads
<1>9. Holds
  BY <1>3, RestFacts, NoJobsFacts DEF ScheduleInit, Holds, DoneWith
<1> QED  BY <1>4, <1>5, <1>6, <1>7, <1>8, <1>9 DEF ScheduleInv, Prompted, ScheduleInit

LEMMA ThreadMoves ==
    ASSUME thread \in [Threads -> Operations], NEW t \in Threads, NEW r \in Operations,
           thread' = [thread EXCEPT ![t] = r]
    PROVE  /\ thread' \in [Threads -> Operations]
           /\ thread'[t] = r
           /\ \A u \in Threads \ {t} : thread'[u] = thread[u]
OBVIOUS

(* What is the same after a step that touches neither the file, the loop,  *)
(* what has run nor the time.                                              *)
LEMMA StoreStep ==
    ASSUME Prompted, NEW t \in Threads, thread' \in [Threads -> Operations],
           \A u \in Threads \ {t} : thread'[u] = thread[u],
           UNCHANGED <<file, tick, time, runs>>, t = Loop => thread'[t].pc # "done"
    PROVE  Ran' /\ Looked'
<1>1. Ran'
  BY DEF Prompted, Ran, Stamps, AtHand
<1>2. thread'[Loop].pc = "done" => thread[Loop].pc = "done"
  BY DEF Threads
<1>3. Looked'
  BY <1>2 DEF Prompted, Looked, Stamps, Past
<1> QED  BY <1>1, <1>3

LEMMA ToolCallStep ==
    ASSUME ScheduleInv, NEW t \in Threads, Call(t)
    PROVE  ScheduleInv'
<1>1. PICK op \in {"create", "delete"}, j \in Jobs :
        /\ Begin(t, op, j)
        /\ op = "create" =>
             /\ j \notin promised \cup DOMAIN file \cup DOMAIN tick.listed
             /\ \A n \in 0..MaxTime : runs[j][n] = 0
             /\ \A u \in Threads : thread[u].job # j
        /\ op = "delete" => j \in promised
  BY DEF Call
<1>2. /\ kind = "prompts" /\ t \in Tools /\ thread[t].pc = "rest" /\ t # Loop
      /\ UNCHANGED <<file, spare, tick, memo, kind, time, runs, promised, missed, crossed, faults>>
  BY ScheduleAssumption DEF Call
<1>3. PICK r \in Operations :
        /\ thread' = [thread EXCEPT ![t] = r]
        /\ r.pc = "load" /\ r.op = op /\ r.job = j
  <2>1. [pc |-> "load", op |-> op, job |-> j, copy |-> NoJobs] \in Operations
    BY NoJobsFacts, ScheduleAssumption DEF Operations
  <2> QED  BY <1>1, <2>1 DEF Begin
<1>4. /\ thread' \in [Threads -> Operations] /\ thread'[t] = r
      /\ \A u \in Threads \ {t} : thread'[u] = thread[u]
  <2>1. thread \in [Threads -> Operations]  BY DEF ScheduleInv, ScheduleTypes
  <2> QED  BY <2>1, <1>3, ThreadMoves
<1>5. ScheduleTypes'
  BY <1>2, <1>4 DEF ScheduleInv, ScheduleTypes
<1>6. Places'
  BY <1>2, <1>3, <1>4 DEF ScheduleInv, Places, Threads
<1>7. ASSUME ~crossed'
      PROVE  Prompted' /\ ~missed'
  <2>1. Prompted /\ ~missed
    BY <1>2, <1>7 DEF ScheduleInv
  <2>2. OneWriter'
    BY <2>1, <1>2, <1>3, <1>4 DEF Prompted, OneWriter, Writing, Changes
  <2>3. New'
    <3> SUFFICES ASSUME NEW u \in Threads, thread'[u].op = "create"
        PROVE  /\ thread'[u].job \notin promised
               /\ \A v \in Threads \ {u, Loop} : thread'[v].pc # "rest" => thread'[v].job # thread'[u].job
               /\ thread'[u].pc # "done" =>
                    /\ thread'[u].job \notin DOMAIN file \cup DOMAIN tick.listed
                    /\ \A n \in 0..MaxTime : runs[thread'[u].job][n] = 0
      BY <1>2 DEF New
    <3>1. CASE u = t
      BY <3>1, <1>1, <1>3, <1>4
    <3>2. CASE u # t
      BY <3>2, <2>1, <1>1, <1>3, <1>4 DEF Prompted, New
    <3> QED  BY <3>1, <3>2
  <2>4. Ran' /\ Looked'
    BY <2>1, <1>2, <1>4, StoreStep
  <2>5. Holds'
    BY <2>1, <1>2, <1>3, <1>4 DEF Prompted, Holds, DoneWith
  <2> QED  BY <2>1, <2>2, <2>3, <2>4, <2>5, <1>2 DEF Prompted
<1> QED  BY <1>2, <1>5, <1>6, <1>7 DEF ScheduleInv

LEMMA LoadStep ==
    ASSUME ScheduleInv, NEW t \in Threads, Load(t)
    PROVE  ScheduleInv'
<1>1. PICK c \in {file, NoJobs} :
        /\ IF c = file THEN Fine ELSE Fault
        /\ LET j == thread[t].job
               unchanged == thread[t].op # "create" /\ j \notin DOMAIN c
           IN /\ thread' = [thread EXCEPT
                   ![t].copy = CASE unchanged -> c
                                 [] thread[t].op = "create" -> With(c, j, time)
                                 [] thread[t].op = "delete" -> Without(c, j)
                                 [] OTHER -> With(c, j, tick.now),
                   ![t].pc = IF unchanged THEN "done" ELSE "write"]
        /\ crossed' = (crossed \/ c # file
             \/ \E u \in Threads \ {t} : thread[u].pc \in {"write", "replace"})
  BY DEF Load
<1> DEFINE j == thread[t].job
           unchanged == thread[t].op # "create" /\ j \notin DOMAIN c
           copy == CASE unchanged -> c
                     [] thread[t].op = "create" -> With(c, j, time)
                     [] thread[t].op = "delete" -> Without(c, j)
                     [] OTHER -> With(c, j, tick.now)
<1>2. /\ thread[t].pc = "load" /\ kind = "prompts" /\ j \in Jobs
      /\ thread[t].op \in {"create", "delete", "stamp"}
      /\ UNCHANGED <<file, spare, tick, memo, kind, time, runs, promised, missed>>
      /\ thread \in [Threads -> Operations] /\ thread[t] \in Operations
      /\ faults' \in Nat /\ (faults' = 0 => faults = 0)
      /\ c \in Tables /\ time \in 0..MaxTime /\ tick.now \in 0..MaxTime
  <2>1. /\ thread[t].pc = "load" /\ thread \in [Threads -> Operations] /\ faults \in Nat
        /\ UNCHANGED <<file, spare, tick, memo, kind, time, runs, promised, missed>>
    BY DEF Load, ScheduleInv, ScheduleTypes
  <2>2. kind = "prompts" /\ j \in Jobs /\ thread[t].op \in {"create", "delete", "stamp"}
    BY <2>1 DEF ScheduleInv, Places
  <2>3. faults' \in Nat /\ (faults' = 0 => faults = 0)
    BY <1>1, <2>1, ScheduleAssumption DEF Fine, Fault
  <2>4. c \in Tables /\ time \in 0..MaxTime /\ tick.now \in 0..MaxTime
    BY NoJobsFacts DEF ScheduleInv, ScheduleTypes, Ticks
  <2> QED  BY <2>1, <2>2, <2>3, <2>4
<1>3. copy \in Tables
  BY <1>2, WithFacts, WithoutFacts
<1>4. PICK r \in Operations :
        /\ thread' = [thread EXCEPT ![t] = r]
        /\ r.pc = IF unchanged THEN "done" ELSE "write"
        /\ r.op = thread[t].op /\ r.job = j /\ r.copy = copy
  <2> DEFINE r == [thread[t] EXCEPT !.copy = copy, !.pc = IF unchanged THEN "done" ELSE "write"]
  <2>0. thread' = [thread EXCEPT ![t].copy = copy, ![t].pc = IF unchanged THEN "done" ELSE "write"]
    BY <1>1
  <2>1. thread' = [thread EXCEPT ![t] = r]
    <3> HIDE DEF copy, unchanged
    <3> QED  BY <2>0, <1>2 DEF Operations
  <2>2. /\ r \in Operations /\ r.pc = (IF unchanged THEN "done" ELSE "write")
        /\ r.op = thread[t].op /\ r.job = j /\ r.copy = copy
    <3> HIDE DEF copy, unchanged
    <3> QED  BY <1>2, <1>3 DEF Operations
  <2> QED  BY <2>1, <2>2
<1>5. /\ thread' \in [Threads -> Operations] /\ thread'[t] = r
      /\ \A u \in Threads \ {t} : thread'[u] = thread[u]
  BY <1>2, <1>4, ThreadMoves
<1>6. ScheduleTypes'
  BY <1>2, <1>5 DEF ScheduleInv, ScheduleTypes
<1>7. Places'
  <2> HIDE DEF copy, unchanged
  <2>1. r.pc # "rest" BY <1>4
  <2> QED  BY <2>1, <1>2, <1>4, <1>5 DEF ScheduleInv, Places, Threads
<1>8. ASSUME ~crossed'
      PROVE  Prompted' /\ ~missed'
  <2>1. /\ Prompted /\ ~missed /\ c = file
        /\ \A u \in Threads \ {t} : thread[u].pc \notin {"write", "replace"}
    BY <1>1, <1>2, <1>8 DEF ScheduleInv
  <2>2. OneWriter'
    <3> SUFFICES ASSUME NEW u \in Threads, Writing(u)'
        PROVE  /\ \A v \in Threads : Writing(v)' => v = u
               /\ thread'[u].pc = "replace" => spare' = <<thread'[u].copy>>
               /\ Changes(u)'
      BY DEF OneWriter
    <3>1. u = t /\ \A v \in Threads : Writing(v)' => v = u
      BY <2>1, <1>5 DEF Writing
    <3>2. r.pc = "write" /\ ~unchanged
      BY <3>1, <1>4, <1>5 DEF Writing
    <3>3. Changes(u)'
      <4>1. CASE r.op = "create"
        <5>1. r.copy = With(file, r.job, time)  BY <4>1, <3>2, <1>4, <2>1
        <5>2. time \in 0..time  BY <1>2
        <5> QED  BY <4>1, <5>1, <5>2, <3>1, <1>2, <1>5 DEF Changes
      <4>2. CASE r.op = "delete"
        <5>1. r.copy = Without(file, r.job)  BY <4>2, <3>2, <1>4, <2>1
        <5> QED  BY <4>2, <5>1, <3>1, <1>2, <1>5 DEF Changes
      <4>3. CASE r.op = "stamp"
        <5>1. r.copy = With(file, r.job, tick.now) /\ r.job \in DOMAIN file
          BY <4>3, <3>2, <1>4, <2>1
        <5> QED  BY <4>3, <5>1, <3>1, <1>2, <1>5 DEF Changes
      <4> QED  BY <4>1, <4>2, <4>3, <1>2, <1>4
    <3> QED  BY <3>1, <3>2, <3>3, <1>5
  <2>3. New'
    <3> HIDE DEF copy
    <3> SUFFICES ASSUME NEW u \in Threads, thread'[u].op = "create"
        PROVE  /\ thread'[u].job \notin promised
               /\ \A v \in Threads \ {u, Loop} : thread'[v].pc # "rest" => thread'[v].job # thread'[u].job
               /\ thread'[u].pc # "done" =>
                    /\ thread'[u].job \notin DOMAIN file \cup DOMAIN tick.listed
                    /\ \A n \in 0..MaxTime : runs[thread'[u].job][n] = 0
      BY <1>2 DEF New
    <3>1. /\ thread[u].op = "create" /\ thread'[u].job = thread[u].job
          /\ thread'[u].pc # "done" => thread[u].pc # "done"
      BY <1>2, <1>4, <1>5
    <3>2. \A v \in Threads : /\ thread'[v].job = thread[v].job
                             /\ thread'[v].pc # "rest" => thread[v].pc # "rest"
      BY <1>2, <1>4, <1>5
    <3> QED  BY <3>1, <3>2, <2>1 DEF Prompted, New
  <2>4. Ran'
    BY <2>1, <1>2 DEF Prompted, Ran, Stamps, AtHand
  <2>5. Looked'
    <3>1. thread'[Loop].pc = "done" => Stamps(tick.job, tick.now)
      <4>1. CASE t = Loop
        <5>1. thread[t].op = "stamp" /\ j = tick.job
          BY <4>1, <1>2 DEF ScheduleInv, Places
        <5>2. r.pc = "done" => tick.job \notin DOMAIN file
          BY <5>1, <1>4, <2>1
        <5> QED  BY <4>1, <5>2, <1>5 DEF Stamps
      <4>2. CASE t # Loop
        BY <4>2, <1>5, <2>1 DEF Prompted, Looked, Threads
      <4> QED  BY <4>1, <4>2
    <3> QED  BY <3>1, <2>1, <1>2 DEF Prompted, Looked, Stamps, Past
  <2>6. Holds'
    <3> SUFFICES ASSUME faults = 0
        PROVE  /\ \A u \in Threads : thread'[u].pc # "failed"
               /\ tick.pc # "dead"
               /\ \A i \in Jobs : i \in DOMAIN file <=>
                    (i \in promised \/ DoneWith("create", i)') /\ ~DoneWith("delete", i)'
      BY <1>2 DEF Holds
    <3>1. /\ \A u \in Threads : thread'[u].pc # "failed"
          /\ tick.pc # "dead"
      BY <2>1, <1>4, <1>5 DEF Prompted, Holds
    <3>2. ASSUME NEW i \in Jobs
          PROVE  /\ DoneWith("create", i)' <=> DoneWith("create", i)
                 /\ DoneWith("delete", i) => DoneWith("delete", i)'
                 /\ DoneWith("delete", i)' => DoneWith("delete", i) \/ i \notin DOMAIN file
      <4>1. \A u \in Threads : u # t => thread'[u] = thread[u]
        BY <1>5
      <4>2. thread[t].pc # "done" /\ (r.pc = "done" => r.op # "create" /\ r.job \notin DOMAIN file)
        BY <1>2, <1>4, <2>1
      <4> HIDE DEF copy, unchanged
      <4> QED  BY <4>1, <4>2, <1>5 DEF DoneWith
    <3> QED  BY <3>1, <3>2, <2>1 DEF Prompted, Holds
  <2> QED  BY <2>1, <2>2, <2>3, <2>4, <2>5, <2>6, <1>2 DEF Prompted
<1> QED  BY <1>2, <1>6, <1>7, <1>8 DEF ScheduleInv

LEMMA WriteCopyStep ==
    ASSUME ScheduleInv, NEW t \in Threads, WriteCopy(t)
    PROVE  ScheduleInv'
<1>1. /\ thread[t].pc = "write" /\ kind = "prompts" /\ faults' \in Nat /\ (faults' = 0 => faults = 0)
      /\ UNCHANGED <<file, tick, memo, kind, time, runs, promised, missed, crossed>>
      /\ thread \in [Threads -> Operations] /\ thread[t] \in Operations
  <2>1. /\ thread[t].pc = "write" /\ thread \in [Threads -> Operations] /\ faults \in Nat
        /\ UNCHANGED <<file, tick, memo, kind, time, runs, promised, missed, crossed>>
    BY DEF WriteCopy, ScheduleInv, ScheduleTypes
  <2>2. kind = "prompts"
    BY <2>1 DEF ScheduleInv, Places
  <2>3. faults' \in Nat /\ (faults' = 0 => faults = 0)
    BY <2>1, ScheduleAssumption DEF Fine, Fault, WriteCopy
  <2> QED  BY <2>1, <2>2, <2>3
<1>2. PICK r \in Operations :
        /\ thread' = [thread EXCEPT ![t] = r]
        /\ r.op = thread[t].op /\ r.job = thread[t].job /\ r.copy = thread[t].copy
        /\ \/ r.pc = "replace" /\ spare' = <<r.copy>>
           \/ r.pc = "failed" /\ faults' # 0 /\ spare' = spare
  <2>1. CASE spare' = <<thread[t].copy>> /\ thread' = [thread EXCEPT ![t].pc = "replace"]
    <3> DEFINE r == [thread[t] EXCEPT !.pc = "replace"]
    <3>1. /\ r \in Operations /\ r.pc = "replace" /\ r.op = thread[t].op
          /\ r.job = thread[t].job /\ r.copy = thread[t].copy
      BY <1>1 DEF Operations
    <3>2. thread' = [thread EXCEPT ![t] = r]
      BY <2>1
    <3> QED  BY <2>1, <3>1, <3>2
  <2>2. CASE Fault /\ UNCHANGED spare /\ thread' = [thread EXCEPT ![t].pc = "failed"]
    <3> DEFINE r == [thread[t] EXCEPT !.pc = "failed"]
    <3>1. /\ r \in Operations /\ r.pc = "failed" /\ r.op = thread[t].op
          /\ r.job = thread[t].job /\ r.copy = thread[t].copy
      BY <1>1 DEF Operations
    <3>2. thread' = [thread EXCEPT ![t] = r]
      BY <2>2
    <3>3. faults' # 0
      BY <2>2 DEF Fault, ScheduleInv, ScheduleTypes
    <3> QED  BY <2>2, <3>1, <3>2, <3>3
  <2> QED  BY <2>1, <2>2 DEF WriteCopy
<1>3. /\ thread' \in [Threads -> Operations] /\ thread'[t] = r
      /\ \A u \in Threads \ {t} : thread'[u] = thread[u]
  BY <1>1, <1>2, ThreadMoves
<1>4. ScheduleTypes'
  <2>1. spare' = << >> \/ \E f \in Tables : spare' = <<f>>
    <3>1. r.copy \in Tables  BY DEF Operations
    <3> QED  BY <3>1, <1>2 DEF ScheduleInv, ScheduleTypes
  <2> QED  BY <2>1, <1>1, <1>3 DEF ScheduleInv, ScheduleTypes
<1>5. Places'
  BY <1>1, <1>2, <1>3 DEF ScheduleInv, Places, Threads
<1>6. ASSUME ~crossed'
      PROVE  Prompted' /\ ~missed'
  <2>1. Prompted /\ ~missed
    BY <1>1, <1>6 DEF ScheduleInv
  <2>2. OneWriter'
    <3>1. \A u \in Threads \ {t} : ~Writing(u)
      BY <2>1, <1>1 DEF Prompted, OneWriter, Writing
    <3>2. \A u \in Threads : Writing(u)' => u = t
      BY <3>1, <1>3 DEF Writing
    <3>3. Changes(t)'
      BY <2>1, <1>1, <1>2, <1>3 DEF Prompted, OneWriter, Writing, Changes
    <3>4. r.pc = "replace" => spare' = <<r.copy>>
      BY <1>2
    <3> QED  BY <3>2, <3>3, <3>4, <1>3 DEF OneWriter
  <2>3. New'
    <3>1. \A v \in Threads : /\ thread'[v].job = thread[v].job
                             /\ thread'[v].op = thread[v].op
                             /\ thread'[v].pc # "rest" => thread[v].pc # "rest"
                             /\ thread'[v].pc # "done" => thread[v].pc # "done"
      BY <1>1, <1>2, <1>3
    <3> QED  BY <3>1, <2>1, <1>1 DEF Prompted, New
  <2>4. Ran' /\ Looked'
    BY <2>1, <1>1, <1>2, <1>3, StoreStep
  <2>5. Holds'
    <3>1. \A v \in Threads : /\ thread'[v].job = thread[v].job
                             /\ thread'[v].op = thread[v].op
                             /\ thread'[v].pc = "done" <=> thread[v].pc = "done"
      BY <1>1, <1>2, <1>3
    <3>2. \A op, i : DoneWith(op, i)' <=> DoneWith(op, i)
      BY <3>1 DEF DoneWith
    <3>3. faults' = 0 => \A v \in Threads : thread'[v].pc # "failed"
      BY <2>1, <1>1, <1>2, <1>3 DEF Prompted, Holds
    <3> QED  BY <3>2, <3>3, <2>1, <1>1 DEF Prompted, Holds
  <2> QED  BY <2>1, <2>2, <2>3, <2>4, <2>5, <1>1 DEF Prompted
<1> QED  BY <1>1, <1>4, <1>5, <1>6 DEF ScheduleInv

LEMMA ReplaceStep ==
    ASSUME ScheduleInv, NEW t \in Threads, Replace(t)
    PROVE  ScheduleInv'
<1>1. /\ thread[t].pc = "replace" /\ kind = "prompts"
      /\ UNCHANGED <<tick, memo, kind, time, runs, promised, missed, crossed, faults>>
      /\ thread \in [Threads -> Operations] /\ thread[t] \in Operations /\ file \in Tables
      /\ thread[t].job \in Jobs /\ thread[t].op \in {"create", "delete", "stamp"}
      /\ time \in 0..MaxTime /\ tick.now \in 0..MaxTime /\ tick.now <= time
  <2>1. /\ thread[t].pc = "replace" /\ thread \in [Threads -> Operations] /\ file \in Tables
        /\ time \in 0..MaxTime /\ tick.now \in 0..MaxTime
        /\ UNCHANGED <<tick, memo, kind, time, runs, promised, missed, crossed, faults>>
    BY DEF Replace, ScheduleInv, ScheduleTypes, Ticks
  <2>2. /\ kind = "prompts" /\ thread[t].job \in Jobs /\ thread[t].op \in {"create", "delete", "stamp"}
        /\ tick.now <= time
    BY <2>1 DEF ScheduleInv, Places
  <2> QED  BY <2>1, <2>2
<1>2. PICK r \in Operations :
        /\ thread' = [thread EXCEPT ![t] = r]
        /\ r.op = thread[t].op /\ r.job = thread[t].job
        /\ \/ r.pc = "failed" /\ spare = << >> /\ file' = file /\ spare' = spare
           \/ r.pc = "done" /\ spare # << >> /\ file' = spare[1] /\ spare' = << >>
  <2>1. ASSUME NEW pc \in {"failed", "done"}
        PROVE  /\ [thread[t] EXCEPT !.pc = pc] \in Operations
               /\ [thread[t] EXCEPT !.pc = pc].pc = pc
               /\ [thread[t] EXCEPT !.pc = pc].op = thread[t].op
               /\ [thread[t] EXCEPT !.pc = pc].job = thread[t].job
    BY <1>1 DEF Operations
  <2>2. CASE spare = << >>
    <3>1. thread' = [thread EXCEPT ![t] = [thread[t] EXCEPT !.pc = "failed"]] /\ file' = file /\ spare' = spare
      BY <2>2 DEF Replace
    <3> QED  BY <2>1, <2>2, <3>1
  <2>3. CASE spare # << >>
    <3>1. thread' = [thread EXCEPT ![t] = [thread[t] EXCEPT !.pc = "done"]] /\ file' = spare[1] /\ spare' = << >>
      BY <2>3 DEF Replace
    <3> QED  BY <2>1, <2>3, <3>1
  <2> QED  BY <2>2, <2>3
<1>3. /\ thread' \in [Threads -> Operations] /\ thread'[t] = r
      /\ \A u \in Threads \ {t} : thread'[u] = thread[u]
  BY <1>1, <1>2, ThreadMoves
<1>4. Places'
  <2>1. r.pc # "rest"  BY <1>2
  <2> QED  BY <2>1, <1>1, <1>2, <1>3 DEF ScheduleInv, Places, Threads
<1>5. ScheduleTypes'
  <2>1. file' \in Tables /\ (spare' = << >> \/ \E f \in Tables : spare' = <<f>>)
    <3>1. CASE spare = << >>
      BY <3>1, <1>1, <1>2 DEF ScheduleInv, ScheduleTypes
    <3>2. CASE spare # << >>
      <4>1. PICK f \in Tables : spare = <<f>>
        BY <3>2 DEF ScheduleInv, ScheduleTypes
      <4> QED  BY <4>1, <1>1, <1>2
    <3> QED  BY <3>1, <3>2
  <2>2. UNCHANGED <<tick, memo, kind, time, runs, promised, missed, crossed, faults>>
    BY <1>1
  <2> QED  BY <2>1, <2>2, <1>3 DEF ScheduleInv, ScheduleTypes
<1>6. ASSUME ~crossed'
      PROVE  Prompted' /\ ~missed'
  <2>1. Prompted /\ ~missed
    BY <1>1, <1>6 DEF ScheduleInv
  <2>2. /\ \A u \in Threads \ {t} : ~Writing(u)
        /\ spare = <<thread[t].copy>> /\ Changes(t)
    BY <2>1, <1>1 DEF Prompted, OneWriter, Writing
  <2>3. r.pc = "done" /\ file' = thread[t].copy
    BY <2>2, <1>2
  (* What a change of the file does to each job. *)
  <2>4. /\ r.op = "create" =>
             /\ r.job \notin DOMAIN file /\ r.job \notin DOMAIN tick.listed
             /\ \A n \in 0..MaxTime : runs[r.job][n] = 0
             /\ \A u \in Threads \ {t, Loop} : thread[u].pc # "rest" => thread[u].job # r.job
             /\ DOMAIN file' = DOMAIN file \cup {r.job}
             /\ file'[r.job] \in 0..time
             /\ \A i \in DOMAIN file \ {r.job} : file'[i] = file[i]
        /\ r.op = "delete" =>
             /\ DOMAIN file' = DOMAIN file \ {r.job}
             /\ \A i \in DOMAIN file \ {r.job} : file'[i] = file[i]
        /\ r.op = "stamp" =>
             /\ r.job \in DOMAIN file /\ DOMAIN file' = DOMAIN file /\ t = Loop
             /\ r.job = tick.job /\ tick.pc = "stamping"
             /\ file'[r.job] = tick.now
             /\ \A i \in DOMAIN file \ {r.job} : file'[i] = file[i]
    <3>1. CASE r.op = "create"
      <4>1. PICK n \in 0..time : file' = With(file, r.job, n)
        BY <3>1, <2>2, <2>3, <1>2 DEF Changes
      <4>2. n \in 0..MaxTime /\ file \in Tables /\ r.job \in Jobs
        BY <1>1, <1>2, ScheduleAssumption
      <4>3. /\ DOMAIN file' = DOMAIN file \cup {r.job} /\ file'[r.job] = n
            /\ \A i \in DOMAIN file \ {r.job} : file'[i] = file[i]
        <5>1. PICK k \in Jobs : k = r.job
          BY <4>2
        <5>2. file' = With(file, k, n)
          BY <4>1, <5>1
        <5>3. /\ DOMAIN file' = DOMAIN file \cup {k} /\ file'[k] = n
              /\ \A i \in DOMAIN file \ {k} : file'[i] = file[i]
          BY <4>2, <5>2, WithTable
        <5> QED  BY <5>1, <5>3
      <4>4. /\ r.job \notin DOMAIN file /\ r.job \notin DOMAIN tick.listed
            /\ \A m \in 0..MaxTime : runs[r.job][m] = 0
            /\ \A u \in Threads \ {t, Loop} : thread[u].pc # "rest" => thread[u].job # r.job
        BY <3>1, <2>1, <1>1, <1>2 DEF Prompted, New
      <4> QED  BY <3>1, <4>3, <4>4
    <3>2. CASE r.op = "delete"
      <4>1. file' = Without(file, r.job)
        BY <3>2, <2>2, <2>3, <1>2 DEF Changes
      <4>2. /\ DOMAIN file' = DOMAIN file \ {r.job}
            /\ \A i \in DOMAIN file \ {r.job} : file'[i] = file[i]
        BY <4>1, <1>1, WithoutFacts
      <4> QED  BY <3>2, <4>2
    <3>3. CASE r.op = "stamp"
      <4>1. file' = With(file, r.job, tick.now) /\ r.job \in DOMAIN file
        BY <3>3, <2>2, <2>3, <1>2 DEF Changes
      <4>0. tick.now \in 0..MaxTime /\ file \in Tables /\ r.job \in Jobs
        BY <1>1, <1>2
      <4>2. /\ DOMAIN file' = DOMAIN file \cup {r.job} /\ file'[r.job] = tick.now
            /\ \A i \in DOMAIN file \ {r.job} : file'[i] = file[i]
        BY <4>0, <4>1, WithFacts
      <4>3. t = Loop /\ r.job = tick.job /\ tick.pc = "stamping"
        BY <3>3, <1>1, <1>2 DEF ScheduleInv, Places
      <4> QED  BY <3>3, <4>1, <4>2, <4>3
    <3> QED  BY <3>1, <3>2, <3>3, <1>1, <1>2
  (* What has been stamped up to n, of a job that is listed or has run,    *)
  (* still is.                                                             *)
  <2>5. ASSUME NEW i, NEW n \in 0..MaxTime, Stamps(i, n), n <= tick.now,
               i \in DOMAIN tick.listed \/ \E m \in 0..MaxTime : runs[i][m] # 0
        PROVE  Stamps(i, n)'
    BY <2>4, <2>5, <1>1, <1>2 DEF Stamps
  <2>6. OneWriter'
    BY <2>2, <2>3, <1>3 DEF OneWriter, Writing
  <2>7. New'
    <3> SUFFICES ASSUME NEW u \in Threads, thread'[u].op = "create"
        PROVE  /\ thread'[u].job \notin promised
               /\ \A v \in Threads \ {u, Loop} : thread'[v].pc # "rest" => thread'[v].job # thread'[u].job
               /\ thread'[u].pc # "done" =>
                    /\ thread'[u].job \notin DOMAIN file' \cup DOMAIN tick.listed
                    /\ \A n \in 0..MaxTime : runs[thread'[u].job][n] = 0
      BY <1>1 DEF New
    <3>1. \A v \in Threads : /\ thread'[v].job = thread[v].job
                             /\ thread'[v].op = thread[v].op
                             /\ thread'[v].pc # "rest" => thread[v].pc # "rest"
      BY <1>1, <1>2, <1>3
    <3>2. u = t \/ (u # t /\ thread'[u].pc = thread[u].pc)
      BY <1>3
    <3>3. u # t => thread[u].pc # "rest" /\ u # Loop
      BY <3>1 DEF ScheduleInv, Places
    <3>4. u # t => thread[u].job # r.job \/ r.op = "stamp" \/ thread[u].pc = "done"
      <4>1. CASE r.op = "create"
        BY <4>1, <3>1, <3>3, <1>1, <1>2, <2>1 DEF Prompted, New
      <4>2. CASE r.op = "delete"
        <5>1. t # Loop
          BY <4>2, <1>1, <1>2 DEF ScheduleInv, Places
        <5> QED  BY <4>2, <5>1, <3>1, <1>1, <1>2, <2>1 DEF Prompted, New
      <4> QED  BY <4>1, <4>2, <1>1, <1>2
    <3>5. thread[u].job \notin DOMAIN file /\ u # t => thread[u].job \notin DOMAIN file' \/ thread[u].pc = "done"
      BY <3>4, <2>4, <1>1, <1>2
    <3> QED  BY <3>1, <3>2, <3>5, <1>3, <2>1, <2>3 DEF Prompted, New
  <2>8. Ran'
    <3>1. ASSUME NEW i \in Jobs, NEW n \in 0..MaxTime
          PROVE  /\ runs[i][n] <= 1
                 /\ runs[i][n] > 0 => n <= time /\ Stamps(i, n)' /\ (tick.pc # "asleep" => n <= tick.now)
      <4>1. /\ runs[i][n] <= 1
            /\ runs[i][n] > 0 => n <= time /\ Stamps(i, n) /\ (tick.pc # "asleep" => n <= tick.now)
        BY <2>1 DEF Prompted, Ran
      <4>2. CASE runs[i][n] > 0
        <5>1. r.op = "create" => r.job # i
          BY <4>2, <2>4
        <5>2. r.op = "stamp" => n <= tick.now
          BY <4>1, <4>2, <2>4
        <5>3. Stamps(i, n)'
          BY <4>1, <4>2, <5>1, <5>2, <2>4, <1>1, <1>2 DEF Stamps
        <5> QED  BY <4>1, <5>3
      <4>3. CASE ~(runs[i][n] > 0)
        BY <4>1, <4>3
      <4> QED  BY <4>2, <4>3
    <3> QED  BY <3>1, <2>1, <1>1 DEF Prompted, Ran, AtHand
  <2>9. Looked'
    <3>1. Past(file', time)
      BY <2>1, <2>4, <1>1, <1>2 DEF Prompted, Looked, Past
    <3>2. \A i \in DOMAIN tick.listed : tick.listed[i] \in 0..MaxTime /\ tick.listed[i] <= tick.now
      BY <2>1, TableFacts DEF Prompted, Looked, Past, ScheduleInv, ScheduleTypes, Ticks
    <3>3. \A i \in DOMAIN tick.listed : Stamps(i, tick.listed[i])'
      <4>1. ASSUME NEW i \in DOMAIN tick.listed, NEW n, n = tick.listed[i]
            PROVE  Stamps(i, n)'
        BY <4>1, <2>1, <2>5, <3>2 DEF Prompted, Looked
      <4> QED  BY <4>1, <1>1 DEF Stamps
    <3>4. thread'[Loop].pc = "done" => Stamps(tick.job, tick.now)'
      <4>1. CASE t = Loop
        <5>1. r.op = "stamp"  BY <4>1, <1>1, <1>2 DEF ScheduleInv, Places
        <5> QED  BY <5>1, <2>4, <1>1 DEF Stamps
      <4>2. CASE t # Loop /\ thread'[Loop].pc = "done"
        <5>1. thread[Loop].pc = "done"
          BY <4>2, <1>3 DEF Threads
        <5>2. tick.job \in DOMAIN tick.listed /\ Stamps(tick.job, tick.now)
          BY <5>1, <2>1 DEF Prompted, Looked, ScheduleInv, Places, Threads
        <5> QED  BY <5>2, <2>5, <1>1
      <4> QED  BY <4>1, <4>2
    <3>5. tick.pc # "dead" => \A i \in DOMAIN tick.listed \ tick.todo :
            \/ tick.pc \in {"stamp", "stamping"} /\ i = tick.job
            \/ Stamps(i, tick.now)'
      BY <2>1, <2>5, <1>1 DEF Prompted, Looked
    <3> QED  BY <3>1, <3>3, <3>4, <3>5, <2>1, <1>1 DEF Prompted, Looked, Stamps, Past
  <2>10. Holds'
    <3> SUFFICES ASSUME faults = 0
        PROVE  /\ \A u \in Threads : thread'[u].pc # "failed"
               /\ tick.pc # "dead"
               /\ \A i \in Jobs : i \in DOMAIN file' <=>
                    (i \in promised \/ DoneWith("create", i)') /\ ~DoneWith("delete", i)'
      BY <1>1 DEF Holds
    <3>1. /\ \A u \in Threads : thread'[u].pc # "failed"
          /\ tick.pc # "dead"
      BY <2>1, <2>3, <1>3 DEF Prompted, Holds
    <3>2. ASSUME NEW i \in Jobs, NEW op
          PROVE  DoneWith(op, i)' <=> DoneWith(op, i) \/ (r.op = op /\ r.job = i)
      BY <2>3, <1>1, <1>3 DEF DoneWith
    <3>3. r.op = "create" => ~DoneWith("delete", r.job)
      BY <2>4, <1>1, <1>2 DEF DoneWith, ScheduleInv, Places
    <3>4. ASSUME NEW i \in Jobs
          PROVE  i \in DOMAIN file' <=>
                    (i \in promised \/ DoneWith("create", i)') /\ ~DoneWith("delete", i)'
      <4>1. i \in DOMAIN file <=> (i \in promised \/ DoneWith("create", i)) /\ ~DoneWith("delete", i)
        BY <2>1 DEF Prompted, Holds
      <4>2. i \in DOMAIN file' <=> \/ i \in DOMAIN file /\ ~(r.op = "delete" /\ i = r.job)
                                   \/ r.op = "create" /\ i = r.job
        BY <2>4, <1>1, <1>2
      <4> QED  BY <4>1, <4>2, <3>2, <3>3
    <3> QED  BY <3>1, <3>4
  <2> QED  BY <2>1, <2>6, <2>7, <2>8, <2>9, <2>10, <1>1 DEF Prompted
<1> QED  BY <1>1, <1>4, <1>5, <1>6 DEF ScheduleInv

LEMMA AnswerStep ==
    ASSUME ScheduleInv, NEW t \in Threads, Answer(t)
    PROVE  ScheduleInv'
<1>1. /\ thread[t].pc \in {"done", "failed"} /\ kind = "prompts" /\ t # Loop
      /\ UNCHANGED <<file, spare, tick, memo, kind, time, runs, missed, crossed, faults>>
      /\ thread \in [Threads -> Operations] /\ thread[t] \in Operations
      /\ thread[t].job \in Jobs /\ thread[t].op \in {"create", "delete"}
      /\ thread' = [thread EXCEPT ![t] = Rest]
  <2>1. /\ thread[t].pc \in {"done", "failed"} /\ thread \in [Threads -> Operations] /\ t # Loop
        /\ UNCHANGED <<file, spare, tick, memo, kind, time, runs, missed, crossed, faults>>
        /\ thread' = [thread EXCEPT ![t] = Rest]
    BY ScheduleAssumption DEF Answer, ScheduleInv, ScheduleTypes
  <2>2. kind = "prompts" /\ thread[t].job \in Jobs /\ thread[t].op \in {"create", "delete"}
    BY <2>1 DEF ScheduleInv, Places
  <2> QED  BY <2>1, <2>2
<1>2. /\ thread' \in [Threads -> Operations] /\ thread'[t] = Rest
      /\ \A u \in Threads \ {t} : thread'[u] = thread[u]
  BY <1>1, RestFacts, ThreadMoves
<1>3. \A i \in Jobs : i \in promised' <=>
        \/ i \in promised /\ ~(thread[t].pc = "done" /\ thread[t].op = "delete" /\ i = thread[t].job)
        \/ thread[t].pc = "done" /\ thread[t].op = "create" /\ i = thread[t].job
  BY <1>1 DEF Answer
<1>4. promised' \subseteq Jobs
  BY <1>1 DEF Answer, ScheduleInv, ScheduleTypes
<1>5. ScheduleTypes'
  BY <1>1, <1>2, <1>4 DEF ScheduleInv, ScheduleTypes
<1>6. Places'
  BY <1>1, <1>2, RestFacts DEF ScheduleInv, Places, Threads
<1>7. ASSUME ~crossed'
      PROVE  Prompted' /\ ~missed'
  <2>1. Prompted /\ ~missed
    BY <1>1, <1>7 DEF ScheduleInv
  <2>2. OneWriter'
    BY <2>1, <1>1, <1>2, RestFacts DEF Prompted, OneWriter, Writing, Changes
  <2>3. New'
    <3> SUFFICES ASSUME NEW u \in Threads, thread'[u].op = "create"
        PROVE  /\ thread'[u].job \notin promised'
               /\ \A v \in Threads \ {u, Loop} : thread'[v].pc # "rest" => thread'[v].job # thread'[u].job
               /\ thread'[u].pc # "done" =>
                    /\ thread'[u].job \notin DOMAIN file \cup DOMAIN tick.listed
                    /\ \A n \in 0..MaxTime : runs[thread'[u].job][n] = 0
      BY <1>1 DEF New
    <3>1. u # t /\ thread'[u] = thread[u]
      BY <1>2, RestFacts
    <3>2. thread[u].job # thread[t].job /\ thread[u].job \notin promised
      BY <3>1, <2>1, <1>1 DEF Prompted, New
    <3>3. thread[u].job \in Jobs
      BY <3>1 DEF ScheduleInv, Places
    <3> QED  BY <3>1, <3>2, <3>3, <2>1, <1>2, <1>3, RestFacts DEF Prompted, New
  <2>4. Ran' /\ Looked'
    BY <2>1, <1>1, <1>2, StoreStep
  <2>5. Holds'
    <3> SUFFICES ASSUME faults = 0
        PROVE  /\ \A u \in Threads : thread'[u].pc # "failed"
               /\ tick.pc # "dead"
               /\ \A i \in Jobs : i \in DOMAIN file <=>
                    (i \in promised' \/ DoneWith("create", i)') /\ ~DoneWith("delete", i)'
      BY <1>1 DEF Holds
    <3>1. /\ \A u \in Threads : thread'[u].pc # "failed"
          /\ tick.pc # "dead" /\ thread[t].pc = "done"
      BY <2>1, <1>1, <1>2, RestFacts DEF Prompted, Holds
    <3>2. ASSUME NEW i \in Jobs, NEW op
          PROVE  DoneWith(op, i) <=> DoneWith(op, i)' \/ (thread[t].op = op /\ thread[t].job = i)
      BY <3>1, <1>1, <1>2, RestFacts DEF DoneWith
    (* Nobody else is about to confirm the creation of this job, nor, if   *)
    (* it was created, its deletion.                                       *)
    <3>3. ASSUME NEW i, i = thread[t].job
          PROVE  /\ ~DoneWith("create", i)'
                 /\ thread[t].op = "create" => ~DoneWith("delete", i)'
      <4>1. ASSUME NEW u \in Threads, thread'[u].pc = "done", thread'[u].job = i
            PROVE  thread'[u].op # "create" /\ (thread[t].op = "create" => thread'[u].op # "delete")
        <5>1. u # t /\ thread'[u] = thread[u]
          BY <4>1, <1>2, RestFacts
        <5>2. thread[u].op = "delete" => u # Loop
          BY <5>1, <4>1 DEF ScheduleInv, Places
        <5>3. thread[u].op # "create"
          BY <3>3, <4>1, <5>1, <2>1, <1>1 DEF Prompted, New
        <5>4. thread[t].op = "create" => thread[u].op # "delete"
          BY <3>3, <4>1, <5>1, <5>2, <2>1, <1>1 DEF Prompted, New
        <5> QED  BY <5>1, <5>3, <5>4
      <4> QED  BY <4>1 DEF DoneWith
    <3>4. ASSUME NEW i \in Jobs
          PROVE  i \in DOMAIN file <=>
                    (i \in promised' \/ DoneWith("create", i)') /\ ~DoneWith("delete", i)'
      <4>1. i \in DOMAIN file <=> (i \in promised \/ DoneWith("create", i)) /\ ~DoneWith("delete", i)
        BY <2>1 DEF Prompted, Holds
      <4>2. CASE i # thread[t].job
        BY <4>1, <4>2, <3>2, <1>3
      <4>3. CASE i = thread[t].job /\ thread[t].op = "create"
        BY <4>1, <4>3, <3>1, <3>2, <3>3, <1>3
      <4>4. CASE i = thread[t].job /\ thread[t].op = "delete"
        <5>1. DoneWith("delete", i) /\ i \notin DOMAIN file
          BY <4>1, <4>4, <3>2
        <5>2. i \notin promised' /\ ~DoneWith("create", i)'
          BY <4>4, <3>1, <3>3, <1>3
        <5> QED  BY <5>1, <5>2
      <4> QED  BY <4>2, <4>3, <4>4, <1>1
    <3> QED  BY <3>1, <3>4
  <2> QED  BY <2>1, <2>2, <2>3, <2>4, <2>5, <1>1 DEF Prompted
<1> QED  BY <1>1, <1>5, <1>6, <1>7 DEF ScheduleInv

LEMMA TickBeginsStep ==
    ASSUME ScheduleInv, TickBegins
    PROVE  ScheduleInv'
<1>1. /\ UNCHANGED <<file, spare, thread, memo, kind, time, runs, promised, missed, crossed, faults>>
      /\ tick.pc = "asleep" /\ time \in 0..MaxTime /\ file \in Tables
  BY DEF TickBegins, ScheduleInv, ScheduleTypes
<1>2. PICK jobs : /\ jobs = IF kind = "prompts" THEN file ELSE [j \in Jobs |-> 0]
                  /\ tick' = [pc |-> "next", now |-> time, listed |-> jobs, todo |-> DOMAIN jobs, job |-> 0]
  BY DEF TickBegins
<1>3. jobs \in Tables
  BY <1>1, <1>2, IsTable, ScheduleAssumption
<1>4. /\ tick' \in Ticks /\ tick'.pc = "next" /\ tick'.now = time /\ tick'.listed = jobs
      /\ tick'.todo = DOMAIN jobs
  BY <1>1, <1>2, <1>3, TableFacts DEF Ticks
<1>5. ScheduleTypes'
  BY <1>1, <1>4 DEF ScheduleInv, ScheduleTypes
<1>6. \A t \in Threads : thread[t].pc # "rest" => t # Loop
  BY <1>1 DEF ScheduleInv, Places
<1>7. Places'
  BY <1>1, <1>4, <1>6 DEF ScheduleInv, Places, ScheduleTypes
<1>8. ASSUME kind = "skills"
      PROVE  Remembered' /\ ~missed'
  BY <1>1, <1>4, <1>8 DEF ScheduleInv, Remembered, Past
<1>9. ASSUME kind = "prompts", ~crossed
      PROVE  Prompted' /\ ~missed'
  <2>1. Prompted /\ ~missed /\ jobs = file
    BY <1>2, <1>9 DEF ScheduleInv
  <2>2. OneWriter'
    <3>1. \A t \in Threads : Writing(t) => thread[t].op # "stamp"
      BY <1>1, <1>6 DEF Writing, ScheduleInv, Places
    <3> QED  BY <3>1, <2>1, <1>1 DEF Prompted, OneWriter, Writing, Changes
  <2>3. New'
    BY <2>1, <1>1, <1>4 DEF Prompted, New
  <2>4. Ran'
    <3>1. ASSUME NEW j \in DOMAIN file, file[j] < time
          PROVE  runs[j][time] = 0
      <4>1. j \in Jobs /\ file[j] \in 0..MaxTime /\ time \in 0..MaxTime
        BY <1>1, TableFacts
      <4>2. runs[j][time] \in Nat
        BY <4>1 DEF ScheduleInv, ScheduleTypes
      <4>3. runs[j][time] > 0 => time <= file[j]
        BY <4>1, <2>1 DEF Prompted, Ran, Stamps
      <4> QED  BY <3>1, <4>1, <4>2, <4>3
    <3>2. ASSUME NEW j \in Jobs, NEW n \in 0..MaxTime
          PROVE  /\ runs[j][n] <= 1
                 /\ runs[j][n] > 0 => n <= time /\ Stamps(j, n)
      BY <2>1 DEF Prompted, Ran
    <3> QED  BY <3>1, <3>2, <2>1, <1>1, <1>4 DEF Ran, Stamps, AtHand
  <2>5. Looked'
    <3>1. \A j \in DOMAIN file : file[j] <= time /\ file[j] \in 0..MaxTime
      BY <2>1, <1>1, TableFacts DEF Prompted, Looked, Past
    <3>2. thread[Loop].pc # "done"
      BY <1>6 DEF Threads
    <3> QED  BY <3>1, <3>2, <2>1, <1>1, <1>4 DEF Looked, Stamps, Past
  <2>6. Holds'
    BY <2>1, <1>1, <1>4 DEF Prompted, Holds, DoneWith
  <2> QED  BY <2>1, <2>2, <2>3, <2>4, <2>5, <2>6, <1>1 DEF Prompted
<1> QED  BY <1>1, <1>5, <1>7, <1>8, <1>9 DEF ScheduleInv

LEMMA NextJobStep ==
    ASSUME ScheduleInv, NextJob
    PROVE  ScheduleInv'
<1> DEFINE j == Min(tick.todo)
<1>1. /\ tick.pc = "next" /\ tick.todo # {} /\ tick \in Ticks
      /\ UNCHANGED <<file, spare, thread, kind, time, runs, promised, missed, crossed, faults>>
      /\ tick.now \in 0..MaxTime /\ tick.now <= time /\ time \in 0..MaxTime /\ memo \in Tables
      /\ tick.todo \subseteq DOMAIN tick.listed /\ tick.listed \in Tables
  BY DEF NextJob, ScheduleInv, ScheduleTypes, Ticks, Places
<1>2. /\ IF Due(j) THEN tick' = [tick EXCEPT !.todo = @ \ {j}, !.job = j, !.pc = Then("due")]
         ELSE tick' = [tick EXCEPT !.todo = @ \ {j}]
      /\ memo' = IF kind = "skills" /\ j \notin DOMAIN memo THEN With(memo, j, tick.now) ELSE memo
  BY DEF NextJob
<1>3. j \in tick.todo /\ j \in Jobs /\ j \in Nat
  <2>1. tick.todo \subseteq Jobs /\ tick.todo \in SUBSET Nat
    BY <1>1, ScheduleAssumption DEF Ticks
  <2> QED  BY <2>1, <1>1, FirstOf
<1> HIDE DEF j
<1>4. /\ tick' \in Ticks /\ tick'.now = tick.now /\ tick'.listed = tick.listed
      /\ tick'.todo = tick.todo \ {j}
      /\ Due(j) => tick'.pc = "stamp" /\ tick'.job = j
      /\ ~Due(j) => tick'.pc = "next"
  <2>1. CASE Due(j)
    <3>1. tick' = [tick EXCEPT !.todo = tick.todo \ {j}, !.job = j, !.pc = "stamp"]
      BY <2>1, <1>2 DEF Then
    <3> QED  BY <2>1, <3>1, <1>1, <1>3 DEF Ticks
  <2>2. CASE ~Due(j)
    BY <2>2, <1>1, <1>2, <1>3 DEF Ticks
  <2> QED  BY <2>1, <2>2
<1>5. /\ memo' \in Tables /\ DOMAIN memo \subseteq DOMAIN memo'
      /\ \A i \in DOMAIN memo : memo'[i] = memo[i]
      /\ \A i \in DOMAIN memo' \ DOMAIN memo : i = j /\ memo'[i] = tick.now
      /\ kind = "skills" => j \in DOMAIN memo'
  <2>1. CASE kind = "skills" /\ j \notin DOMAIN memo
    <3>1. memo' = With(memo, j, tick.now)
      BY <2>1, <1>2
    <3>2. /\ memo' \in Tables /\ DOMAIN memo' = DOMAIN memo \cup {j} /\ memo'[j] = tick.now
          /\ \A i \in DOMAIN memo \ {j} : memo'[i] = memo[i]
      <4>1. memo \in Tables /\ tick.now \in 0..MaxTime /\ j \in Jobs
        BY <1>1, <1>3
      <4> QED  BY <3>1, <4>1, WithTable
    <3> QED  BY <2>1, <3>2
  <2>2. CASE ~(kind = "skills" /\ j \notin DOMAIN memo)
    BY <2>2, <1>1, <1>2
  <2> QED  BY <2>1, <2>2
<1>6. ScheduleTypes'
  BY <1>1, <1>4, <1>5 DEF ScheduleInv, ScheduleTypes
<1>7. \A t \in Threads : thread[t].pc # "rest" => t # Loop
  BY <1>1 DEF ScheduleInv, Places
<1>8. Places'
  BY <1>1, <1>3, <1>4, <1>7 DEF ScheduleInv, Places
<1>9. ASSUME kind = "skills"
      PROVE  Remembered' /\ ~missed'
  <2>1. Remembered /\ ~missed
    BY <1>9 DEF ScheduleInv
  <2>2. Due(j) <=> j \in DOMAIN memo /\ memo[j] < tick.now
    BY <1>9 DEF Due
  <2>3. \A i \in DOMAIN memo : memo[i] \in 0..MaxTime
    BY <1>1, TableFacts
  <2>4. Past(memo', time) /\ tick'.pc \notin {"dead", "run"}
    BY <2>1, <1>1, <1>4, <1>5 DEF Remembered, Past
  <2>5. \A i \in Jobs, n \in 0..MaxTime :
          runs[i][n] <= 1 /\ (runs[i][n] > 0 => i \in DOMAIN memo' /\ n <= memo'[i])
    BY <2>1, <1>5 DEF Remembered
  <2>6. tick'.pc = "stamp" => tick'.job = j /\ j \in DOMAIN memo' /\ memo'[j] < tick.now
    BY <2>2, <1>4, <1>5
  <2>7. ASSUME NEW i \in DOMAIN tick.listed \ tick'.todo
        PROVE  \/ tick'.pc = "stamp" /\ i = tick'.job
               \/ i \in DOMAIN memo' /\ tick.now <= memo'[i]
    <3>1. CASE i = j
      BY <3>1, <2>2, <2>3, <1>1, <1>4, <1>5, <1>9
    <3>2. CASE i # j
      <4>1. i \in DOMAIN memo /\ tick.now <= memo[i]
        BY <3>2, <2>1, <1>1, <1>4 DEF Remembered
      <4> QED  BY <4>1, <1>5
    <3> QED  BY <3>1, <3>2
  <2> QED  BY <2>1, <2>4, <2>5, <2>6, <2>7, <1>1, <1>4 DEF Remembered
<1>10. ASSUME kind = "prompts", ~crossed
       PROVE  Prompted' /\ ~missed'
  <2>1. Prompted /\ ~missed
    BY <1>10 DEF ScheduleInv
  <2>2. Due(j) <=> tick.listed[j] < tick.now
    BY <1>10 DEF Due
  <2>3. OneWriter' /\ New'
    BY <2>1, <1>1, <1>4 DEF Prompted, OneWriter, Writing, Changes, New
  <2>4. Ran'
    BY <2>1, <2>2, <1>1, <1>3, <1>4 DEF Prompted, Ran, Stamps, AtHand
  <2>5. Looked'
    <3>1. thread[Loop].pc # "done"
      BY <1>7 DEF Threads
    <3>2. ASSUME NEW i \in DOMAIN tick.listed \ tick'.todo
          PROVE  \/ tick'.pc \in {"stamp", "stamping"} /\ i = tick'.job
                 \/ Stamps(i, tick.now)
      <4>1. CASE i = j /\ ~Due(j)
        <5>1. tick.listed[j] \in 0..MaxTime /\ tick.listed[j] <= tick.now /\ Stamps(j, tick.listed[j])
          BY <2>1, <1>1, <1>3, TableFacts DEF Prompted, Looked, Past
        <5>2. tick.listed[j] = tick.now
          BY <5>1, <4>1, <2>2, <1>1
        <5> QED  BY <5>1, <5>2, <4>1
      <4>2. CASE i = j /\ Due(j)
        BY <4>2, <1>4
      <4>3. CASE i # j
        BY <4>3, <2>1, <1>1, <1>4 DEF Prompted, Looked
      <4> QED  BY <4>1, <4>2, <4>3
    <3> QED  BY <3>1, <3>2, <2>1, <1>1, <1>4 DEF Prompted, Looked, Stamps, Past
  <2>6. Holds'
    BY <2>1, <1>1, <1>4 DEF Prompted, Holds, DoneWith
  <2> QED  BY <2>1, <2>3, <2>4, <2>5, <2>6, <1>1 DEF Prompted
<1> QED  BY <1>1, <1>6, <1>8, <1>9, <1>10 DEF ScheduleInv

LEMMA StampStep ==
    ASSUME ScheduleInv, Stamp
    PROVE  ScheduleInv'
<1>1. /\ tick.pc = "stamp" /\ tick \in Ticks /\ tick.job \in DOMAIN tick.listed \ tick.todo
      /\ UNCHANGED <<file, spare, kind, time, runs, promised, missed, crossed, faults>>
      /\ thread \in [Threads -> Operations] /\ memo \in Tables /\ time \in 0..MaxTime
      /\ tick.now \in 0..MaxTime /\ tick.now <= time /\ tick.job \in Jobs /\ tick.job \in Nat
      /\ kind \in {"prompts", "skills"} /\ Loop \in Threads
  <2>1. /\ tick.pc = "stamp" /\ tick \in Ticks /\ tick.job \in DOMAIN tick.listed \ tick.todo
        /\ UNCHANGED <<file, spare, kind, time, runs, promised, missed, crossed, faults>>
        /\ thread \in [Threads -> Operations] /\ memo \in Tables /\ time \in 0..MaxTime
        /\ tick.now <= time /\ kind \in {"prompts", "skills"} /\ Loop \in Threads
    BY DEF Stamp, ScheduleInv, ScheduleTypes, Places, Threads
  <2>2. tick.now \in 0..MaxTime /\ tick.job \in Nat /\ tick.listed \in Tables
    BY <2>1 DEF Ticks
  <2> QED  BY <2>1, <2>2, TableFacts
<1>2. PICK pc \in {"stamping", "run"} :
        /\ tick' = [tick EXCEPT !.pc = pc]
        /\ kind = "skills" => pc = "run" /\ memo' = With(memo, tick.job, time) /\ thread' = thread
        /\ kind = "prompts" => /\ pc = "stamping" /\ thread[Loop].pc = "rest" /\ memo' = memo
                               /\ Begin(Loop, "stamp", tick.job)
  BY <1>1 DEF Stamp, Then
<1>3. /\ tick' \in Ticks /\ tick'.pc = pc /\ tick'.now = tick.now /\ tick'.listed = tick.listed
      /\ tick'.todo = tick.todo /\ tick'.job = tick.job
  BY <1>1, <1>2 DEF Ticks
<1>4. CASE kind = "skills"
  <2>1. Remembered /\ ~missed /\ \A t \in Threads : thread[t].pc = "rest"
    BY <1>4 DEF ScheduleInv, Places
  <2>2. /\ memo' \in Tables /\ DOMAIN memo' = DOMAIN memo \cup {tick.job} /\ memo'[tick.job] = time
        /\ \A i \in DOMAIN memo \ {tick.job} : memo'[i] = memo[i]
    <3>1. memo' = With(memo, tick.job, time)
      BY <1>2, <1>4
    <3>2. memo \in Tables /\ time \in 0..MaxTime /\ tick.job \in Jobs
      BY <1>1
    <3>3. PICK k \in Jobs, n \in 0..MaxTime : k = tick.job /\ n = time
      BY <3>2
    <3>4. memo \in Tables /\ memo' = With(memo, k, n)
      BY <3>1, <3>2, <3>3
    <3>5. /\ memo' \in Tables /\ DOMAIN memo' = DOMAIN memo \cup {k} /\ memo'[k] = n
          /\ \A i \in DOMAIN memo \ {k} : memo'[i] = memo[i]
      BY <3>4, WithTable
    <3> QED  BY <3>3, <3>5
  <2>3. ScheduleTypes'
    BY <2>2, <1>1, <1>2, <1>3, <1>4 DEF ScheduleInv, ScheduleTypes
  <2>4. Places'
    BY <2>1, <1>1, <1>2, <1>3, <1>4 DEF ScheduleInv, Places
  <2>5. tick.job \in DOMAIN memo /\ memo[tick.job] < tick.now /\ memo[tick.job] \in 0..MaxTime
    BY <2>1, <1>1, TableFacts DEF Remembered
  <2>6. ASSUME NEW i \in Jobs, NEW n \in 0..MaxTime
        PROVE  runs[i][n] <= 1 /\ (runs[i][n] > 0 => i \in DOMAIN memo' /\ n <= memo'[i])
    <3>1. runs[i][n] <= 1 /\ (runs[i][n] > 0 => i \in DOMAIN memo /\ n <= memo[i])
      BY <2>1 DEF Remembered
    <3> QED  BY <3>1, <2>2, <2>5, <1>1, ScheduleAssumption
  <2>7. runs[tick.job][time] = 0
    <3>1. runs[tick.job][time] \in Nat
      BY <1>1 DEF ScheduleInv, ScheduleTypes
    <3>2. runs[tick.job][time] > 0 => time <= memo[tick.job]
      BY <2>1, <1>1 DEF Remembered
    <3> QED  BY <3>1, <3>2, <2>5, <1>1, ScheduleAssumption
  <2>8. Past(memo', time)
    BY <2>1, <2>2, <1>1 DEF Remembered, Past
  <2>9. ASSUME NEW i \in DOMAIN tick.listed \ tick.todo
        PROVE  i \in DOMAIN memo' /\ tick.now <= memo'[i]
    BY <2>1, <2>2, <1>1 DEF Remembered
  <2>10. Remembered'
    BY <2>1, <2>2, <2>6, <2>7, <2>8, <2>9, <1>1, <1>2, <1>3, <1>4 DEF Remembered
  <2> QED  BY <2>1, <2>3, <2>4, <2>10, <1>1, <1>4 DEF ScheduleInv
<1>5. CASE kind = "prompts"
  <2>1. PICK r \in Operations :
          /\ thread' = [thread EXCEPT ![Loop] = r]
          /\ r.pc = "load" /\ r.op = "stamp" /\ r.job = tick.job
    <3>1. [pc |-> "load", op |-> "stamp", job |-> tick.job, copy |-> NoJobs] \in Operations
      BY <1>1, NoJobsFacts DEF Operations
    <3> QED  BY <3>1, <1>2, <1>5 DEF Begin
  <2>2. /\ thread' \in [Threads -> Operations] /\ thread'[Loop] = r
        /\ \A u \in Threads \ {Loop} : thread'[u] = thread[u]
    BY <1>1, <2>1, ThreadMoves
  <2>3. pc = "stamping" /\ memo' = memo /\ thread[Loop].pc = "rest"
    BY <1>2, <1>5
  <2>4. ScheduleTypes'
    BY <2>2, <2>3, <1>1, <1>3 DEF ScheduleInv, ScheduleTypes
  <2>5. Places'
    BY <2>1, <2>2, <2>3, <1>1, <1>3, <1>5 DEF ScheduleInv, Places
  <2>6. ASSUME ~crossed
        PROVE  Prompted' /\ ~missed'
    <3>1. Prompted /\ ~missed
      BY <1>5, <2>6 DEF ScheduleInv
    <3>2. OneWriter'
      BY <3>1, <2>1, <2>2, <1>1, <1>3 DEF Prompted, OneWriter, Writing, Changes
    <3>3. New'
      <4>1. \A u \in Threads : thread'[u].op = "create" => u # Loop /\ thread'[u] = thread[u]
        BY <2>1, <2>2
      <4>2. \A u \in Threads \ {Loop} : thread'[u] = thread[u]
        BY <2>2
      <4> QED  BY <4>1, <4>2, <3>1, <1>1, <1>3 DEF Prompted, New
    <3>4. Ran'
      BY <3>1, <2>3, <1>1, <1>3 DEF Prompted, Ran, Stamps, AtHand
    <3>5. Looked'
      BY <3>1, <2>1, <2>2, <2>3, <1>1, <1>3 DEF Prompted, Looked, Stamps, Past
    <3>6. Holds'
      <4>1. \A u \in Threads : thread'[u].pc \in {"done", "failed"} => thread'[u] = thread[u]
        BY <2>1, <2>2
      <4>2. \A u \in Threads : thread[u].pc = "done" => thread'[u] = thread[u]
        BY <2>2, <2>3
      <4>3. \A op, i : DoneWith(op, i)' <=> DoneWith(op, i)
        BY <4>1, <4>2 DEF DoneWith
      <4> QED  BY <4>1, <4>3, <3>1, <2>3, <1>1, <1>3 DEF Prompted, Holds
    <3> QED  BY <3>1, <3>2, <3>3, <3>4, <3>5, <3>6, <1>1 DEF Prompted
  <2> QED  BY <2>4, <2>5, <2>6, <1>1, <1>5 DEF ScheduleInv
<1> QED  BY <1>1, <1>4, <1>5

LEMMA StampedStep ==
    ASSUME ScheduleInv, Stamped
    PROVE  ScheduleInv'
<1>1. /\ tick.pc = "stamping" /\ thread[Loop].pc \in {"done", "failed"} /\ tick \in Ticks
      /\ UNCHANGED <<file, spare, memo, kind, time, runs, promised, missed, crossed, faults>>
      /\ thread \in [Threads -> Operations] /\ thread' = [thread EXCEPT ![Loop] = Rest]
      /\ Loop \in Threads
  BY DEF Stamped, ScheduleInv, ScheduleTypes, Threads
<1>2. kind = "prompts" /\ thread[Loop].op = "stamp"
  BY <1>1 DEF ScheduleInv, Places
<1>3. PICK pc \in {"dead", "run"} :
        tick' = [tick EXCEPT !.pc = pc] /\ (pc = "dead" <=> thread[Loop].pc = "failed")
  BY <1>1 DEF Stamped, Then
<1>4. /\ tick' \in Ticks /\ tick'.pc = pc /\ tick'.now = tick.now /\ tick'.listed = tick.listed
      /\ tick'.todo = tick.todo /\ tick'.job = tick.job
  BY <1>1, <1>3 DEF Ticks
<1>5. /\ thread' \in [Threads -> Operations] /\ thread'[Loop] = Rest
      /\ \A u \in Threads \ {Loop} : thread'[u] = thread[u]
  BY <1>1, RestFacts, ThreadMoves
<1>6. ScheduleTypes'
  BY <1>1, <1>4, <1>5 DEF ScheduleInv, ScheduleTypes
<1>7. Places'
  BY <1>1, <1>4, <1>5, RestFacts DEF ScheduleInv, Places
<1>8. ASSUME ~crossed
      PROVE  Prompted' /\ ~missed'
  <2>1. Prompted /\ ~missed
    BY <1>2, <1>8 DEF ScheduleInv
  <2>2. OneWriter'
    <3>1. \A u \in Threads : Writing(u)' => u # Loop /\ thread'[u] = thread[u]
      BY <1>5, RestFacts DEF Writing
    <3> QED  BY <3>1, <2>1, <1>1, <1>4 DEF Prompted, OneWriter, Writing, Changes
  <2>3. New'
    <3>1. \A u \in Threads : thread'[u].op = "create" => u # Loop /\ thread'[u] = thread[u]
      BY <1>5, RestFacts
    <3> QED  BY <3>1, <2>1, <1>1, <1>4, <1>5 DEF Prompted, New
  <2>4. Ran'
    BY <2>1, <1>1, <1>4 DEF Prompted, Ran, Stamps, AtHand
  <2>5. Looked'
    <3>1. thread'[Loop].pc # "done"
      BY <1>5, RestFacts
    <3>2. pc # "dead" => Stamps(tick.job, tick.now)
      BY <2>1, <1>1, <1>3 DEF Prompted, Looked
    <3> QED  BY <3>1, <3>2, <2>1, <1>1, <1>4 DEF Prompted, Looked, Stamps, Past
  <2>6. Holds'
    <3>1. \A op \in {"create", "delete"} : \A i : DoneWith(op, i)' <=> DoneWith(op, i)
      BY <1>2, <1>5, RestFacts DEF DoneWith
    <3>2. faults = 0 => /\ pc # "dead" /\ \A u \in Threads : thread'[u].pc # "failed"
      BY <2>1, <1>1, <1>3, <1>5, RestFacts DEF Prompted, Holds
    <3> QED  BY <3>1, <3>2, <2>1, <1>1, <1>4 DEF Prompted, Holds
  <2> QED  BY <2>1, <2>2, <2>3, <2>4, <2>5, <2>6, <1>1 DEF Prompted
<1> QED  BY <1>1, <1>2, <1>6, <1>7, <1>8 DEF ScheduleInv

LEMMA RunStep ==
    ASSUME ScheduleInv, Run
    PROVE  ScheduleInv'
<1> DEFINE n == IF kind = "skills" THEN memo[tick.job] ELSE tick.now
           j == tick.job
<1>1. /\ tick.pc = "run" /\ tick \in Ticks /\ j \in DOMAIN tick.listed \ tick.todo /\ j \in Jobs
      /\ UNCHANGED <<file, spare, thread, memo, kind, time, promised, missed, crossed, faults>>
      /\ tick' = [tick EXCEPT !.pc = "next"] /\ runs' = [runs EXCEPT ![j][n] = @ + 1]
      /\ runs \in [Jobs -> [0..MaxTime -> Nat]] /\ memo \in Tables /\ time \in 0..MaxTime
      /\ tick.now \in 0..MaxTime /\ tick.now <= time /\ kind \in {"prompts", "skills"}
  <2>1. /\ tick.pc = "run" /\ tick \in Ticks /\ j \in DOMAIN tick.listed \ tick.todo
        /\ UNCHANGED <<file, spare, thread, memo, kind, time, promised, missed, crossed, faults>>
        /\ tick' = [tick EXCEPT !.pc = "next"] /\ runs' = [runs EXCEPT ![j][n] = @ + 1]
        /\ runs \in [Jobs -> [0..MaxTime -> Nat]] /\ memo \in Tables /\ time \in 0..MaxTime
        /\ tick.now <= time /\ kind \in {"prompts", "skills"}
    BY DEF Run, Then, ScheduleInv, ScheduleTypes, Places
  <2>2. tick.now \in 0..MaxTime /\ tick.listed \in Tables
    BY <2>1 DEF Ticks
  <2> QED  BY <2>1, <2>2, TableFacts
<1>2. /\ tick' \in Ticks /\ tick'.pc = "next" /\ tick'.now = tick.now /\ tick'.listed = tick.listed
      /\ tick'.todo = tick.todo /\ tick'.job = tick.job
  BY <1>1 DEF Ticks
<1>3. n \in 0..MaxTime
  <2>1. CASE kind = "skills"
    <3>1. j \in DOMAIN memo
      BY <2>1, <1>1 DEF ScheduleInv, Remembered
    <3> QED  BY <2>1, <3>1, <1>1, TableFacts
  <2>2. CASE kind # "skills"
    BY <2>2, <1>1
  <2> QED  BY <2>1, <2>2
<1>4. PICK m \in 0..MaxTime, k \in Jobs : m = n /\ k = j
  BY <1>1, <1>3
<1> HIDE DEF n, j
<1>5. /\ runs' \in [Jobs -> [0..MaxTime -> Nat]]
      /\ runs'[k][m] = runs[k][m] + 1
      /\ \A i \in Jobs, l \in 0..MaxTime : (i # k \/ l # m) => runs'[i][l] = runs[i][l]
  <2>1. /\ runs' = [runs EXCEPT ![k] = [runs[k] EXCEPT ![m] = runs[k][m] + 1]]
        /\ runs \in [Jobs -> [0..MaxTime -> Nat]]
    BY <1>1, <1>4
  <2>2. runs[k] \in [0..MaxTime -> Nat] /\ runs[k][m] + 1 \in Nat
    <3>1. runs[k] \in [0..MaxTime -> Nat]
      BY <2>1
    <3>2. runs[k][m] \in Nat
      BY <3>1
    <3> QED  BY <3>1, <3>2
  <2>3. PICK f \in [0..MaxTime -> Nat] : f = [runs[k] EXCEPT ![m] = runs[k][m] + 1]
    BY <2>2
  <2>4. f[m] = runs[k][m] + 1 /\ \A l \in 0..MaxTime \ {m} : f[l] = runs[k][l]
    BY <2>2, <2>3
  <2>5. runs' = [runs EXCEPT ![k] = f]
    BY <2>1, <2>3
  <2>6. runs' \in [Jobs -> [0..MaxTime -> Nat]] /\ runs'[k] = f /\ \A i \in Jobs \ {k} : runs'[i] = runs[i]
    BY <2>1, <2>5
  <2> QED  BY <2>4, <2>6
<1>6. ScheduleTypes'
  BY <1>1, <1>2, <1>5 DEF ScheduleInv, ScheduleTypes
<1>7. \A t \in Threads : thread[t].pc # "rest" => t # Loop
  BY <1>1 DEF ScheduleInv, Places
<1>8. Places'
  BY <1>1, <1>2, <1>7 DEF ScheduleInv, Places
<1>9. ASSUME kind = "skills"
      PROVE  Remembered' /\ ~missed'
  <2>1. Remembered /\ ~missed
    BY <1>9 DEF ScheduleInv
  <2>2. runs[k][m] = 0 /\ k \in DOMAIN memo /\ m = memo[k]
    BY <2>1, <1>1, <1>4, <1>9 DEF Remembered, n, j
  <2>3. \A i \in Jobs, l \in 0..MaxTime :
          runs'[i][l] <= 1 /\ (runs'[i][l] > 0 => i \in DOMAIN memo /\ l <= memo[i])
    <3> SUFFICES ASSUME NEW i \in Jobs, NEW l \in 0..MaxTime
        PROVE  runs'[i][l] <= 1 /\ (runs'[i][l] > 0 => i \in DOMAIN memo /\ l <= memo[i])
      OBVIOUS
    <3>1. runs[i][l] <= 1 /\ (runs[i][l] > 0 => i \in DOMAIN memo /\ l <= memo[i])
      BY <2>1 DEF Remembered
    <3>2. CASE i = k /\ l = m
      BY <3>2, <2>2, <1>5, ScheduleAssumption
    <3>3. CASE i # k \/ l # m
      BY <3>1, <3>3, <1>5
    <3> QED  BY <3>2, <3>3
  <2>4. \A i \in DOMAIN tick.listed \ tick.todo : i \in DOMAIN memo /\ tick.now <= memo[i]
    BY <2>1, <1>1 DEF Remembered
  <2> QED  BY <2>1, <2>3, <2>4, <1>1, <1>2 DEF Remembered
<1>10. ASSUME kind = "prompts", ~crossed
       PROVE  Prompted' /\ ~missed'
  <2>1. Prompted /\ ~missed
    BY <1>10 DEF ScheduleInv
  <2>2. /\ runs[k][m] = 0 /\ m = tick.now /\ k = tick.job /\ Stamps(k, m)
        /\ k \in DOMAIN tick.listed \ tick.todo
    BY <2>1, <1>1, <1>4, <1>10 DEF Prompted, Ran, Looked, AtHand, n, j
  <2>3. OneWriter'
    BY <2>1, <1>1, <1>2 DEF Prompted, OneWriter, Writing, Changes
  <2>4. New'
    <3>1. \A t \in Threads : thread[t].op = "create" =>
             /\ thread[t].job \in Jobs
             /\ thread[t].pc # "done" => thread[t].job # k
      BY <2>1, <2>2 DEF Prompted, New, ScheduleInv, Places
    <3>2. \A t \in Threads : thread[t].op = "create" /\ thread[t].pc # "done" =>
             \A l \in 0..MaxTime : runs'[thread[t].job][l] = 0
      <4> SUFFICES ASSUME NEW t \in Threads, thread[t].op = "create", thread[t].pc # "done",
                          NEW l \in 0..MaxTime
          PROVE  runs'[thread[t].job][l] = 0
        OBVIOUS
      <4>1. runs[thread[t].job][l] = 0
        BY <2>1 DEF Prompted, New
      <4> QED  BY <4>1, <3>1, <1>5
    <3> QED  BY <3>2, <2>1, <1>1, <1>2 DEF Prompted, New
  <2>5. Ran'
    <3>1. ASSUME NEW i \in Jobs, NEW l \in 0..MaxTime
          PROVE  /\ runs'[i][l] <= 1
                 /\ runs'[i][l] > 0 => l <= time /\ Stamps(i, l) /\ l <= tick.now
      <4>1. /\ runs[i][l] <= 1
            /\ runs[i][l] > 0 => l <= time /\ Stamps(i, l) /\ l <= tick.now
        BY <2>1, <1>1 DEF Prompted, Ran
      <4>2. CASE i = k /\ l = m
        <5>1. runs'[k][m] = 1
          BY <2>2, <1>5
        <5>2. m <= time /\ m <= tick.now /\ Stamps(k, m)
          BY <2>2, <1>1, ScheduleAssumption
        <5> QED  BY <4>2, <5>1, <5>2
      <4>3. CASE i # k \/ l # m
        BY <4>1, <4>3, <1>5
      <4> QED  BY <4>2, <4>3
    <3>2. \A i \in tick.todo : tick.listed[i] < tick.now => runs'[i][tick.now] = 0
      <4>1. \A i \in tick.todo : i \in DOMAIN tick.listed /\ i \in Jobs /\ i # k
        BY <2>2, <1>1 DEF ScheduleInv, Places, Ticks
      <4> QED  BY <4>1, <2>1, <1>1, <1>5 DEF Prompted, Ran
    <3> QED  BY <3>1, <3>2, <1>1, <1>2 DEF Ran, Stamps, AtHand
  <2>6. Looked'
    BY <2>1, <1>1, <1>2 DEF Prompted, Looked, Stamps, Past
  <2>7. Holds'
    BY <2>1, <1>1, <1>2 DEF Prompted, Holds, DoneWith
  <2> QED  BY <2>1, <2>3, <2>4, <2>5, <2>6, <2>7, <1>1 DEF Prompted
<1> QED  BY <1>1, <1>6, <1>8, <1>9, <1>10 DEF ScheduleInv

LEMMA TickEndsStep ==
    ASSUME ScheduleInv, TickEnds
    PROVE  ScheduleInv'
<1>1. /\ tick.pc = "next" /\ tick.todo = {} /\ tick \in Ticks /\ tick.now \in 0..MaxTime
      /\ UNCHANGED <<file, spare, thread, memo, kind, time, runs, promised, crossed, faults>>
      /\ tick' = [Asleep EXCEPT !.now = tick.now]
      /\ tick.listed \in Tables /\ memo \in Tables /\ file \in Tables
  BY DEF TickEnds, ScheduleInv, ScheduleTypes, Ticks
<1>2. /\ tick' \in Ticks /\ tick'.pc = "asleep" /\ tick'.now = tick.now /\ tick'.listed = NoJobs
      /\ tick'.todo = {}
  BY <1>1, RestFacts DEF Ticks
<1>3. ScheduleTypes'
  BY <1>1, <1>2 DEF ScheduleInv, ScheduleTypes
<1>4. \A t \in Threads : thread[t].pc # "rest" => t # Loop
  BY <1>1 DEF ScheduleInv, Places
<1>5. Places'
  BY <1>1, <1>2, <1>4 DEF ScheduleInv, Places
<1>6. ASSUME kind = "skills"
      PROVE  Remembered' /\ ~missed'
  <2>1. Remembered /\ ~missed
    BY <1>6 DEF ScheduleInv
  <2>2. \A j \in DOMAIN tick.listed \cap DOMAIN memo : ~(memo[j] < tick.now)
    <3>1. \A j \in DOMAIN tick.listed \cap DOMAIN memo : memo[j] \in 0..MaxTime /\ tick.now <= memo[j]
      BY <2>1, <1>1, TableFacts DEF Remembered
    <3> QED  BY <3>1, <1>1, ScheduleAssumption
  <2>3. ~missed'
    BY <2>1, <2>2, <1>6 DEF TickEnds
  <2> QED  BY <2>1, <2>3, <1>1, <1>2, NoJobsFacts DEF Remembered
<1>7. ASSUME kind = "prompts", ~crossed
      PROVE  Prompted' /\ ~missed'
  <2>1. Prompted /\ ~missed
    BY <1>7 DEF ScheduleInv
  <2>2. ~missed'
    <3>1. \A j \in DOMAIN tick.listed \cap DOMAIN file : file[j] \in 0..MaxTime /\ tick.now <= file[j]
      BY <2>1, <1>1, TableFacts DEF Prompted, Looked, Stamps
    <3>2. \A j \in DOMAIN tick.listed \cap DOMAIN file : ~(file[j] < tick.now)
      BY <3>1, <1>1, ScheduleAssumption
    <3> QED  BY <2>1, <3>2, <1>7 DEF TickEnds
  <2>3. OneWriter'
    BY <2>1, <1>1, <1>2 DEF Prompted, OneWriter, Writing, Changes
  <2>4. New'
    BY <2>1, <1>1, <1>2, NoJobsFacts DEF Prompted, New
  <2>5. Ran'
    BY <2>1, <1>1, <1>2, NoJobsFacts DEF Prompted, Ran, Stamps, AtHand
  <2>6. Looked'
    <3>1. thread[Loop].pc # "done"
      BY <1>4 DEF Threads
    <3> QED  BY <3>1, <2>1, <1>1, <1>2, NoJobsFacts DEF Prompted, Looked, Stamps, Past
  <2>7. Holds'
    BY <2>1, <1>1, <1>2 DEF Prompted, Holds, DoneWith
  <2> QED  BY <2>2, <2>3, <2>4, <2>5, <2>6, <2>7 DEF Prompted
<1> QED  BY <1>1, <1>3, <1>5, <1>6, <1>7 DEF ScheduleInv

LEMMA TimePassesStep ==
    ASSUME ScheduleInv, TimePasses
    PROVE  ScheduleInv'
<1>1. /\ UNCHANGED <<file, spare, thread, tick, memo, kind, runs, promised, missed, crossed, faults>>
      /\ time \in 0..MaxTime /\ time' = time + 1 /\ time' \in 0..MaxTime
      /\ tick.now \in 0..MaxTime /\ tick.now <= time /\ file \in Tables /\ memo \in Tables
  BY ScheduleAssumption DEF TimePasses, ScheduleInv, ScheduleTypes, Places, Ticks
<1>2. ScheduleTypes'
  BY <1>1 DEF ScheduleInv, ScheduleTypes
<1>3. Places'
  <2>1. tick.now <= time'
    BY <1>1, ScheduleAssumption
  <2> QED  BY <2>1, <1>1 DEF ScheduleInv, Places
<1>4. \A f \in Tables : Past(f, time) => Past(f, time')
  <2> SUFFICES ASSUME NEW f \in Tables, NEW j \in DOMAIN f, f[j] <= time
      PROVE  f[j] <= time'
    BY DEF Past
  <2> QED  BY <1>1, TableFacts, ScheduleAssumption
<1>5. ASSUME kind = "skills"
      PROVE  Remembered' /\ ~missed'
  <2>1. Past(memo, time')
    BY <1>1, <1>4, <1>5 DEF ScheduleInv, Remembered
  <2>2. Past(memo, time)' <=> Past(memo, time')
    BY <1>1 DEF Past
  <2> QED  BY <2>1, <2>2, <1>1, <1>5 DEF ScheduleInv, Remembered
<1>6. ASSUME kind = "prompts", ~crossed
      PROVE  Prompted' /\ ~missed'
  <2>1. Prompted /\ ~missed
    BY <1>6 DEF ScheduleInv
  <2>2. OneWriter'
    <3>1. \A n \in 0..time : n \in 0..time'
      BY <1>1, ScheduleAssumption
    <3>2. \A t \in Threads : Changes(t) => Changes(t)'
      BY <3>1, <1>1 DEF Changes
    <3> QED  BY <3>2, <2>1, <1>1 DEF Prompted, OneWriter, Writing
  <2>3. New' /\ Holds'
    BY <2>1, <1>1 DEF Prompted, New, Holds, DoneWith
  <2>4. Ran'
    <3>1. \A n \in 0..MaxTime : n <= time => n <= time'
      BY <1>1, ScheduleAssumption
    <3> QED  BY <3>1, <2>1, <1>1 DEF Prompted, Ran, Stamps, AtHand
  <2>5. Looked'
    <3>1. Past(file, time')
      BY <2>1, <1>1, <1>4 DEF Prompted, Looked
    <3>2. Past(file, time)' <=> Past(file, time')
      BY <1>1 DEF Past
    <3>3. Past(tick.listed, tick.now)' <=> Past(tick.listed, tick.now)
      BY <1>1 DEF Past
    <3> QED  BY <3>1, <3>2, <3>3, <2>1, <1>1 DEF Prompted, Looked, Stamps
  <2> QED  BY <2>1, <2>2, <2>3, <2>4, <2>5, <1>1 DEF Prompted
<1> QED  BY <1>1, <1>2, <1>3, <1>5, <1>6 DEF ScheduleInv

LEMMA RestartStep ==
    ASSUME ScheduleInv, Restart
    PROVE  ScheduleInv'
<1>1. /\ UNCHANGED <<file, spare, kind, time, runs, missed, crossed>>
      /\ thread' = [t \in Threads |-> Rest] /\ tick' = Asleep
      /\ faults' \in Nat /\ faults' # 0 /\ promised' \subseteq promised
      /\ memo' = IF kind = "skills" THEN [j \in Jobs |-> time] ELSE memo
      /\ time \in 0..MaxTime /\ memo \in Tables
  BY ScheduleAssumption DEF Restart, Fault, ScheduleInv, ScheduleTypes
<1>2. memo' \in Tables
  BY <1>1, IsTable
<1>3. /\ thread' \in [Threads -> Operations]
      /\ \A t \in Threads : thread'[t].pc = "rest" /\ thread'[t].op = "none"
  BY <1>1, RestFacts
<1>4. ScheduleTypes'
  BY <1>1, <1>2, <1>3, RestFacts DEF ScheduleInv, ScheduleTypes
<1>5. Places'
  <2>1. tick'.now <= time'
    BY <1>1, RestFacts, ScheduleAssumption
  <2> QED  BY <2>1, <1>1, <1>3, RestFacts, NoJobsFacts DEF ScheduleInv, Places
<1>6. ASSUME kind = "skills"
      PROVE  Remembered' /\ ~missed'
  <2>1. Remembered /\ ~missed
    BY <1>6 DEF ScheduleInv
  <2>2. DOMAIN memo' = Jobs /\ \A j \in Jobs : memo'[j] = time
    BY <1>1, <1>6
  <2>3. \A j \in Jobs, n \in 0..MaxTime : runs[j][n] > 0 => n <= time
    <3> SUFFICES ASSUME NEW j \in Jobs, NEW n \in 0..MaxTime, runs[j][n] > 0
        PROVE  n <= time
      OBVIOUS
    <3>1. j \in DOMAIN memo /\ n <= memo[j] /\ memo[j] <= time /\ memo[j] \in 0..MaxTime
      BY <2>1, <1>1, TableFacts DEF Remembered, Past
    <3> QED  BY <3>1, <1>1, ScheduleAssumption
  <2>4. Past(memo', time')
    BY <2>2, <1>1 DEF Past
  <2>5. promised' = {}
    BY <2>1, <1>1 DEF Remembered
  <2> QED  BY <2>1, <2>2, <2>3, <2>4, <2>5, <1>1, RestFacts, NoJobsFacts DEF Remembered
<1>7. ASSUME kind = "prompts", ~crossed
      PROVE  Prompted' /\ ~missed'
  <2>1. Prompted /\ ~missed
    BY <1>7 DEF ScheduleInv
  <2>2. OneWriter' /\ New'
    BY <1>3 DEF OneWriter, New, Writing
  <2>3. Ran'
    <3>1. ASSUME NEW j \in Jobs, NEW n \in 0..MaxTime
          PROVE  /\ runs[j][n] <= 1
                 /\ runs[j][n] > 0 => n <= time /\ Stamps(j, n)
      BY <2>1 DEF Prompted, Ran
    <3> QED  BY <3>1, <1>1, RestFacts, NoJobsFacts DEF Ran, Stamps, AtHand
  <2>4. Looked'
    <3>1. Past(file, time)
      BY <2>1 DEF Prompted, Looked
    <3>2. thread'[Loop].pc # "done"
      BY <1>3 DEF Threads
    <3> QED  BY <3>1, <3>2, <1>1, RestFacts, NoJobsFacts DEF Looked, Stamps, Past
  <2>5. Holds'
    BY <1>1 DEF Holds
  <2> QED  BY <2>1, <2>2, <2>3, <2>4, <2>5, <1>1 DEF Prompted
<1> QED  BY <1>1, <1>4, <1>5, <1>6, <1>7 DEF ScheduleInv

LEMMA ScheduleStep ==
    ASSUME ScheduleInv, [ScheduleNext]_scheduleVars
    PROVE  ScheduleInv'
<1>1. CASE UNCHANGED scheduleVars
  <2>1. UNCHANGED <<file, spare, thread, tick, memo, kind, time, runs, promised, missed, crossed, faults>>
    BY <1>1 DEF scheduleVars
  <2>2. ScheduleTypes' /\ Places'
    BY <2>1 DEF ScheduleInv, ScheduleTypes, Places
  <2>3. Remembered => Remembered'
    BY <2>1 DEF Remembered, Past
  <2>4. OneWriter => OneWriter'
    BY <2>1 DEF OneWriter, Writing, Changes
  <2>5. New /\ Ran => New' /\ Ran'
    BY <2>1 DEF New, Ran, Stamps, AtHand
  <2>6. Looked /\ Holds => Looked' /\ Holds'
    BY <2>1 DEF Looked, Holds, Stamps, Past, DoneWith
  <2> QED  BY <2>1, <2>2, <2>3, <2>4, <2>5, <2>6 DEF ScheduleInv, Prompted
<1>2. CASE ScheduleNext
  <2>1. ASSUME NEW t \in Threads, Call(t) \/ Load(t) \/ WriteCopy(t) \/ Replace(t) \/ Answer(t)
        PROVE  ScheduleInv'
    BY <2>1, ToolCallStep, LoadStep, WriteCopyStep, ReplaceStep, AnswerStep
  <2> QED  BY <1>2, <2>1, TickBeginsStep, NextJobStep, StampStep, StampedStep, RunStep, TickEndsStep,
              TimePassesStep, RestartStep DEF ScheduleNext
<1> QED  BY <1>1, <1>2

(* What the properties below follow from holds always, for any jobs, tool  *)
(* threads, calls, time units and faults (telegram/scheduler.py).          *)
THEOREM ScheduleInvariance == ScheduleSpec => []ScheduleInv
<1>1. ScheduleInit => ScheduleInv
  BY ScheduleInitially
<1>2. ScheduleInv /\ [ScheduleNext]_scheduleVars => ScheduleInv'
  BY ScheduleStep
<1> QED  BY <1>1, <1>2, PTL DEF ScheduleSpec

(* A job runs once for what it was due for, wherever the process ends, and *)
(* while no two operations of the store overlap and none fails, no job is  *)
(* lost and none that was due is passed over (_execute_job,                *)
(* TelegramScheduleStore).                                                 *)
THEOREM RunsEveryJobOnce == ScheduleSpec => []JobsRunOnce
<1>1. ScheduleInv => JobsRunOnce
  <2> SUFFICES ASSUME ScheduleInv PROVE JobsRunOnce  OBVIOUS
  <2>1. kind \in {"prompts", "skills"}
    BY DEF ScheduleInv, ScheduleTypes
  <2>2. RunsOnce
    BY <2>1 DEF ScheduleInv, Remembered, Prompted, Ran, RunsOnce
  <2>3. CASE kind = "skills"
    <3>1. DOMAIN file = promised /\ ~missed /\ tick.pc # "dead"
      BY <2>3, NoJobsFacts DEF ScheduleInv, Remembered
    <3> QED  BY <3>1, <2>2 DEF JobsRunOnce, JobsAreKept
  <2>4. CASE kind = "prompts" /\ ~crossed /\ faults = 0
    <3>1. Holds /\ ~missed
      BY <2>4 DEF ScheduleInv, Prompted
    <3>2. DOMAIN file \subseteq Jobs /\ promised \subseteq Jobs
      BY TableFacts DEF ScheduleInv, ScheduleTypes
    <3>3. ASSUME \A t \in Tools : thread[t].pc = "rest"
          PROVE  DOMAIN file = promised
      <4>1. \A op \in {"create", "delete"} : \A j : ~DoneWith(op, j)
        BY <3>3 DEF DoneWith, Threads, ScheduleInv, Places
      <4> QED  BY <4>1, <3>1, <3>2, <2>4 DEF Holds
    <3> QED  BY <3>1, <3>3, <2>2, <2>4 DEF JobsRunOnce, JobsAreKept, Holds
  <2>5. CASE crossed \/ faults # 0
    BY <2>5, <2>2 DEF JobsRunOnce, JobsAreKept
  <2> QED  BY <2>1, <2>3, <2>4, <2>5
<1> QED  BY <1>1, ScheduleInvariance, PTL

=============================================================================
