------------------------ MODULE SessionCommitProofs -------------------------
(***************************************************************************)
(* Theorems about SessionCommit, for any number of processes and turns and *)
(* any bound on the attempts.                                              *)
(***************************************************************************)
EXTENDS SessionCommit, SequenceTheorems, TLAPS

LiveType == [usage : Nat, calls : Seq(Turns), reviewed : Nat]

-----------------------------------------------------------------------------
(* Records and sequences *)

LEMMA FreshState ==
    Fresh \in States /\ Summarises(Fresh) /\ Attributes(Fresh) \in LiveType
BY EmptySeq DEF Fresh, States, Summarises, IsPrefixOf, Attributes, LiveType

LEMMA AttributesType ==
    ASSUME NEW s \in States PROVE Attributes(s) \in LiveType
BY DEF States, Attributes, LiveType

LEMMA TwoFields ==
    ASSUME NEW r \in LiveType, NEW u \in Nat, NEW c \in Seq(Turns)
    PROVE  [r EXCEPT !.usage = u, !.calls = c] \in LiveType
BY DEF LiveType

LEMMA RevField ==
    ASSUME NEW s \in States, NEW r \in Nat
    PROVE  /\ [s EXCEPT !.rev = r] \in States
           /\ [s EXCEPT !.rev = r].rev = r
           /\ [s EXCEPT !.rev = r].turns = s.turns
           /\ [s EXCEPT !.rev = r].ckpt = s.ckpt
BY DEF States

FourFields(s, m, u, c, r) ==
    [s EXCEPT !.turns = m, !.usage = u, !.calls = c, !.reviewed = r]

FiveFields(s, m, k, u, c, r) ==
    [s EXCEPT !.turns = m, !.ckpt = k, !.usage = u, !.calls = c, !.reviewed = r]

LEMMA StateFields ==
    ASSUME NEW s \in States, NEW m \in Seq(Turns), NEW k \in Seq(Turns),
           NEW u \in Nat, NEW c \in Seq(Turns), NEW r \in Nat
    PROVE  FourFields(s, m, u, c, r) \in States /\ FiveFields(s, m, k, u, c, r) \in States
<1>1. \A x \in States : [x EXCEPT !.turns = m] \in States  BY DEF States
<1>2. \A x \in States : [x EXCEPT !.ckpt = k] \in States  BY DEF States
<1>3. \A x \in States : [x EXCEPT !.usage = u] \in States  BY DEF States
<1>4. \A x \in States : [x EXCEPT !.calls = c] \in States  BY DEF States
<1>5. \A x \in States : [x EXCEPT !.reviewed = r] \in States  BY DEF States
<1>6. [[[[[s EXCEPT !.turns = m] EXCEPT !.ckpt = k] EXCEPT !.usage = u]
         EXCEPT !.calls = c] EXCEPT !.reviewed = r] \in States
  BY <1>1, <1>2, <1>3, <1>4, <1>5
<1>7. [[[[s EXCEPT !.turns = m] EXCEPT !.usage = u] EXCEPT !.calls = c]
         EXCEPT !.reviewed = r] \in States
  BY <1>1, <1>3, <1>4, <1>5
<1> QED  BY <1>6, <1>7 DEF FourFields, FiveFields

LEMMA DropType ==
    ASSUME NEW s \in Seq(Turns), NEW n \in Nat
    PROVE  Drop(s, n) \in Seq(Turns)
BY DEF Drop

(* Dropping what a draft was opened on leaves its own turn. *)
LEMMA DropAppend ==
    ASSUME NEW s \in Seq(Turns), NEW t \in Turns, NEW base \in Seq(Turns)
    PROVE  base \o Drop(Append(s, t), Len(s)) = Append(base, t)
BY DEF Drop

LEMMA PrefixReflexive ==
    ASSUME NEW s \in Seq(Turns) PROVE IsPrefixOf(s, s)
BY DEF IsPrefixOf

LEMMA PrefixTransitive ==
    ASSUME NEW r \in Seq(Turns), NEW s \in Seq(Turns), NEW t \in Seq(Turns),
           IsPrefixOf(r, s), IsPrefixOf(s, t)
    PROVE  IsPrefixOf(r, t)
BY DEF IsPrefixOf

LEMMA PrefixAppend ==
    ASSUME NEW r \in Seq(Turns), NEW s \in Seq(Turns), NEW t \in Turns,
           IsPrefixOf(r, s)
    PROVE  IsPrefixOf(r, Append(s, t))
BY DEF IsPrefixOf

(* An incremental checkpoint is the prefix it covers. *)
LEMMA CheckpointExtends ==
    ASSUME NEW c \in Seq(Turns), NEW s \in Seq(Turns), IsPrefixOf(c, s),
           NEW k \in Nat, k <= Len(s), Len(c) < k
    PROVE  /\ c \o Drop(SubSeq(s, 1, k), Len(c)) \in Seq(Turns)
           /\ IsPrefixOf(c \o Drop(SubSeq(s, 1, k), Len(c)), s)
<1> DEFINE u == SubSeq(s, 1, k)
           d == Drop(u, Len(c))
<1>0. c \o Drop(SubSeq(s, 1, k), Len(c)) = c \o d
  OBVIOUS
<1>1. u \in Seq(Turns) /\ Len(u) = k /\ \A i \in 1..k : u[i] = s[i]
  OBVIOUS
<1> HIDE DEF u
<1>2. /\ d \in Seq(Turns) /\ Len(d) = k - Len(c)
      /\ \A i \in 1..(k - Len(c)) : d[i] = u[i + Len(c)]
  BY <1>1 DEF Drop
<1> HIDE DEF d
<1>3. /\ c \o d \in Seq(Turns) /\ Len(c \o d) = k
      /\ \A i \in 1..k : (c \o d)[i] = IF i <= Len(c) THEN c[i] ELSE d[i - Len(c)]
  BY <1>2
<1>4. \A i \in 1..k : (c \o d)[i] = s[i]
  <2> SUFFICES ASSUME NEW i \in 1..k PROVE (c \o d)[i] = s[i]
    OBVIOUS
  <2>0. Len(c) \in Nat /\ i \in Nat /\ i <= k
    OBVIOUS
  <2>1. CASE i <= Len(c)
    BY <1>3, <2>0, <2>1 DEF IsPrefixOf
  <2>2. CASE ~(i <= Len(c))
    <3>1. i - Len(c) \in 1..(k - Len(c)) /\ (i - Len(c)) + Len(c) = i
      BY <2>0, <2>2
    <3>2. d[i - Len(c)] = u[i]  BY <1>2, <3>1
    <3>3. (c \o d)[i] = d[i - Len(c)]  BY <1>3, <2>2
    <3> QED  BY <1>1, <3>2, <3>3
  <2> QED  BY <2>1, <2>2
<1>5. IsPrefixOf(c \o d, s)
  BY <1>3, <1>4 DEF IsPrefixOf
<1> QED  BY <1>0, <1>3, <1>5

-----------------------------------------------------------------------------
(* Types *)

LEMMA InitIInv == Init => IInv
<1> SUFFICES ASSUME Init PROVE IInv
  OBVIOUS
<1> USE FreshState
<1>1. TypeOK
  BY MaxAttemptsAssumption DEF Init, TypeOK, LiveType, Places, Outcomes
<1>2. TurnInv /\ DraftInv /\ CandInv
  BY NoTurnAssumption DEF Init, TurnInv, DraftInv, CandInv, InProgress
<1>3. MemInv /\ RollbackIsComplete
  <2>1. store = Fresh /\ \A p \in Procs : mem[p] = Fresh /\ live[p] = Attributes(Fresh)
    BY DEF Init
  <2>2. Fresh.rev <= Fresh.rev
    BY DEF Fresh
  <2>3. MemInv
    BY <2>1, <2>2 DEF MemInv
  <2>4. RollbackIsComplete
    BY <2>1 DEF RollbackIsComplete
  <2> QED  BY <2>3, <2>4
<1>4. CkptInv
  BY DEF Init, CkptInv
<1>5. AnswersAreDurable /\ CommittedOnce
  BY DEF Init, AnswersAreDurable, CommittedOnce, Persisted, Fresh
<1>6. CallsInv /\ UsageIsExact
  <2>1. Settled(Fresh) /\ Follows(Fresh)
    BY EmptySeq DEF Settled, Follows, Fresh, IsPrefixOf, Init
  <2> QED  BY <2>1 DEF Init, CallsInv, UsageIsExact, Fresh
<1> QED  BY <1>1, <1>2, <1>3, <1>4, <1>5, <1>6 DEF IInv

(* A step that ends a turn without a commit. *)
LEMMA EndTurnType ==
    ASSUME TypeOK, NEW p \in Procs, turn[p] \in Turns,
           NEW end \in Outcomes, EndTurn(p, end)
    PROVE  TypeOK'
<1>1. live' \in [Procs -> LiveType]
  BY AttributesType DEF TypeOK, LiveType, EndTurn, RestoreAttributes
<1>2. /\ draft' \in [Procs -> States] /\ cand' \in [Procs -> States]
      /\ attempt' \in [Procs -> 0..MaxAttempts]
      /\ turn' \in [Procs -> Turns \cup {NoTurn}]
      /\ pc' \in [Procs -> Places]
  BY FreshState, MaxAttemptsAssumption DEF TypeOK, EndTurn, Return, Places
<1>3. outcome' \in [Turns -> Outcomes]
  BY DEF TypeOK, EndTurn
<1> QED  BY <1>1, <1>2, <1>3 DEF TypeOK, EndTurn, LiveType

LEMMA TypeStep ==
    ASSUME IInv, [Next]_vars PROVE TypeOK'
<1> USE DEF LiveType
<1>1. TypeOK /\ TurnInv  BY DEF IInv
<1>2. /\ store \in States
      /\ \A p \in Procs :
           /\ mem[p] \in States /\ draft[p] \in States /\ cand[p] \in States
           /\ live[p] \in LiveType /\ attempt[p] \in 0..MaxAttempts
  BY <1>1 DEF TypeOK
<1>3. ASSUME NEW p \in Procs, pc[p] \in InProgress PROVE turn[p] \in Turns
  BY <1>1, <1>3 DEF TurnInv
<1>4. ASSUME NEW p \in Procs, NEW t \in Turns, StartTurn(p, t) PROVE TypeOK'
  <2>1. live' \in [Procs -> LiveType] /\ draft' \in [Procs -> States]
        /\ pc' \in [Procs -> Places]
    <3>1. mem[p] \in States /\ Attributes(mem[p]) \in LiveType
      BY <1>2, AttributesType
    <3>2. CASE pc' = [pc EXCEPT ![p] = "adopt"] /\ UNCHANGED <<draft, live>>
      BY <1>1, <3>2 DEF TypeOK, Places
    <3>3. CASE OpenDraft(p, mem[p])
      BY <1>1, <3>1, <3>3 DEF OpenDraft, TypeOK, Places
    <3> QED  BY <1>4, <3>2, <3>3 DEF StartTurn
  <2>2. outcome' \in [Turns -> Outcomes] /\ turn' \in [Procs -> Turns \cup {NoTurn}]
    BY <1>1, <1>4 DEF StartTurn, TypeOK, Outcomes
  <2> QED  BY <1>1, <1>4, <2>1, <2>2 DEF StartTurn, TypeOK
<1>5. ASSUME NEW p \in Procs, Adopt(p) PROVE TypeOK'
  <2>1. mem' \in [Procs -> States] /\ mem'[p] \in States
    BY <1>1, <1>2, <1>5 DEF Adopt, TypeOK
  <2>2. live' \in [Procs -> LiveType] /\ draft' \in [Procs -> States]
        /\ pc' \in [Procs -> Places]
    BY <1>1, <1>5, <2>1, AttributesType DEF Adopt, OpenDraft, TypeOK, Places
  <2> QED  BY <1>1, <1>5, <2>1, <2>2 DEF Adopt, History, TypeOK
<1>6. ASSUME NEW p \in Procs, PromptBlocked(p) PROVE TypeOK'
  BY <1>1, <1>3, <1>6, EndTurnType DEF PromptBlocked, InProgress, Outcomes
<1>7. ASSUME NEW p \in Procs, TurnFails(p) PROVE TypeOK'
  BY <1>1, <1>3, <1>7, EndTurnType DEF TurnFails, InProgress, Outcomes
<1>8. ASSUME NEW p \in Procs, SaveFails(p) PROVE TypeOK'
  BY <1>1, <1>3, <1>8, EndTurnType DEF SaveFails, InProgress, Outcomes
<1>9. ASSUME NEW p \in Procs, Diverged(p) PROVE TypeOK'
  BY <1>1, <1>3, <1>9, EndTurnType DEF Diverged, InProgress, Outcomes
<1>10. ASSUME NEW p \in Procs, PrepareContext(p) PROVE TypeOK'
  <2>1. pc' \in [Procs -> Places]
    BY <1>1, <1>10 DEF PrepareContext, TypeOK, Places
  <2>2. CASE UNCHANGED <<draft, live>>
    BY <1>1, <1>10, <2>1, <2>2 DEF PrepareContext, History, TypeOK
  <2>3. CASE /\ Coverage(p) > Len(draft[p].ckpt)
             /\ draft' = [draft EXCEPT ![p].ckpt = NewCheckpoint(p)]
             /\ live' = [live EXCEPT ![p].reviewed = Len(draft[p].turns) + 1]
    <3>1. NewCheckpoint(p) \in Seq(Turns)
      <4>1. draft[p].ckpt \in Seq(Turns) /\ draft[p].turns \in Seq(Turns)
        BY <1>2 DEF States
      <4>2. Coverage(p) \in Nat /\ Coverage(p) <= Len(draft[p].turns)
        BY <4>1, PreserveAssumption DEF Coverage
      <4>3. SubSeq(draft[p].turns, 1, Coverage(p)) \in Seq(Turns)
        BY <4>1, <4>2
      <4>4. Drop(SubSeq(draft[p].turns, 1, Coverage(p)), Len(draft[p].ckpt)) \in Seq(Turns)
        <5>1. Len(draft[p].ckpt) \in Nat  BY <4>1
        <5> QED  BY <4>3, <5>1, DropType
      <4> QED  BY <4>1, <4>4 DEF NewCheckpoint
    <3>2. draft' \in [Procs -> States]
      BY <1>1, <1>2, <2>3, <3>1 DEF TypeOK, States
    <3>3. live' \in [Procs -> LiveType]
      <4>1. Len(draft[p].turns) + 1 \in Nat  BY <1>2 DEF States
      <4> QED  BY <1>1, <1>2, <2>3, <4>1 DEF TypeOK
    <3> QED  BY <1>1, <1>10, <2>1, <3>2, <3>3 DEF PrepareContext, History, TypeOK
  <2> QED  BY <1>10, <2>2, <2>3 DEF PrepareContext
<1>11. ASSUME NEW p \in Procs, Work(p) PROVE TypeOK'
  <2>1. turn[p] \in Turns  BY <1>3, <1>11 DEF Work, InProgress
  <2>2. live' = [live EXCEPT ![p] =
                   [live[p] EXCEPT !.usage = @ + 1, !.calls = Append(@, turn[p])]]
    BY <1>1, <1>11 DEF Work, TypeOK
  <2>3. [live[p] EXCEPT !.usage = @ + 1, !.calls = Append(@, turn[p])] \in LiveType
    <3>1. live[p] \in LiveType  BY <1>2
    <3>2. live[p].usage + 1 \in Nat /\ Append(live[p].calls, turn[p]) \in Seq(Turns)
      BY <2>1, <3>1
    <3> QED  BY <3>1, <3>2, TwoFields
  <2>4. live' \in [Procs -> LiveType]  BY <1>1, <2>2, <2>3 DEF TypeOK
  <2> QED  BY <1>1, <1>11, <2>4 DEF Work, History, TypeOK
<1>12. ASSUME NEW p \in Procs, FinishTurn(p) PROVE TypeOK'
  <2>1. turn[p] \in Turns  BY <1>3, <1>12 DEF FinishTurn, InProgress
  <2>2. Captured(p) \in States
    <3>1. Append(draft[p].turns, turn[p]) \in Seq(Turns)
          /\ Len(Append(draft[p].turns, turn[p])) \in Nat
      <4>1. draft[p] \in States  BY <1>2
      <4>2. draft[p].turns \in Seq(Turns)  BY <4>1 DEF States
      <4> QED  BY <2>1, <4>2
    <3>2. /\ draft[p] \in States /\ live[p] \in LiveType
      BY <1>2
    <3>3. /\ live[p].usage \in Nat /\ live[p].calls \in Seq(Turns)
          /\ live[p].reviewed \in Nat /\ draft[p].ckpt \in Seq(Turns)
      BY <3>2 DEF States
    <3> DEFINE m == Append(draft[p].turns, turn[p])
               r == IF Len(m) - live[p].reviewed >= ReviewInterval
                    THEN Len(m) ELSE live[p].reviewed
               u == live[p].usage
               c == live[p].calls
    <3>4. Captured(p) = FourFields(draft[p], m, u, c, r)
      BY DEF Captured, FourFields
    <3>5. m \in Seq(Turns) /\ u \in Nat /\ c \in Seq(Turns) /\ r \in Nat
      BY <3>1, <3>3
    <3> HIDE DEF m, r, u, c
    <3> QED  BY <3>2, <3>4, <3>5, StateFields
  <2>3. draft' \in [Procs -> States] /\ cand' \in [Procs -> States]
        /\ attempt' \in [Procs -> 0..MaxAttempts] /\ pc' \in [Procs -> Places]
    BY <1>1, <1>12, <2>2, MaxAttemptsAssumption DEF FinishTurn, TypeOK, Places
  <2> QED  BY <1>1, <1>12, <2>3 DEF FinishTurn, History, TypeOK
<1>13. ASSUME NEW p \in Procs, NEW s \in States, Write(p, s)
       PROVE  /\ store' \in States /\ cand' \in [Procs -> States]
              /\ pc' \in [Procs -> Places]
  <2>1. store.rev + 1 \in Nat  BY <1>2 DEF States
  <2>2. [s EXCEPT !.rev = store.rev + 1] \in States  BY <2>1, RevField
  <2>3. store' \in States  BY <1>13, <2>2 DEF Write
  <2> QED  BY <1>1, <1>13, <2>3 DEF Write, TypeOK, Places
<1>14. ASSUME NEW p \in Procs, Save(p) PROVE TypeOK'
  <2>1. turn[p] \in Turns  BY <1>3, <1>14 DEF Save, InProgress
  <2>2. outcome' \in [Turns -> Outcomes]
    BY <1>1, <1>14 DEF Save, TypeOK, Outcomes
  <2> QED  BY <1>1, <1>2, <1>13, <1>14, <2>2 DEF Save, TypeOK
<1>15. ASSUME NEW p \in Procs, Reset(p) PROVE TypeOK'
  <2>1. erased' \subseteq Turns
    <3>1. store.turns \in Seq(Turns)  BY <1>2 DEF States
    <3>2. Persisted \subseteq Turns  BY <3>1 DEF Persisted
    <3> QED  BY <1>1, <1>15, <3>2 DEF Reset, TypeOK
  <2> QED  BY <1>1, <1>13, <1>15, <2>1, FreshState DEF Reset, TypeOK
<1>16. ASSUME NEW p \in Procs, SaveConflict(p) PROVE TypeOK'
  BY <1>1, <1>16 DEF SaveConflict, History, TypeOK, Places
<1>17. ASSUME NEW p \in Procs, Rebase(p) PROVE TypeOK'
  <2>1. Rebased(p) \in States
    <3> DEFINE base == store.turns \o Drop(draft[p].turns, Len(mem[p].turns))
               ckpt == IF Len(draft[p].ckpt) > Len(store.ckpt)
                       THEN draft[p].ckpt ELSE store.ckpt
               usage == store.usage + (IF draft[p].usage > mem[p].usage
                                       THEN draft[p].usage - mem[p].usage ELSE 0)
               calls == IF IsPrefixOf(mem[p].calls, store.calls)
                        THEN store.calls \o Drop(draft[p].calls, Len(mem[p].calls))
                        ELSE store.calls
               reviewed == Larger(draft[p].reviewed, store.reviewed)
    <3>0. /\ mem[p].turns \in Seq(Turns) /\ mem[p].calls \in Seq(Turns)
          /\ draft[p].turns \in Seq(Turns) /\ draft[p].calls \in Seq(Turns)
          /\ Len(mem[p].turns) \in Nat /\ Len(mem[p].calls) \in Nat
      <4>1. mem[p] \in States /\ draft[p] \in States  BY <1>2
      <4>2. /\ mem[p].turns \in Seq(Turns) /\ mem[p].calls \in Seq(Turns)
            /\ draft[p].turns \in Seq(Turns) /\ draft[p].calls \in Seq(Turns)
        BY <4>1 DEF States
      <4>3. Len(mem[p].turns) \in Nat /\ Len(mem[p].calls) \in Nat
        BY <4>2
      <4> QED  BY <4>2, <4>3
    <3>1. Drop(draft[p].turns, Len(mem[p].turns)) \in Seq(Turns)
          /\ Drop(draft[p].calls, Len(mem[p].calls)) \in Seq(Turns)
      BY <3>0, DropType
    <3>2. base \in Seq(Turns) /\ calls \in Seq(Turns)
      <4>1. store.turns \in Seq(Turns) /\ store.calls \in Seq(Turns)
        BY <1>2 DEF States
      <4>2. base \in Seq(Turns)  BY <3>1, <4>1
      <4>3. store.calls \o Drop(draft[p].calls, Len(mem[p].calls)) \in Seq(Turns)
        BY <3>1, <4>1
      <4>4. calls \in Seq(Turns)  BY <4>1, <4>3
      <4> QED  BY <4>2, <4>4
    <3>3. ckpt \in Seq(Turns) /\ usage \in Nat /\ reviewed \in Nat
      <4>1. /\ draft[p].ckpt \in Seq(Turns) /\ store.ckpt \in Seq(Turns)
            /\ draft[p].usage \in Nat /\ store.usage \in Nat /\ mem[p].usage \in Nat
            /\ draft[p].reviewed \in Nat /\ store.reviewed \in Nat
        BY <1>2 DEF States
      <4>2. ckpt \in Seq(Turns)  BY <4>1
      <4>3. usage \in Nat  BY <4>1
      <4>4. reviewed \in Nat  BY <4>1 DEF Larger
      <4> QED  BY <4>2, <4>3, <4>4
    <3>4. Rebased(p) = FiveFields(store, base, ckpt, usage, calls, reviewed)
      BY DEF Rebased, FiveFields
    <3> HIDE DEF base, ckpt, usage, calls, reviewed
    <3>5. store \in States  BY <1>2
    <3> QED  BY <3>2, <3>3, <3>4, <3>5, StateFields
  <2>2. attempt' \in [Procs -> 0..MaxAttempts]
    <3>1. attempt[p] < MaxAttempts
      BY <1>17 DEF IInv, CandInv, Rebase
    <3> QED  BY <1>1, <1>2, <1>17, <3>1, MaxAttemptsAssumption DEF Rebase, TypeOK
  <2> QED  BY <1>1, <1>17, <2>1, <2>2 DEF Rebase, History, TypeOK, Places
<1>18. ASSUME NEW p \in Procs, Publish(p) PROVE TypeOK'
  <2>1. live' \in [Procs -> LiveType] /\ mem' \in [Procs -> States]
    BY <1>1, <1>2, <1>18, AttributesType DEF Publish, TypeOK
  <2>2. answered' \subseteq Turns
    BY <1>1, <1>18 DEF Publish, TypeOK
  <2>3. /\ draft' \in [Procs -> States] /\ cand' \in [Procs -> States]
        /\ attempt' \in [Procs -> 0..MaxAttempts]
        /\ turn' \in [Procs -> Turns \cup {NoTurn}]
        /\ pc' \in [Procs -> Places]
    BY <1>1, <1>18, FreshState, MaxAttemptsAssumption DEF Publish, Return, TypeOK, Places
  <2> QED  BY <1>1, <1>18, <2>1, <2>2, <2>3 DEF Publish, TypeOK
<1>19. ASSUME NEW p \in Procs, Crash(p) PROVE TypeOK'
  <2>1. live' \in [Procs -> LiveType] /\ mem' \in [Procs -> States]
    BY <1>1, <1>19, FreshState DEF Crash, TypeOK
  <2>2. /\ draft' \in [Procs -> States] /\ cand' \in [Procs -> States]
        /\ attempt' \in [Procs -> 0..MaxAttempts]
        /\ turn' \in [Procs -> Turns \cup {NoTurn}]
        /\ pc' \in [Procs -> Places]
    BY <1>1, <1>19, FreshState, MaxAttemptsAssumption DEF Crash, Return, TypeOK, Places
  <2>3. outcome' \in [Turns -> Outcomes]
    BY <1>1, <1>19 DEF Crash, TypeOK, Outcomes
  <2> QED  BY <1>1, <1>19, <2>1, <2>2, <2>3 DEF Crash, TypeOK
<1>20. ASSUME NEW p \in Procs, Restart(p) PROVE TypeOK'
  <2>1. live' \in [Procs -> LiveType] /\ mem' \in [Procs -> States]
        /\ pc' \in [Procs -> Places]
    BY <1>1, <1>2, <1>20, AttributesType DEF Restart, TypeOK, Places
  <2> QED  BY <1>1, <1>20, <2>1 DEF Restart, History, TypeOK
<1>21. CASE UNCHANGED vars
  BY <1>1, <1>21 DEF vars, TypeOK
<1> QED
  BY <1>4, <1>5, <1>6, <1>7, <1>8, <1>9, <1>10, <1>11, <1>12, <1>14, <1>15,
     <1>16, <1>17, <1>18, <1>19, <1>20, <1>21 DEF Next, TurnStep, CommitStep

-----------------------------------------------------------------------------
(* What a step of process p changes, and what it leaves alone *)

Step(p) == TurnStep(p) \/ CommitStep(p) \/ Reset(p) \/ Crash(p) \/ Restart(p)

Same(q) ==
    /\ mem'[q] = mem[q] /\ live'[q] = live[q] /\ draft'[q] = draft[q]
    /\ cand'[q] = cand[q] /\ attempt'[q] = attempt[q]
    /\ turn'[q] = turn[q] /\ pc'[q] = pc[q]

(* The actions by what they do to process p. *)
QuietEnd(p) ==
    /\ pc[p] \in InProgress
    /\ \E end \in {"blocked", "failed"} : EndTurn(p, end)

LEMMA StepCases ==
    ASSUME NEW p \in Procs, Step(p)
    PROVE  \/ \E t \in Turns : StartTurn(p, t)
           \/ Adopt(p) \/ QuietEnd(p) \/ PrepareContext(p) \/ Work(p)
           \/ FinishTurn(p) \/ Save(p) \/ SaveConflict(p) \/ Rebase(p)
           \/ Publish(p) \/ Reset(p) \/ Crash(p) \/ Restart(p)
BY DEF Step, TurnStep, CommitStep, PromptBlocked, TurnFails, SaveFails, Diverged,
       QuietEnd, InProgress

LEMMA OnlyOneProcess ==
    ASSUME TypeOK, NEW p \in Procs, Step(p), NEW q \in Procs, q # p
    PROVE  Same(q)
<1> USE DEF TypeOK, Same
<1>1. ASSUME NEW t \in Turns, StartTurn(p, t) PROVE Same(q)
  BY <1>1 DEF StartTurn, OpenDraft
<1>2. CASE Adopt(p)
  BY <1>2 DEF Adopt, OpenDraft, History
<1>3. CASE QuietEnd(p)
  BY <1>3 DEF QuietEnd, EndTurn, RestoreAttributes, Return
<1>4. CASE PrepareContext(p)
  BY <1>4 DEF PrepareContext, History
<1>5. CASE Work(p)
  BY <1>5 DEF Work, History
<1>6. CASE FinishTurn(p)
  BY <1>6 DEF FinishTurn, History
<1>7. CASE Save(p)
  BY <1>7 DEF Save, Write
<1>8. CASE SaveConflict(p)
  BY <1>8 DEF SaveConflict, History
<1>9. CASE Rebase(p)
  BY <1>9 DEF Rebase, History
<1>10. CASE Publish(p)
  BY <1>10 DEF Publish, Return
<1>11. CASE Reset(p)
  BY <1>11 DEF Reset, Write
<1>12. CASE Crash(p)
  BY <1>12 DEF Crash, Return
<1>13. CASE Restart(p)
  BY <1>13 DEF Restart, History
<1> QED
  BY <1>1, <1>2, <1>3, <1>4, <1>5, <1>6, <1>7, <1>8, <1>9, <1>10, <1>11,
     <1>12, <1>13, StepCases

(* The file changes by a commit or a reset only. *)
LEMMA StoreEffect ==
    ASSUME TypeOK, NEW p \in Procs, Step(p)
    PROVE  \/ store' = store /\ erased' = erased
           \/ /\ Save(p)
              /\ store'.rev = store.rev + 1 /\ store'.turns = cand[p].turns
              /\ store'.ckpt = cand[p].ckpt /\ erased' = erased
           \/ /\ Reset(p)
              /\ store'.rev = store.rev + 1 /\ store'.turns = << >>
              /\ store'.ckpt = << >> /\ erased' = erased \cup Persisted
<1>0. store \in States /\ store.rev + 1 \in Nat /\ cand[p] \in States
  <2>1. store \in States /\ cand[p] \in States  BY DEF TypeOK
  <2> QED  BY <2>1 DEF States
<1>1. CASE Save(p)
  <2>1. store' = [cand[p] EXCEPT !.rev = store.rev + 1] /\ erased' = erased
    BY <1>1 DEF Save, Write
  <2>2. /\ store'.rev = store.rev + 1 /\ store'.turns = cand[p].turns
        /\ store'.ckpt = cand[p].ckpt
    BY <1>0, <2>1, RevField
  <2> QED  BY <1>1, <2>1, <2>2
<1>2. CASE Reset(p)
  <2>1. store' = [Fresh EXCEPT !.rev = store.rev + 1]  BY <1>2 DEF Reset, Write
  <2>2. Fresh.turns = << >> /\ Fresh.ckpt = << >>  BY DEF Fresh
  <2>3. erased' = erased \cup Persisted  BY <1>2 DEF Reset
  <2>4. /\ store'.rev = store.rev + 1 /\ store'.turns = << >>
        /\ store'.ckpt = << >>
    BY <1>0, <2>1, <2>2, RevField, FreshState
  <2> QED  BY <1>2, <2>3, <2>4
<1>3. CASE ~Save(p) /\ ~Reset(p)
  <2>1. ASSUME NEW t \in Turns, StartTurn(p, t) PROVE store' = store /\ erased' = erased
    BY <2>1 DEF StartTurn
  <2>2. CASE Adopt(p) \/ PrepareContext(p) \/ Work(p) \/ FinishTurn(p)
    BY <2>2 DEF Adopt, PrepareContext, Work, FinishTurn, History
  <2>3. CASE QuietEnd(p)
    BY <2>3 DEF QuietEnd, EndTurn
  <2>4. CASE SaveConflict(p) \/ Rebase(p) \/ Publish(p)
    BY <2>4 DEF SaveConflict, Rebase, Publish, History
  <2>5. CASE Crash(p) \/ Restart(p)
    BY <2>5 DEF Crash, Restart, History
  <2> QED  BY <1>3, <2>1, <2>2, <2>3, <2>4, <2>5, StepCases
<1> QED  BY <1>1, <1>2, <1>3

-----------------------------------------------------------------------------
(* Each part of the invariant is kept *)

LEMMA MemStep ==
    ASSUME IInv, TypeOK', NEW p \in Procs, Step(p) PROVE MemInv'
<1>1. TypeOK /\ MemInv /\ CandInv  BY DEF IInv
<1>2. store \in States /\ store' \in States /\ store.rev \in Nat /\ store'.rev \in Nat
      /\ \A q \in Procs : mem[q].rev \in Nat /\ cand[q].rev \in Nat
  BY <1>1 DEF TypeOK, States
<1>3. \/ store' = store
      \/ store'.rev = store.rev + 1 /\ (Save(p) \/ Reset(p))
  BY <1>1, StoreEffect
<1>4. (store.rev = 0 => store = Fresh)'
  BY <1>1, <1>2, <1>3 DEF MemInv
<1>5. ASSUME NEW q \in Procs, mem'[q] = mem[q]
      PROVE  mem'[q].rev <= store'.rev /\ (mem'[q].rev = store'.rev => mem'[q] = store')
  BY <1>1, <1>2, <1>3, <1>5 DEF MemInv
<1>6. \/ mem'[p] = mem[p]
      \/ mem'[p] = store /\ store' = store
      \/ mem'[p] = Fresh /\ store' = store
      \/ mem'[p] = cand[p] /\ store' = store /\ pc[p] = "publish"
  <2> USE <1>1 DEF TypeOK
  <2>1. CASE Adopt(p)
    BY <2>1 DEF Adopt, History
  <2>2. CASE Publish(p)
    BY <2>2 DEF Publish
  <2>3. CASE Crash(p)
    BY <2>3 DEF Crash
  <2>4. CASE Restart(p)
    BY <2>4 DEF Restart, History
  <2>5. ASSUME NEW t \in Turns, StartTurn(p, t) PROVE mem'[p] = mem[p]
    BY <2>5 DEF StartTurn
  <2>6. CASE PrepareContext(p) \/ Work(p) \/ FinishTurn(p)
    BY <2>6 DEF PrepareContext, Work, FinishTurn
  <2>7. CASE QuietEnd(p)
    BY <2>7 DEF QuietEnd, EndTurn
  <2>8. CASE Save(p) \/ SaveConflict(p) \/ Rebase(p) \/ Reset(p)
    BY <2>8 DEF Save, SaveConflict, Rebase, Reset
  <2> QED
    BY <2>1, <2>2, <2>3, <2>4, <2>5, <2>6, <2>7, <2>8, StepCases
<1>7. mem'[p].rev <= store'.rev /\ (mem'[p].rev = store'.rev => mem'[p] = store')
  <2>1. CASE mem'[p] = store /\ store' = store
    BY <1>2, <2>1
  <2>2. CASE mem'[p] = Fresh /\ store' = store
    <3>1. Fresh.rev = 0  BY DEF Fresh
    <3> QED  BY <1>1, <1>2, <2>2, <3>1 DEF MemInv
  <2>3. CASE mem'[p] = cand[p] /\ store' = store /\ pc[p] = "publish"
    BY <1>1, <2>3 DEF CandInv
  <2> QED  BY <1>5, <1>6, <2>1, <2>2, <2>3
<1>8. \A q \in Procs : q # p => mem'[q] = mem[q]
  BY <1>1, OnlyOneProcess DEF Same
<1> QED  BY <1>4, <1>5, <1>7, <1>8 DEF MemInv

LEMMA DraftStep ==
    ASSUME IInv, TypeOK', NEW p \in Procs, Step(p) PROVE DraftInv'
<1>1. TypeOK /\ DraftInv  BY DEF IInv
<1> DEFINE Ok == /\ pc'[p] \in {"prompt", "running"}
                      => draft'[p].turns = mem'[p].turns /\ draft'[p].rev = mem'[p].rev
                 /\ pc'[p] \in {"save", "rebase"}
                      => draft'[p].turns = Append(mem'[p].turns, turn'[p])
<1>2. \A q \in Procs : q # p => Same(q)
  BY <1>1, OnlyOneProcess
<1>3. Ok
  <2> USE <1>1 DEF TypeOK, DraftInv
  <2>1. ASSUME NEW t \in Turns, StartTurn(p, t) PROVE Ok
    BY <2>1 DEF StartTurn, OpenDraft
  <2>2. CASE Adopt(p)
    BY <2>2 DEF Adopt, OpenDraft
  <2>3. CASE QuietEnd(p)
    BY <2>3 DEF QuietEnd, EndTurn, Return
  <2>4. CASE PrepareContext(p)
    <3>1. /\ pc'[p] = "running" /\ mem'[p] = mem[p]
          /\ draft'[p].turns = draft[p].turns /\ draft'[p].rev = draft[p].rev
      <4>1. CASE UNCHANGED draft
        BY <2>4, <4>1 DEF PrepareContext
      <4>2. CASE draft' = [draft EXCEPT ![p].ckpt = NewCheckpoint(p)]
        <5>1. draft'[p] = [draft[p] EXCEPT !.ckpt = NewCheckpoint(p)]
          BY <4>2
        <5>2. draft[p] \in States  OBVIOUS
        <5>3. draft'[p].turns = draft[p].turns /\ draft'[p].rev = draft[p].rev
          BY <5>1, <5>2 DEF States
        <5> QED  BY <2>4, <5>3 DEF PrepareContext
      <4> QED  BY <2>4, <4>1, <4>2 DEF PrepareContext
    <3> QED  BY <2>4, <3>1 DEF PrepareContext
  <2>5. CASE Work(p)
    BY <2>5 DEF Work, History
  <2>6. CASE FinishTurn(p)
    <3>1. draft'[p] = Captured(p) /\ draft[p] \in States
      BY <2>6 DEF FinishTurn
    <3>2. Captured(p).turns = Append(draft[p].turns, turn[p])
      BY <3>1 DEF Captured, States
    <3> QED  BY <2>6, <3>1, <3>2 DEF FinishTurn
  <2>7. CASE Save(p) \/ Reset(p)
    BY <2>7 DEF Save, Reset, Write
  <2>8. CASE SaveConflict(p)
    BY <2>8 DEF SaveConflict, History
  <2>9. CASE Rebase(p)
    BY <2>9 DEF Rebase, History
  <2>10. CASE Publish(p)
    BY <2>10 DEF Publish, Return
  <2>11. CASE Crash(p)
    BY <2>11 DEF Crash, Return
  <2>12. CASE Restart(p)
    BY <2>12 DEF Restart
  <2> QED
    BY <2>1, <2>2, <2>3, <2>4, <2>5, <2>6, <2>7, <2>8, <2>9, <2>10, <2>11,
       <2>12, StepCases
<1>4. ASSUME NEW q \in Procs, q # p
      PROVE  /\ pc'[q] \in {"prompt", "running"}
                  => draft'[q].turns = mem'[q].turns /\ draft'[q].rev = mem'[q].rev
             /\ pc'[q] \in {"save", "rebase"}
                  => draft'[q].turns = Append(mem'[q].turns, turn'[q])
  <2>1. /\ pc[q] \in {"prompt", "running"}
             => draft[q].turns = mem[q].turns /\ draft[q].rev = mem[q].rev
        /\ pc[q] \in {"save", "rebase"}
             => draft[q].turns = Append(mem[q].turns, turn[q])
    BY <1>1 DEF DraftInv
  <2>2. /\ pc'[q] = pc[q] /\ draft'[q] = draft[q] /\ mem'[q] = mem[q]
        /\ turn'[q] = turn[q]
    BY <1>2, <1>4 DEF Same
  <2> QED  BY <2>1, <2>2
<1> QED  BY <1>3, <1>4 DEF DraftInv

(* What a save adds to the file. *)
LEMMA SaveEffect ==
    ASSUME IInv, TypeOK', NEW p \in Procs, Save(p)
    PROVE  /\ turn[p] \in Turns /\ outcome[turn[p]] = "running"
           /\ store.turns \in Seq(Turns)
           /\ store'.turns = Append(store.turns, turn[p])
           /\ IsPrefixOf(mem[p].turns, store.turns)
           /\ outcome' = [outcome EXCEPT ![turn[p]] = "committed"]
           /\ Persisted' = Persisted \cup {turn[p]}
           /\ turn[p] \notin Persisted
<1>1. TypeOK /\ TurnInv /\ CandInv /\ AnswersAreDurable  BY DEF IInv
<1>2. turn[p] \in Turns /\ outcome[turn[p]] = "running"
  BY <1>1 DEF Save, TurnInv, InProgress
<1>3. store.turns \in Seq(Turns)
  BY <1>1 DEF TypeOK, States
<1>4. /\ cand[p].turns = Append(store.turns, turn[p])
      /\ IsPrefixOf(mem[p].turns, store.turns)
  BY <1>1 DEF CandInv, Save, OwnsRevision
<1>5. store'.turns = cand[p].turns
  <2>1. Step(p)  BY DEF Step, CommitStep
  <2>2. cand[p] \in States /\ store.rev + 1 \in Nat
    <3>1. store \in States /\ cand[p] \in States  BY <1>1 DEF TypeOK
    <3> QED  BY <3>1 DEF States
  <2>3. store' = [cand[p] EXCEPT !.rev = store.rev + 1]  BY DEF Save, Write
  <2> QED  BY <2>2, <2>3, RevField
<1>6. Persisted' = Persisted \cup {turn[p]}
  <2> DEFINE s == store.turns
             t == turn[p]
  <2>1. s \in Seq(Turns) /\ t \in Turns  BY <1>2, <1>3
  <2> HIDE DEF s, t
  <2>2. {Append(s, t)[i] : i \in DOMAIN Append(s, t)} = {s[i] : i \in DOMAIN s} \cup {t}
    <3>1. /\ DOMAIN Append(s, t) = 1..(Len(s) + 1) /\ DOMAIN s = 1..Len(s)
          /\ Len(s) \in Nat
          /\ \A i \in 1..Len(s) : Append(s, t)[i] = s[i]
          /\ Append(s, t)[Len(s) + 1] = t
      BY <2>1
    <3>2. 1..(Len(s) + 1) = (1..Len(s)) \cup {Len(s) + 1}
      BY <3>1
    <3> QED  BY <3>1, <3>2
  <2> QED  BY <1>4, <1>5, <2>2 DEF s, t, Persisted
<1>7. outcome' = [outcome EXCEPT ![turn[p]] = "committed"]
  BY DEF Save
<1>8. turn[p] \notin Persisted
  BY <1>1, <1>2 DEF AnswersAreDurable
<1> QED  BY <1>2, <1>3, <1>4, <1>5, <1>6, <1>7, <1>8

(* No step loses a turn that was persisted or erased. *)
LEMMA KeptStep ==
    ASSUME IInv, TypeOK', NEW p \in Procs, Step(p)
    PROVE  Persisted \cup erased \subseteq Persisted' \cup erased'
<1>1. TypeOK  BY DEF IInv
<1>2. CASE store' = store /\ erased' = erased
  BY <1>2 DEF Persisted
<1>3. CASE Save(p) /\ erased' = erased
  BY <1>3, SaveEffect
<1>4. CASE erased' = erased \cup Persisted
  BY <1>4
<1> QED  BY <1>1, <1>2, <1>3, <1>4, StoreEffect

LEMMA CandStep ==
    ASSUME IInv, TypeOK', NEW p \in Procs, Step(p) PROVE CandInv'
<1>1. TypeOK /\ TurnInv /\ MemInv /\ DraftInv /\ CandInv  BY DEF IInv
<1>2. /\ store \in States /\ store.rev \in Nat /\ store.turns \in Seq(Turns)
      /\ \A q \in Procs : cand[q].rev \in Nat /\ mem[q].turns \in Seq(Turns)
                          /\ draft[q] \in States /\ mem[q].rev \in Nat
  BY <1>1 DEF TypeOK, States
<1> DEFINE Ok(q) ==
      /\ pc[q] = "save" =>
           /\ cand[q].rev <= store.rev
           /\ cand[q].rev = store.rev =>
                /\ cand[q].turns = Append(store.turns, turn[q])
                /\ IsPrefixOf(mem[q].turns, store.turns)
      /\ pc[q] = "publish" =>
           /\ cand[q].rev <= store.rev
           /\ cand[q].rev = store.rev => cand[q] = store
      /\ pc[q] = "rebase" => attempt[q] < MaxAttempts
<1>3. ASSUME NEW q \in Procs, q # p PROVE Ok(q)'
  <2>1. Same(q)  BY <1>1, <1>3, OnlyOneProcess
  <2>2. store' = store \/ store'.rev = store.rev + 1  BY <1>1, StoreEffect
  <2>3. Ok(q)  BY <1>1 DEF CandInv
  <2>4. CASE store' = store
    BY <2>1, <2>3, <2>4 DEF Same
  <2>5. CASE store'.rev = store.rev + 1
    <3>1. pc[q] \in {"save", "publish"}
            => cand[q].rev <= store'.rev /\ cand[q].rev # store'.rev
      BY <1>2, <2>3, <2>5
    <3> QED  BY <2>1, <2>3, <3>1 DEF Same
  <2> QED  BY <2>2, <2>4, <2>5
<1>4. Ok(p)'
  <2> USE <1>1 DEF TypeOK
  <2>1. ASSUME NEW t \in Turns, StartTurn(p, t) PROVE Ok(p)'
    BY <2>1 DEF StartTurn, OpenDraft
  <2>2. CASE Adopt(p)
    BY <2>2 DEF Adopt, OpenDraft
  <2>3. CASE QuietEnd(p)
    BY <2>3 DEF QuietEnd, EndTurn, Return
  <2>4. CASE PrepareContext(p) \/ Work(p)
    BY <2>4 DEF PrepareContext, Work
  <2>5. CASE FinishTurn(p)
    <3>1. /\ pc'[p] = "save" /\ cand'[p] = Captured(p) /\ store' = store
          /\ turn'[p] = turn[p] /\ mem'[p] = mem[p]
      BY <2>5 DEF FinishTurn, History
    <3>2. Captured(p).rev = draft[p].rev
          /\ Captured(p).turns = Append(draft[p].turns, turn[p])
      BY <1>2 DEF Captured, States
    <3>3. draft[p].turns = mem[p].turns /\ draft[p].rev = mem[p].rev
      BY <2>5 DEF FinishTurn, DraftInv
    <3>4. mem[p].rev <= store.rev /\ (mem[p].rev = store.rev => mem[p] = store)
      BY DEF MemInv
    <3>5. IsPrefixOf(store.turns, store.turns)
      BY <1>2, PrefixReflexive
    <3> QED  BY <3>1, <3>2, <3>3, <3>4, <3>5
  <2>6. CASE Save(p) \/ Reset(p)
    <3>1. pc'[p] = "publish" /\ cand'[p] = store'
      BY <2>6 DEF Save, Reset, Write
    <3>2. store'.rev \in Nat
      BY <1>2, <2>6, StoreEffect DEF States
    <3> QED  BY <3>1, <3>2
  <2>7. CASE SaveConflict(p)
    BY <2>7 DEF SaveConflict, MayRetry
  <2>8. CASE Rebase(p)
    <3>1. /\ pc'[p] = "save" /\ cand'[p] = Rebased(p) /\ store' = store
          /\ turn'[p] = turn[p] /\ mem'[p] = mem[p]
      BY <2>8 DEF Rebase, History
    <3>2. Rebased(p).rev = store.rev
          /\ Rebased(p).turns = store.turns \o Drop(draft[p].turns, Len(mem[p].turns))
      BY <1>2 DEF Rebased, States
    <3>3. draft[p].turns = Append(mem[p].turns, turn[p])
      BY <2>8 DEF Rebase, DraftInv
    <3>4. turn[p] \in Turns
      BY <2>8 DEF Rebase, TurnInv, InProgress
    <3>5. Rebased(p).turns = Append(store.turns, turn[p])
      <4>1. \A s, b \in Seq(Turns), t \in Turns :
              b \o Drop(Append(s, t), Len(s)) = Append(b, t)
        BY DropAppend
      <4>2. mem[p].turns \in Seq(Turns) /\ store.turns \in Seq(Turns)
        BY <1>2
      <4>3. store.turns \o Drop(Append(mem[p].turns, turn[p]), Len(mem[p].turns))
              = Append(store.turns, turn[p])
        BY <3>4, <4>1, <4>2
      <4> QED  BY <3>2, <3>3, <4>3
    <3>6. IsPrefixOf(mem[p].turns, store.turns)
      BY <2>8 DEF Rebase, ExtendsCommitted
    <3> QED  BY <1>2, <3>1, <3>2, <3>5, <3>6
  <2>9. CASE Publish(p)
    BY <2>9 DEF Publish, Return
  <2>10. CASE Crash(p)
    BY <2>10 DEF Crash, Return
  <2>11. CASE Restart(p)
    BY <2>11 DEF Restart
  <2> QED
    BY <2>1, <2>2, <2>3, <2>4, <2>5, <2>6, <2>7, <2>8, <2>9, <2>10, <2>11, StepCases
<1>5. \A q \in Procs : Ok(q)'
  BY <1>3, <1>4
<1> QED  BY <1>5 DEF CandInv

LEMMA CkptStep ==
    ASSUME IInv, TypeOK', NEW p \in Procs, Step(p) PROVE CkptInv'
<1>1. TypeOK /\ TurnInv /\ DraftInv /\ CandInv /\ CkptInv  BY DEF IInv
<1>2. /\ store \in States /\ cand[p] \in States /\ draft[p] \in States
      /\ mem[p] \in States
  BY <1>1 DEF TypeOK
<1>3. /\ store.turns \in Seq(Turns) /\ store.ckpt \in Seq(Turns)
      /\ mem[p].turns \in Seq(Turns) /\ draft[p].turns \in Seq(Turns)
      /\ draft[p].ckpt \in Seq(Turns)
  BY <1>2 DEF States
<1>4. Summarises(store')
  <2>1. CASE store' = store
    BY <1>1, <2>1 DEF CkptInv
  <2>2. CASE Save(p) /\ store'.turns = cand[p].turns /\ store'.ckpt = cand[p].ckpt
    BY <1>1, <2>2 DEF Save, CkptInv, Summarises
  <2>3. CASE store'.turns = << >> /\ store'.ckpt = << >>
    BY <2>3, EmptySeq DEF Summarises, IsPrefixOf
  <2> QED  BY <1>1, <2>1, <2>2, <2>3, StoreEffect
<1> DEFINE Ok(q) ==
      /\ Summarises(mem[q])
      /\ pc[q] \in {"prompt", "running"} => Summarises(draft[q])
      /\ pc[q] \in {"save", "rebase"} => IsPrefixOf(draft[q].ckpt, mem[q].turns)
      /\ pc[q] \in {"save", "publish"} => Summarises(cand[q])
<1>5. Ok(p) /\ Summarises(store)
  BY <1>1 DEF CkptInv
<1>6. ASSUME NEW q \in Procs, q # p PROVE Ok(q)'
  <2>1. Same(q) /\ Ok(q)  BY <1>1, <1>6, OnlyOneProcess DEF CkptInv
  <2> QED  BY <2>1 DEF Same
<1>7. Ok(p)'
  <2> USE <1>1 DEF TypeOK
  <2>1. ASSUME NEW t \in Turns, StartTurn(p, t) PROVE Ok(p)'
    BY <1>5, <2>1 DEF StartTurn, OpenDraft
  <2>2. CASE Adopt(p)
    BY <1>5, <2>2 DEF Adopt, OpenDraft
  <2>3. CASE QuietEnd(p)
    BY <1>5, <2>3 DEF QuietEnd, EndTurn, Return
  <2>4. CASE PrepareContext(p)
    <3>1. pc'[p] = "running" /\ mem'[p] = mem[p] /\ pc[p] = "prompt"
      BY <2>4 DEF PrepareContext
    <3>2. CASE UNCHANGED draft
      BY <1>5, <3>1, <3>2
    <3>3. CASE /\ Coverage(p) > Len(draft[p].ckpt)
               /\ draft' = [draft EXCEPT ![p].ckpt = NewCheckpoint(p)]
      <4> DEFINE c == draft[p].ckpt
                 s == draft[p].turns
                 k == Coverage(p)
      <4>1. IsPrefixOf(c, s)
        BY <1>5, <3>1 DEF Summarises
      <4>2. c \in Seq(Turns) /\ s \in Seq(Turns) /\ k \in Nat /\ k <= Len(s)
            /\ Len(c) < k
        <5>1. c \in Seq(Turns) /\ s \in Seq(Turns)  BY <1>3
        <5>2. Len(c) \in Nat /\ Len(s) \in Nat  BY <5>1
        <5>3. k \in Nat /\ k <= Len(s)
          BY <5>2, PreserveAssumption DEF Coverage
        <5>4. Len(c) < k  BY <3>3, <5>2, <5>3
        <5> QED  BY <5>1, <5>3, <5>4
      <4>3. IsPrefixOf(c \o Drop(SubSeq(s, 1, k), Len(c)), s)
        <5> HIDE DEF c, s, k
        <5> QED  BY <4>1, <4>2, CheckpointExtends
      <4>4. draft'[p] = [draft[p] EXCEPT !.ckpt = NewCheckpoint(p)]
        BY <3>3
      <4>5. draft'[p].ckpt = NewCheckpoint(p) /\ draft'[p].turns = draft[p].turns
        BY <1>2, <4>4 DEF States
      <4>6. IsPrefixOf(NewCheckpoint(p), draft[p].turns)
        BY <4>3 DEF NewCheckpoint
      <4>7. Summarises(draft'[p])
        BY <4>5, <4>6 DEF Summarises
      <4> QED  BY <1>5, <3>1, <4>7
    <3> QED  BY <2>4, <3>2, <3>3 DEF PrepareContext
  <2>5. CASE Work(p)
    BY <1>5, <2>5 DEF Work, History
  <2>6. CASE FinishTurn(p)
    <3>1. /\ pc'[p] = "save" /\ pc[p] = "running" /\ mem'[p] = mem[p]
          /\ cand'[p] = Captured(p) /\ draft'[p] = Captured(p)
      BY <2>6 DEF FinishTurn
    <3>2. turn[p] \in Turns
      BY <3>1 DEF TurnInv, InProgress
    <3>3. Captured(p).ckpt = draft[p].ckpt
          /\ Captured(p).turns = Append(draft[p].turns, turn[p])
      BY <1>2 DEF Captured, States
    <3>4. draft[p].turns = mem[p].turns /\ IsPrefixOf(draft[p].ckpt, draft[p].turns)
      BY <1>5, <3>1 DEF DraftInv, Summarises
    <3>5. IsPrefixOf(draft[p].ckpt, Append(draft[p].turns, turn[p]))
      BY <1>3, <3>2, <3>4, PrefixAppend
    <3> QED  BY <1>5, <3>1, <3>3, <3>4, <3>5 DEF Summarises
  <2>7. CASE Save(p) \/ Reset(p)
    <3>1. /\ pc'[p] = "publish" /\ cand'[p] = store' /\ mem'[p] = mem[p]
      BY <2>7 DEF Save, Reset, Write
    <3> QED  BY <1>4, <1>5, <3>1
  <2>8. CASE SaveConflict(p)
    BY <1>5, <2>8 DEF SaveConflict
  <2>9. CASE Rebase(p)
    <3>1. /\ pc'[p] = "save" /\ pc[p] = "rebase" /\ cand'[p] = Rebased(p)
          /\ mem'[p] = mem[p] /\ draft'[p] = draft[p]
      BY <2>9 DEF Rebase
    <3>2. /\ Rebased(p).turns = store.turns \o Drop(draft[p].turns, Len(mem[p].turns))
          /\ Rebased(p).ckpt \in {draft[p].ckpt, store.ckpt}
      BY <1>2 DEF Rebased, States
    <3>3. draft[p].turns = Append(mem[p].turns, turn[p]) /\ turn[p] \in Turns
      BY <3>1 DEF DraftInv, TurnInv, InProgress
    <3>4. Rebased(p).turns = Append(store.turns, turn[p])
      <4>1. \A s, b \in Seq(Turns), t \in Turns :
              b \o Drop(Append(s, t), Len(s)) = Append(b, t)
        BY DropAppend
      <4>2. store.turns \o Drop(Append(mem[p].turns, turn[p]), Len(mem[p].turns))
              = Append(store.turns, turn[p])
        BY <1>3, <3>3, <4>1
      <4> QED  BY <3>2, <3>3, <4>2
    <3>5. IsPrefixOf(draft[p].ckpt, store.turns)
      <4>1. IsPrefixOf(draft[p].ckpt, mem[p].turns)
        BY <1>5, <3>1
      <4>2. IsPrefixOf(mem[p].turns, store.turns)
        BY <2>9 DEF Rebase, ExtendsCommitted
      <4> QED  BY <1>3, <4>1, <4>2, PrefixTransitive
    <3>6. IsPrefixOf(store.ckpt, store.turns)
      BY <1>5 DEF Summarises
    <3>7. /\ IsPrefixOf(draft[p].ckpt, Append(store.turns, turn[p]))
          /\ IsPrefixOf(store.ckpt, Append(store.turns, turn[p]))
      BY <1>3, <3>3, <3>5, <3>6, PrefixAppend
    <3>8. Summarises(Rebased(p))
      BY <3>2, <3>4, <3>7 DEF Summarises
    <3> QED  BY <1>5, <3>1, <3>8
  <2>10. CASE Publish(p)
    BY <1>5, <2>10 DEF Publish, Return
  <2>11. CASE Crash(p)
    BY <2>11, FreshState DEF Crash, Return
  <2>12. CASE Restart(p)
    BY <1>5, <2>12 DEF Restart
  <2> QED
    BY <2>1, <2>2, <2>3, <2>4, <2>5, <2>6, <2>7, <2>8, <2>9, <2>10, <2>11,
       <2>12, StepCases
<1>8. \A q \in Procs : Ok(q)'
  BY <1>6, <1>7
<1> QED  BY <1>4, <1>8 DEF CkptInv

LEMMA RollbackStep ==
    ASSUME IInv, TypeOK', NEW p \in Procs, Step(p) PROVE RollbackIsComplete'
<1>1. TypeOK /\ RollbackIsComplete  BY DEF IInv
<1> DEFINE Ok(q) == pc[q] \in {"idle", "adopt"} => live[q] = Attributes(mem[q])
<1>2. ASSUME NEW q \in Procs, q # p PROVE Ok(q)'
  <2>1. Same(q) /\ Ok(q)  BY <1>1, <1>2, OnlyOneProcess DEF RollbackIsComplete
  <2> QED  BY <2>1 DEF Same
<1>3. Ok(p)'
  <2> USE <1>1 DEF TypeOK, RollbackIsComplete
  <2>1. ASSUME NEW t \in Turns, StartTurn(p, t) PROVE Ok(p)'
    BY <2>1 DEF StartTurn, OpenDraft
  <2>2. CASE Adopt(p)
    BY <2>2 DEF Adopt, OpenDraft
  <2>3. CASE QuietEnd(p)
    BY <2>3 DEF QuietEnd, EndTurn, RestoreAttributes
  <2>4. CASE PrepareContext(p) \/ FinishTurn(p)
    BY <2>4 DEF PrepareContext, FinishTurn
  <2>5. CASE Work(p)
    BY <2>5 DEF Work
  <2>6. CASE Save(p) \/ Reset(p)
    BY <2>6 DEF Save, Reset, Write
  <2>7. CASE SaveConflict(p) \/ Rebase(p)
    BY <2>7 DEF SaveConflict, Rebase
  <2>8. CASE Publish(p)
    BY <2>8 DEF Publish
  <2>9. CASE Crash(p)
    BY <2>9 DEF Crash, Return
  <2>10. CASE Restart(p)
    BY <2>10 DEF Restart
  <2> QED
    BY <2>1, <2>2, <2>3, <2>4, <2>5, <2>6, <2>7, <2>8, <2>9, <2>10, StepCases
<1>4. \A q \in Procs : Ok(q)'
  BY <1>2, <1>3
<1> QED  BY <1>4 DEF RollbackIsComplete

LEMMA TurnInvStep ==
    ASSUME IInv, TypeOK', NEW p \in Procs, Step(p) PROVE TurnInv'
<1>1. TypeOK /\ TurnInv  BY DEF IInv
<1> DEFINE Ok(q) ==
      /\ pc[q] \in InProgress => turn[q] \in Turns /\ outcome[turn[q]] = "running"
      /\ pc[q] \in {"idle", "down"} => turn[q] = NoTurn
      /\ pc[q] = "publish" /\ turn[q] # NoTurn
           => outcome[turn[q]] = "committed" /\ turn[q] \in Persisted \cup erased
<1>2. \A q \in Procs : Ok(q)  BY <1>1 DEF TurnInv
<1>3. \A q, r \in Procs : turn[q] = turn[r] /\ turn[q] # NoTurn => q = r
  BY <1>1 DEF TurnInv
<1>4. \A q \in Procs : turn[q] # NoTurn
                       => turn[q] \in Turns /\ outcome[turn[q]] \in {"running", "committed"}
  <2>1. \A q \in Procs : turn[q] \in Turns \cup {NoTurn} /\ pc[q] \in Places
    BY <1>1 DEF TypeOK
  <2> QED  BY <1>2, <2>1 DEF Places, InProgress
<1>5. Persisted \cup erased \subseteq Persisted' \cup erased'
  BY KeptStep
<1>6. \A q \in Procs : q # p => Same(q)
  BY <1>1, OnlyOneProcess
(* The turns of the other processes keep their outcome. *)
<1>7. \/ \E t \in Turns : /\ StartTurn(p, t) /\ turn'[p] = t /\ outcome[t] = "new"
                          /\ outcome'[t] = "running"
                          /\ \A u \in Turns : u # t => outcome'[u] = outcome[u]
      \/ /\ turn'[p] \in {turn[p], NoTurn}
         /\ \A u \in Turns : u # turn[p] => outcome'[u] = outcome[u]
  <2> USE <1>1 DEF TypeOK
  <2>1. ASSUME NEW t \in Turns, StartTurn(p, t)
        PROVE  /\ turn'[p] = t /\ outcome[t] = "new" /\ outcome'[t] = "running"
               /\ \A u \in Turns : u # t => outcome'[u] = outcome[u]
    BY <2>1 DEF StartTurn
  <2>2. CASE Adopt(p)
    BY <2>2 DEF Adopt, OpenDraft, History
  <2>3. CASE QuietEnd(p)
    BY <2>3 DEF QuietEnd, EndTurn, Return
  <2>4. CASE PrepareContext(p) \/ Work(p) \/ FinishTurn(p)
    BY <2>4 DEF PrepareContext, Work, FinishTurn, History
  <2>5. CASE Save(p)
    BY <2>5 DEF Save
  <2>6. CASE SaveConflict(p) \/ Rebase(p)
    BY <2>6 DEF SaveConflict, Rebase, History
  <2>7. CASE Publish(p)
    BY <2>7 DEF Publish, Return
  <2>8. CASE Reset(p)
    BY <2>8 DEF Reset
  <2>9. CASE Crash(p)
    BY <2>9 DEF Crash, Return
  <2>10. CASE Restart(p)
    BY <2>10 DEF Restart, History
  <2> QED
    BY <2>1, <2>2, <2>3, <2>4, <2>5, <2>6, <2>7, <2>8, <2>9, <2>10, StepCases
<1>8. ASSUME NEW q \in Procs, q # p PROVE Ok(q)'
  <2>1. turn'[q] = turn[q] /\ pc'[q] = pc[q]  BY <1>6, <1>8 DEF Same
  <2>2. turn[q] # NoTurn => turn[q] # turn[p]  BY <1>3, <1>8
  <2>3. turn[q] # NoTurn => outcome'[turn[q]] = outcome[turn[q]]
    BY <1>4, <1>7, <2>2
  <2>4. turn[q] \in Turns => turn[q] # NoTurn
    BY NoTurnAssumption
  <2> QED  BY <1>2, <1>5, <2>1, <2>3, <2>4
<1>9. Ok(p)'
  <2> USE <1>1 DEF TypeOK
  <2>1. ASSUME NEW t \in Turns, StartTurn(p, t) PROVE Ok(p)'
    <3>1. turn'[p] = t /\ outcome'[t] = "running" /\ pc'[p] \in {"adopt", "prompt"}
      BY <2>1 DEF StartTurn, OpenDraft
    <3> QED  BY <3>1 DEF InProgress
  <2>2. CASE Adopt(p)
    <3>1. /\ pc[p] = "adopt" /\ pc'[p] = "prompt" /\ turn'[p] = turn[p]
          /\ outcome' = outcome
      BY <2>2 DEF Adopt, OpenDraft, History
    <3> QED  BY <1>2, <3>1 DEF InProgress
  <2>3. CASE QuietEnd(p) \/ Publish(p) \/ Crash(p)
    <3>1. pc'[p] \in {"idle", "down"} /\ turn'[p] = NoTurn
      BY <2>3 DEF QuietEnd, EndTurn, Publish, Crash, Return
    <3> QED  BY <3>1 DEF InProgress
  <2>4. CASE PrepareContext(p) \/ Work(p) \/ FinishTurn(p)
    <3>1. /\ pc[p] \in InProgress /\ pc'[p] \in {"running", "save"}
          /\ turn'[p] = turn[p] /\ outcome' = outcome
      BY <2>4 DEF PrepareContext, Work, FinishTurn, History, InProgress
    <3> QED  BY <1>2, <3>1 DEF InProgress
  <2>5. CASE Save(p)
    <3>1. /\ pc'[p] = "publish" /\ turn'[p] = turn[p] /\ turn[p] \in Turns
          /\ outcome'[turn[p]] = "committed" /\ turn[p] \in Persisted'
      <4>1. pc'[p] = "publish" /\ turn'[p] = turn[p]
        BY <2>5 DEF Save, Write
      <4>2. /\ turn[p] \in Turns /\ turn[p] \in Persisted'
            /\ outcome' = [outcome EXCEPT ![turn[p]] = "committed"]
        BY <2>5, SaveEffect
      <4> QED  BY <4>1, <4>2
    <3> QED  BY <3>1 DEF InProgress
  <2>6. CASE SaveConflict(p) \/ Rebase(p)
    <3>1. /\ pc[p] \in {"save", "rebase"} /\ pc'[p] \in {"save", "rebase"}
          /\ turn'[p] = turn[p] /\ outcome' = outcome
      BY <2>6 DEF SaveConflict, Rebase, History
    <3> QED  BY <1>2, <3>1 DEF InProgress
  <2>7. CASE Reset(p)
    <3>1. pc[p] = "idle" /\ pc'[p] = "publish" /\ turn'[p] = turn[p]
      BY <2>7 DEF Reset, Write
    <3> QED  BY <1>2, <3>1 DEF InProgress
  <2>8. CASE Restart(p)
    <3>1. pc[p] = "down" /\ pc'[p] = "idle" /\ turn'[p] = turn[p]
      BY <2>8 DEF Restart
    <3> QED  BY <1>2, <3>1 DEF InProgress
  <2> QED
    BY <2>1, <2>2, <2>3, <2>4, <2>5, <2>6, <2>7, <2>8, StepCases
<1>10. ASSUME NEW q \in Procs, NEW r \in Procs, turn'[q] = turn'[r], turn'[q] # NoTurn
       PROVE  q = r
  <2>1. CASE turn'[p] \in {turn[p], NoTurn}
    BY <1>3, <1>6, <1>10, <2>1 DEF Same
  <2>2. CASE turn'[p] \in Turns /\ outcome[turn'[p]] = "new"
    BY <1>3, <1>4, <1>6, <1>10, <2>2 DEF Same
  <2> QED  BY <1>7, <2>1, <2>2
<1>11. \A q \in Procs : Ok(q)'
  BY <1>8, <1>9
<1> QED  BY <1>10, <1>11 DEF TurnInv

(* What committed stays committed. *)
LEMMA OutcomeKept ==
    ASSUME IInv, TypeOK', NEW p \in Procs, Step(p), NEW t \in Turns
    PROVE  outcome[t] = "committed" => outcome'[t] = "committed"
<1>0. TypeOK /\ TurnInv  BY DEF IInv
<1> USE <1>0 DEF TypeOK
<1>1. ASSUME NEW u \in Turns, StartTurn(p, u)
      PROVE  outcome[t] = "committed" => outcome'[t] = "committed"
  BY <1>1 DEF StartTurn
<1>2. CASE QuietEnd(p)
  BY <1>2 DEF QuietEnd, EndTurn, TurnInv
<1>3. CASE Save(p)
  BY <1>3, SaveEffect
<1>4. CASE Crash(p)
  BY <1>4 DEF Crash
<1>5. CASE Adopt(p) \/ PrepareContext(p) \/ Work(p) \/ FinishTurn(p)
  BY <1>5 DEF Adopt, PrepareContext, Work, FinishTurn, History
<1>6. CASE SaveConflict(p) \/ Rebase(p) \/ Reset(p) \/ Publish(p) \/ Restart(p)
  BY <1>6 DEF SaveConflict, Rebase, Reset, Publish, Restart, History
<1> QED  BY <1>1, <1>2, <1>3, <1>4, <1>5, <1>6, StepCases

LEMMA DurableStep ==
    ASSUME IInv, TypeOK', NEW p \in Procs, Step(p)
    PROVE  AnswersAreDurable' /\ CommittedOnce'
<1>1. TypeOK /\ TurnInv /\ AnswersAreDurable /\ CommittedOnce  BY DEF IInv
<1>2. answered' \subseteq Persisted' \cup erased'
  <2>1. answered' \subseteq answered \cup ({turn[p]} \ {NoTurn})
        /\ (answered' = answered \/ Publish(p))
    <3>1. ASSUME NEW t \in Turns, StartTurn(p, t) PROVE answered' = answered
      BY <3>1 DEF StartTurn
    <3>2. CASE Adopt(p) \/ PrepareContext(p) \/ Work(p) \/ FinishTurn(p)
      BY <3>2 DEF Adopt, PrepareContext, Work, FinishTurn, History
    <3>3. CASE QuietEnd(p)
      BY <3>3 DEF QuietEnd, EndTurn
    <3>4. CASE Save(p) \/ SaveConflict(p) \/ Rebase(p) \/ Reset(p)
      BY <3>4 DEF Save, SaveConflict, Rebase, Reset, History
    <3>5. CASE Crash(p) \/ Restart(p)
      BY <3>5 DEF Crash, Restart, History
    <3>6. CASE Publish(p)
      BY <3>6 DEF Publish
    <3> QED  BY <3>1, <3>2, <3>3, <3>4, <3>5, <3>6, StepCases
  <2>2. answered \subseteq Persisted \cup erased
    BY <1>1 DEF AnswersAreDurable
  <2>3. Publish(p) /\ turn[p] # NoTurn => turn[p] \in Persisted \cup erased
    BY <1>1 DEF Publish, TurnInv
  <2> QED  BY <2>1, <2>2, <2>3, KeptStep
<1>3. ASSUME NEW t \in Turns PROVE outcome'[t] # "committed" => t \notin Persisted'
  <2>1. outcome[t] # "committed" => t \notin Persisted
    BY <1>1 DEF AnswersAreDurable
  <2>2. outcome[t] = "committed" => outcome'[t] = "committed"
    BY OutcomeKept
  <2>3. CASE store' = store
    BY <2>1, <2>2, <2>3 DEF Persisted
  <2>4. CASE Save(p)
    <3>1. /\ Persisted' = Persisted \cup {turn[p]} /\ turn[p] \in Turns
          /\ outcome' = [outcome EXCEPT ![turn[p]] = "committed"]
      BY <2>4, SaveEffect
    <3> QED  BY <1>1, <2>1, <2>2, <3>1 DEF TypeOK
  <2>5. CASE store'.turns = << >>
    BY <2>5 DEF Persisted
  <2> QED  BY <1>1, <2>3, <2>4, <2>5, StoreEffect
<1>4. CommittedOnce'
  <2>1. CASE store' = store
    BY <1>1, <2>1 DEF CommittedOnce
  <2>2. CASE Save(p)
    <3> DEFINE s == store.turns
               t == turn[p]
    <3>1. /\ s \in Seq(Turns) /\ t \in Turns /\ store'.turns = Append(s, t)
          /\ \A i \in DOMAIN s : s[i] # t
          /\ \A i, j \in DOMAIN s : s[i] = s[j] => i = j
      BY <1>1, <2>2, SaveEffect DEF Persisted, CommittedOnce
    <3> HIDE DEF s, t
    <3>2. /\ DOMAIN Append(s, t) = 1..(Len(s) + 1) /\ DOMAIN s = 1..Len(s)
          /\ Len(s) \in Nat
          /\ \A i \in 1..Len(s) : Append(s, t)[i] = s[i]
          /\ Append(s, t)[Len(s) + 1] = t
      BY <3>1
    <3>3. ASSUME NEW i \in 1..(Len(s) + 1), NEW j \in 1..(Len(s) + 1),
                 Append(s, t)[i] = Append(s, t)[j]
          PROVE  i = j
      <4>1. i \in 1..Len(s) \/ i = Len(s) + 1  BY <3>2
      <4>2. j \in 1..Len(s) \/ j = Len(s) + 1  BY <3>2
      <4> QED  BY <3>1, <3>2, <3>3, <4>1, <4>2
    <3> QED  BY <3>1, <3>2, <3>3 DEF CommittedOnce
  <2>3. CASE store'.turns = << >>
    BY <2>3 DEF CommittedOnce
  <2> QED  BY <1>1, <2>1, <2>2, <2>3, StoreEffect
<1> QED  BY <1>2, <1>3, <1>4 DEF AnswersAreDurable

-----------------------------------------------------------------------------
(* The counters and the tool-call log *)

(* A prefix of a longer log is a prefix of the log, or all of the longer   *)
(* one.                                                                    *)
LEMMA PrefixOfAppend ==
    ASSUME NEW r \in Seq(Turns), NEW s \in Seq(Turns), NEW t \in Turns,
           IsPrefixOf(r, Append(s, t))
    PROVE  IsPrefixOf(r, s) \/ \E i \in DOMAIN r : r[i] = t
<1>1. /\ Len(r) \in Nat /\ Len(s) \in Nat /\ DOMAIN r = 1..Len(r)
      /\ Len(Append(s, t)) = Len(s) + 1
      /\ \A i \in 1..Len(s) : Append(s, t)[i] = s[i]
      /\ Append(s, t)[Len(s) + 1] = t
  OBVIOUS
<1>2. CASE Len(r) <= Len(s)
  <2>1. \A i \in 1..Len(r) : i \in 1..Len(s) /\ r[i] = Append(s, t)[i]
    BY <1>1, <1>2 DEF IsPrefixOf
  <2> QED  BY <1>1, <1>2, <2>1 DEF IsPrefixOf
<1>3. CASE ~(Len(r) <= Len(s))
  <2>0. Len(r) <= Len(Append(s, t))
    BY DEF IsPrefixOf
  <2>1. Len(r) = Len(s) + 1
    <3> DEFINE n == Len(r)
               m == Len(s)
    <3>1. n \in Nat /\ m \in Nat /\ n <= m + 1 /\ ~(n <= m)
      BY <1>1, <1>3, <2>0
    <3> HIDE DEF n, m
    <3>2. n = m + 1  BY <3>1
    <3> QED  BY <3>2 DEF n, m
  <2>2. Len(s) + 1 \in 1..Len(r)
    BY <1>1, <2>1
  <2>3. r[Len(s) + 1] = Append(s, t)[Len(s) + 1]
    BY <2>2 DEF IsPrefixOf
  <2> QED  BY <1>1, <2>2, <2>3
<1> QED  BY <1>2, <1>3

(* What the file holds is settled, and follows itself.                     *)
LEMMA StoreSettled ==
    TypeOK /\ AnswersAreDurable /\ UsageIsExact => Settled(store) /\ Follows(store)
<1> SUFFICES ASSUME TypeOK, AnswersAreDurable, UsageIsExact
             PROVE  Settled(store) /\ Follows(store)
  OBVIOUS
<1>1. store.turns \in Seq(Turns) /\ store.calls \in Seq(Turns)
  <2>1. store \in States  BY DEF TypeOK
  <2> QED  BY <2>1 DEF States
<1>2. \A i \in DOMAIN store.turns : outcome[store.turns[i]] = "committed"
  BY <1>1 DEF AnswersAreDurable, Persisted
<1>3. store.turns = << >> => store.calls = << >>
  <2> SUFFICES ASSUME store.turns = << >>, store.calls # << >> PROVE FALSE
    OBVIOUS
  <2>1. 1 \in DOMAIN store.calls  BY <1>1
  <2>2. store.calls[1] \in Persisted  BY <2>1 DEF UsageIsExact
  <2> QED  BY <2>2 DEF Persisted
<1> QED  BY <1>1, <1>2, <1>3, PrefixReflexive DEF Settled, Follows

LEMMA FreshSettled == Settled(Fresh) /\ Follows(Fresh) /\ (Settled(Fresh) /\ Follows(Fresh))'
BY EmptySeq DEF Settled, Follows, Fresh, IsPrefixOf

(* A commit writes the counters of its candidate; a reset writes none.     *)
LEMMA CallsEffect ==
    ASSUME TypeOK, NEW p \in Procs
    PROVE  /\ Save(p) => store'.calls = cand[p].calls /\ store'.usage = cand[p].usage
           /\ Reset(p) => store'.calls = << >> /\ store'.usage = 0
<1>1. cand[p] \in States /\ store \in States  BY DEF TypeOK
<1>2. ASSUME Save(p) PROVE store'.calls = cand[p].calls /\ store'.usage = cand[p].usage
  <2>1. store' = [cand[p] EXCEPT !.rev = store.rev + 1]  BY <1>2 DEF Save, Write
  <2> QED  BY <1>1, <2>1 DEF States
<1>3. ASSUME Reset(p) PROVE store'.calls = << >> /\ store'.usage = 0
  <2>1. store' = [Fresh EXCEPT !.rev = store.rev + 1]  BY <1>3 DEF Reset, Write
  <2> QED  BY <2>1 DEF Fresh
<1> QED  BY <1>2, <1>3

(* What a save adds to the counters of the file.                           *)
LEMMA SaveAdds ==
    ASSUME IInv, NEW p \in Procs, Save(p)
    PROVE  /\ store.calls \in Seq(Turns) /\ store.usage \in Nat
           /\ \/ store'.calls = store.calls /\ store'.usage = store.usage
              \/ /\ store'.calls = Append(store.calls, turn[p])
                 /\ store'.usage = store.usage + 1
<1>1. TypeOK /\ CallsInv  BY DEF IInv
<1>2. store \in States  BY <1>1 DEF TypeOK
<1>3. Adds(cand[p], store, turn[p])
  BY <1>1 DEF CallsInv, Save, OwnsRevision
<1>4. store'.calls = cand[p].calls /\ store'.usage = cand[p].usage
  BY <1>1, CallsEffect
<1> QED  BY <1>2, <1>3, <1>4 DEF Adds, States

LEMMA UsageStep ==
    ASSUME IInv, TypeOK', NEW p \in Procs, Step(p) PROVE UsageIsExact'
<1>1. TypeOK /\ UsageIsExact  BY DEF IInv
<1>2. CASE store' = store
  BY <1>1, <1>2 DEF UsageIsExact, Persisted
<1>3. CASE Save(p)
  <2>1. /\ Persisted' = Persisted \cup {turn[p]} /\ turn[p] \notin Persisted
        /\ turn[p] \in Turns
    BY <1>3, SaveEffect
  <2>2. CASE store'.calls = store.calls /\ store'.usage = store.usage
    BY <1>1, <2>1, <2>2 DEF UsageIsExact
  <2>3. CASE /\ store'.calls = Append(store.calls, turn[p])
             /\ store'.usage = store.usage + 1
    <3> DEFINE s == store.calls
               t == turn[p]
    <3>1. /\ s \in Seq(Turns) /\ t \in Turns /\ store'.calls = Append(s, t)
          /\ \A i \in DOMAIN s : s[i] \in Persisted /\ s[i] # t
          /\ \A i, j \in DOMAIN s : s[i] = s[j] => i = j
          /\ store'.usage = Len(s) + 1
      BY <1>1, <1>3, <2>1, <2>3, SaveAdds DEF UsageIsExact
    <3>2. Persisted' = Persisted \cup {t}
      BY <2>1
    <3> HIDE DEF s, t
    <3>3. /\ DOMAIN Append(s, t) = 1..(Len(s) + 1) /\ DOMAIN s = 1..Len(s)
          /\ Len(s) \in Nat /\ Len(Append(s, t)) = Len(s) + 1
          /\ \A i \in 1..Len(s) : Append(s, t)[i] = s[i]
          /\ Append(s, t)[Len(s) + 1] = t
      BY <3>1
    <3>4. ASSUME NEW i \in 1..(Len(s) + 1)
          PROVE  i \in 1..Len(s) \/ i = Len(s) + 1
      BY <3>3
    <3>5. ASSUME NEW i \in 1..(Len(s) + 1)
          PROVE  Append(s, t)[i] \in Persisted'
      BY <3>1, <3>2, <3>3, <3>4
    <3>6. ASSUME NEW i \in 1..(Len(s) + 1), NEW j \in 1..(Len(s) + 1),
                 Append(s, t)[i] = Append(s, t)[j]
          PROVE  i = j
      <4>1. i \in 1..Len(s) \/ i = Len(s) + 1  BY <3>4
      <4>2. j \in 1..Len(s) \/ j = Len(s) + 1  BY <3>4
      <4> QED  BY <3>1, <3>3, <3>6, <4>1, <4>2
    <3> QED  BY <3>1, <3>3, <3>5, <3>6 DEF UsageIsExact
  <2> QED  BY <1>3, <2>2, <2>3, SaveAdds
<1>4. CASE Reset(p)
  <2>1. store'.calls = << >> /\ store'.usage = 0  BY <1>1, <1>4, CallsEffect
  <2> QED  BY <2>1 DEF UsageIsExact
<1> QED  BY <1>1, <1>2, <1>3, <1>4, StoreEffect

(* A state that was settled stays settled, whatever is committed,          *)
LEMMA SettledKept ==
    ASSUME IInv, TypeOK', NEW p \in Procs, Step(p), NEW s \in States, Settled(s)
    PROVE  Settled(s)'
<1>1. \A i \in DOMAIN s.turns : s.turns[i] \in Turns
  BY DEF States
<1> QED  BY <1>1, OutcomeKept DEF Settled

(* and goes on following the file.                                         *)
LEMMA FollowsKept ==
    ASSUME IInv, TypeOK', NEW p \in Procs, Step(p), NEW s \in States,
           Settled(s), Follows(s)
    PROVE  Follows(s)'
<1>1. TypeOK  BY DEF IInv
<1>2. s.turns \in Seq(Turns) /\ s.calls \in Seq(Turns)  BY DEF States
<1>3. CASE store' = store
  BY <1>3 DEF Follows
<1>4. CASE Save(p)
  <2> SUFFICES ASSUME IsPrefixOf(s.turns, store'.turns)
               PROVE  IsPrefixOf(s.calls, store'.calls)
    BY DEF Follows
  <2>1. /\ turn[p] \in Turns /\ outcome[turn[p]] = "running"
        /\ store.turns \in Seq(Turns)
        /\ store'.turns = Append(store.turns, turn[p])
    BY <1>4, SaveEffect
  <2>2. ~ \E i \in DOMAIN s.turns : s.turns[i] = turn[p]
    BY <2>1 DEF Settled
  <2>3. IsPrefixOf(s.turns, store.turns)
    BY <1>2, <2>1, <2>2, PrefixOfAppend
  <2>4. IsPrefixOf(s.calls, store.calls)
    BY <2>3 DEF Follows
  <2>5. CASE store'.calls = store.calls
    BY <2>4, <2>5
  <2>6. CASE store'.calls = Append(store.calls, turn[p])
    <3>1. store.calls \in Seq(Turns)  BY <1>4, SaveAdds
    <3> QED  BY <1>2, <2>1, <2>4, <2>6, <3>1, PrefixAppend
  <2> QED  BY <1>4, <2>5, <2>6, SaveAdds
<1>5. CASE Reset(p) /\ store'.turns = << >>
  <2> SUFFICES ASSUME IsPrefixOf(s.turns, << >>)
               PROVE  IsPrefixOf(s.calls, store'.calls)
    BY <1>5 DEF Follows
  <2>1. s.turns = << >>
    BY <1>2 DEF IsPrefixOf
  <2>2. s.calls = << >> /\ store'.calls = << >>
    BY <1>1, <1>5, <2>1, CallsEffect DEF Settled
  <2> QED  BY <2>2 DEF IsPrefixOf
<1> QED  BY <1>1, <1>3, <1>4, <1>5, StoreEffect

(* A rebase adds to the file what its turn added to its base.              *)
LEMMA RebaseAdds ==
    ASSUME IInv, NEW p \in Procs, Rebase(p)
    PROVE  Adds(Rebased(p), store, turn[p])
<1>1. TypeOK /\ TurnInv /\ CallsInv  BY DEF IInv
<1>2. /\ store \in States /\ mem[p] \in States /\ draft[p] \in States
  BY <1>1 DEF TypeOK
<1>3. /\ store.calls \in Seq(Turns) /\ mem[p].calls \in Seq(Turns)
      /\ store.usage \in Nat /\ mem[p].usage \in Nat /\ turn[p] \in Turns
  BY <1>1, <1>2 DEF States, Rebase, TurnInv, InProgress
<1>4. IsPrefixOf(mem[p].calls, store.calls)
  BY <1>1 DEF CallsInv, Follows, Rebase, ExtendsCommitted
<1>5. Adds(draft[p], mem[p], turn[p])
  BY <1>1 DEF CallsInv, Rebase
<1>6. /\ Rebased(p).calls = store.calls \o Drop(draft[p].calls, Len(mem[p].calls))
      /\ Rebased(p).usage = store.usage + (IF draft[p].usage > mem[p].usage
                                           THEN draft[p].usage - mem[p].usage ELSE 0)
  BY <1>2, <1>4 DEF Rebased, States
<1>7. CASE draft[p].usage = mem[p].usage /\ draft[p].calls = mem[p].calls
  <2>1. \A b, s \in Seq(Turns) : b \o Drop(s, Len(s)) = b
    BY DEF Drop
  <2>2. Rebased(p).calls = store.calls  BY <1>3, <1>6, <1>7, <2>1
  <2>3. Rebased(p).usage = store.usage  BY <1>3, <1>6, <1>7
  <2> QED  BY <2>2, <2>3 DEF Adds
<1>8. CASE /\ draft[p].usage = mem[p].usage + 1
           /\ draft[p].calls = Append(mem[p].calls, turn[p])
  <2>1. \A s, b \in Seq(Turns), t \in Turns :
          b \o Drop(Append(s, t), Len(s)) = Append(b, t)
    BY DropAppend
  <2>2. Rebased(p).calls = Append(store.calls, turn[p])
    <3>1. store.calls \o Drop(Append(mem[p].calls, turn[p]), Len(mem[p].calls))
            = Append(store.calls, turn[p])
      BY <1>3, <2>1
    <3> QED  BY <1>6, <1>8, <3>1
  <2>3. Rebased(p).usage = store.usage + 1  BY <1>3, <1>6, <1>8
  <2> QED  BY <2>2, <2>3 DEF Adds
<1> QED  BY <1>5, <1>7, <1>8 DEF Adds

LEMMA CallsStep ==
    ASSUME IInv, TypeOK', AnswersAreDurable', UsageIsExact', NEW p \in Procs, Step(p)
    PROVE  CallsInv'
<1>1. TypeOK /\ TurnInv /\ MemInv /\ DraftInv /\ CandInv /\ CallsInv  BY DEF IInv
<1>2. /\ store \in States /\ store.rev \in Nat
      /\ \A q \in Procs : /\ mem[q] \in States /\ draft[q] \in States
                          /\ cand[q] \in States /\ cand[q].rev \in Nat
  <2>1. /\ store \in States
        /\ \A q \in Procs : mem[q] \in States /\ draft[q] \in States /\ cand[q] \in States
    BY <1>1 DEF TypeOK
  <2> QED  BY <2>1 DEF States
<1> DEFINE Ok(q) ==
      /\ Settled(mem[q]) /\ Follows(mem[q])
      /\ pc[q] = "publish" => Settled(cand[q]) /\ Follows(cand[q])
      /\ pc[q] \in {"prompt", "running"} => Adds(live[q], mem[q], turn[q])
      /\ pc[q] \in {"save", "rebase"} => Adds(draft[q], mem[q], turn[q])
      /\ pc[q] = "save" /\ cand[q].rev = store.rev => Adds(cand[q], store, turn[q])
<1>3. \A q \in Procs : Ok(q)
  BY <1>1 DEF CallsInv
<1>4. \A s \in States : Settled(s) /\ Follows(s) => Settled(s)' /\ Follows(s)'
  BY SettledKept, FollowsKept
<1>5. ASSUME NEW q \in Procs, mem'[q] = mem[q] PROVE Settled(mem[q])' /\ Follows(mem[q])'
  BY <1>2, <1>3, <1>4, <1>5 DEF Settled, Follows
<1>6. Settled(store)' /\ Follows(store)'
  <2>1. (TypeOK /\ AnswersAreDurable /\ UsageIsExact => Settled(store) /\ Follows(store))'
    BY StoreSettled, PTL
  <2> QED  BY <2>1
<1>7. ASSUME NEW q \in Procs, q # p PROVE Ok(q)'
  <2>1. Same(q)  BY <1>1, <1>7, OnlyOneProcess
  <2>2. store' = store \/ store'.rev = store.rev + 1  BY <1>1, StoreEffect
  <2>3. Settled(mem[q])' /\ Follows(mem[q])'  BY <1>5, <2>1 DEF Same
  <2>4. ASSUME pc'[q] = "publish" PROVE Settled(cand[q])' /\ Follows(cand[q])'
    <3>1. /\ cand'[q] = cand[q] /\ cand[q] \in States
          /\ Settled(cand[q]) /\ Follows(cand[q])
      BY <1>2, <1>3, <2>1, <2>4 DEF Same
    <3> QED  BY <1>4, <3>1 DEF Settled, Follows
  <2>5. /\ pc'[q] \in {"prompt", "running"} => Adds(live'[q], mem'[q], turn'[q])
        /\ pc'[q] \in {"save", "rebase"} => Adds(draft'[q], mem'[q], turn'[q])
    BY <1>3, <2>1 DEF Same
  <2>6. pc'[q] = "save" /\ cand'[q].rev = store'.rev => Adds(cand'[q], store', turn'[q])
    <3>1. CASE store' = store
      BY <1>3, <2>1, <3>1 DEF Same
    <3>2. CASE store'.rev = store.rev + 1
      <4>1. pc[q] = "save" => cand[q].rev <= store.rev  BY <1>1 DEF CandInv
      <4> QED  BY <1>2, <2>1, <3>2, <4>1 DEF Same
    <3> QED  BY <2>2, <3>1, <3>2
  <2> QED  BY <2>3, <2>4, <2>5, <2>6
<1>8. ASSUME pc[p] = "publish", mem'[p] = cand[p]
      PROVE  Settled(mem[p])' /\ Follows(mem[p])'
  <2>1. cand[p] \in States /\ Settled(cand[p]) /\ Follows(cand[p])
    BY <1>2, <1>3, <1>8
  <2>2. Settled(cand[p]) /\ Follows(cand[p]) => Settled(mem[p])' /\ Follows(mem[p])'
    BY <1>4, <1>8, <2>1 DEF Settled, Follows
  <2> QED  BY <2>1, <2>2
<1>9. Ok(p)'
  <2> USE <1>1 DEF TypeOK
  <2>1. ASSUME NEW t \in Turns, StartTurn(p, t) PROVE Ok(p)'
    <3>1. /\ mem'[p] = mem[p] /\ pc'[p] \in {"adopt", "prompt"}
          /\ pc'[p] = "prompt" => live'[p] = Attributes(mem[p])
      BY <2>1 DEF StartTurn, OpenDraft
    <3> QED  BY <1>5, <3>1 DEF Adds, Attributes
  <2>2. CASE Adopt(p)
    <3>1. /\ mem'[p] \in {mem[p], store'} /\ pc'[p] = "prompt"
          /\ live'[p] = Attributes(mem'[p])
      BY <2>2 DEF Adopt, OpenDraft
    <3>2. Settled(mem[p])' /\ Follows(mem[p])'
      BY <1>5, <1>6, <3>1 DEF Settled, Follows
    <3> QED  BY <3>1, <3>2 DEF Adds, Attributes
  <2>3. CASE QuietEnd(p)
    <3>1. mem'[p] = mem[p] /\ pc'[p] = "idle"
      BY <2>3 DEF QuietEnd, EndTurn, Return
    <3> QED  BY <1>5, <3>1
  <2>4. CASE PrepareContext(p)
    <3>1. /\ mem'[p] = mem[p] /\ turn'[p] = turn[p] /\ pc'[p] = "running"
          /\ pc[p] = "prompt"
      BY <2>4 DEF PrepareContext
    <3>2. live'[p].usage = live[p].usage /\ live'[p].calls = live[p].calls
      <4>1. CASE UNCHANGED live
        BY <4>1
      <4>2. CASE live' = [live EXCEPT ![p].reviewed = Len(draft[p].turns) + 1]
        <5>1. live[p] \in LiveType  BY DEF LiveType
        <5>2. live'[p] = [live[p] EXCEPT !.reviewed = Len(draft[p].turns) + 1]
          BY <4>2
        <5> QED  BY <5>1, <5>2 DEF LiveType
      <4> QED  BY <2>4, <4>1, <4>2 DEF PrepareContext
    <3>3. Adds(live[p], mem[p], turn[p])  BY <1>3, <3>1
    <3> QED  BY <1>5, <3>1, <3>2, <3>3 DEF Adds
  <2>5. CASE Work(p)
    <3>1. /\ mem'[p] = mem[p] /\ turn'[p] = turn[p] /\ pc'[p] = "running"
          /\ pc[p] = "running"
          /\ \A i \in DOMAIN live[p].calls : live[p].calls[i] # turn[p]
      BY <2>5 DEF Work, History
    <3>2. /\ live'[p].usage = live[p].usage + 1
          /\ live'[p].calls = Append(live[p].calls, turn[p])
      <4>1. live[p] \in LiveType  BY DEF LiveType
      <4>2. live'[p] = [live[p] EXCEPT !.usage = @ + 1, !.calls = Append(@, turn[p])]
        BY <2>5 DEF Work
      <4> QED  BY <4>1, <4>2 DEF LiveType
    <3>3. turn[p] \in Turns /\ mem[p].calls \in Seq(Turns)
      BY <1>2, <3>1 DEF TurnInv, InProgress, States
    <3>4. live[p].calls # Append(mem[p].calls, turn[p])
      <4>1. \A s \in Seq(Turns), t \in Turns :
              \E i \in DOMAIN Append(s, t) : Append(s, t)[i] = t
        <5> SUFFICES ASSUME NEW s \in Seq(Turns), NEW t \in Turns
                     PROVE  \E i \in DOMAIN Append(s, t) : Append(s, t)[i] = t
          OBVIOUS
        <5>1. Len(s) + 1 \in DOMAIN Append(s, t) /\ Append(s, t)[Len(s) + 1] = t
          OBVIOUS
        <5> QED  BY <5>1
      <4>2. PICK i \in DOMAIN Append(mem[p].calls, turn[p]) :
              Append(mem[p].calls, turn[p])[i] = turn[p]
        BY <3>3, <4>1
      <4> DEFINE c == live[p].calls
                 d == Append(mem[p].calls, turn[p])
      <4>3. i \in DOMAIN d /\ d[i] = turn[p] /\ \A j \in DOMAIN c : c[j] # turn[p]
        BY <3>1, <4>2
      <4> HIDE DEF c, d
      <4>4. c # d  BY <4>3
      <4> QED  BY <4>4 DEF c, d
    <3>5. Adds(live[p], mem[p], turn[p])  BY <1>3, <3>1
    <3> QED  BY <1>5, <3>1, <3>2, <3>4, <3>5 DEF Adds
  <2>6. CASE FinishTurn(p)
    <3>1. /\ mem'[p] = mem[p] /\ turn'[p] = turn[p] /\ pc'[p] = "save"
          /\ pc[p] = "running" /\ store' = store
          /\ draft'[p] = Captured(p) /\ cand'[p] = Captured(p)
      BY <2>6 DEF FinishTurn, History
    <3>2. /\ Captured(p).usage = live[p].usage /\ Captured(p).calls = live[p].calls
          /\ Captured(p).rev = draft[p].rev
      BY <1>2 DEF Captured, States
    <3>3. Adds(live[p], mem[p], turn[p])  BY <1>3, <3>1
    <3>4. Adds(Captured(p), mem[p], turn[p])  BY <3>2, <3>3 DEF Adds
    <3>5. Captured(p).rev = store.rev => mem[p] = store
      BY <3>1, <3>2 DEF DraftInv, MemInv
    <3> QED  BY <1>5, <3>1, <3>4, <3>5
  <2>7. CASE Save(p) \/ Reset(p)
    <3>1. mem'[p] = mem[p] /\ pc'[p] = "publish" /\ cand'[p] = store'
      BY <2>7 DEF Save, Reset, Write
    <3>2. Settled(cand[p])' /\ Follows(cand[p])'
      BY <1>6, <3>1 DEF Settled, Follows
    <3> QED  BY <1>5, <3>1, <3>2
  <2>8. CASE SaveConflict(p)
    <3>1. /\ mem'[p] = mem[p] /\ pc'[p] = "rebase" /\ pc[p] = "save"
          /\ turn'[p] = turn[p] /\ draft'[p] = draft[p]
      BY <2>8 DEF SaveConflict
    <3>2. Adds(draft[p], mem[p], turn[p])  BY <1>3, <3>1
    <3> QED  BY <1>5, <3>1, <3>2
  <2>9. CASE Rebase(p)
    <3>1. /\ mem'[p] = mem[p] /\ pc'[p] = "save" /\ pc[p] = "rebase"
          /\ turn'[p] = turn[p] /\ draft'[p] = draft[p] /\ store' = store
          /\ cand'[p] = Rebased(p)
      BY <2>9 DEF Rebase
    <3>2. Adds(draft[p], mem[p], turn[p])  BY <1>3, <3>1
    <3>3. Adds(Rebased(p), store, turn[p])  BY <2>9, RebaseAdds
    <3> QED  BY <1>5, <3>1, <3>2, <3>3
  <2>10. CASE Publish(p)
    <3>1. mem'[p] = cand[p] /\ pc'[p] = "idle" /\ pc[p] = "publish"
      BY <2>10 DEF Publish, Return
    <3> QED  BY <1>8, <3>1
  <2>11. CASE Crash(p)
    <3>1. mem'[p] = Fresh /\ pc'[p] = "down"
      BY <2>11 DEF Crash, Return
    <3>2. Settled(mem[p])' /\ Follows(mem[p])'
      BY <3>1, FreshSettled DEF Settled, Follows
    <3> QED  BY <3>1, <3>2
  <2>12. CASE Restart(p)
    <3>1. mem'[p] = store' /\ pc'[p] = "idle"
      BY <2>12 DEF Restart
    <3>2. Settled(mem[p])' /\ Follows(mem[p])'
      BY <1>6, <3>1 DEF Settled, Follows
    <3> QED  BY <3>1, <3>2
  <2> QED
    BY <2>1, <2>2, <2>3, <2>4, <2>5, <2>6, <2>7, <2>8, <2>9, <2>10, <2>11,
       <2>12, StepCases
<1>10. \A q \in Procs : Ok(q)'
  BY <1>7, <1>9
<1> QED  BY <1>10 DEF CallsInv

-----------------------------------------------------------------------------
(* The theorems *)

LEMMA InvariantStep == IInv /\ [Next]_vars => IInv'
<1> SUFFICES ASSUME IInv, [Next]_vars PROVE IInv'
  OBVIOUS
<1>1. TypeOK'  BY TypeStep
<1>2. ASSUME NEW p \in Procs, Step(p) PROVE IInv'
  <2>1. AnswersAreDurable' /\ CommittedOnce' /\ UsageIsExact'
    BY <1>1, <1>2, DurableStep, UsageStep
  <2>2. CallsInv'
    BY <1>1, <1>2, <2>1, CallsStep
  <2> QED
    BY <1>1, <1>2, <2>1, <2>2, MemStep, DraftStep, CandStep, CkptStep, RollbackStep,
       TurnInvStep DEF IInv
<1>3. CASE UNCHANGED vars
  <2> USE <1>3 DEF IInv, vars
  <2>1. TurnInv' /\ MemInv' /\ DraftInv'
    BY DEF TurnInv, MemInv, DraftInv, Persisted
  <2>2. CandInv' /\ CkptInv' /\ RollbackIsComplete'
    BY DEF CandInv, CkptInv, RollbackIsComplete
  <2>3. AnswersAreDurable' /\ CommittedOnce'
    BY DEF AnswersAreDurable, CommittedOnce, Persisted
  <2>4. CallsInv' /\ UsageIsExact'
    BY DEF CallsInv, Settled, Follows, UsageIsExact, Persisted
  <2> QED  BY <1>1, <2>1, <2>2, <2>3, <2>4
<1> QED  BY <1>2, <1>3 DEF Next, Step

THEOREM Invariance == Spec => []IInv
<1>1. Init => IInv  BY InitIInv
<1>2. IInv /\ [Next]_vars => IInv'  BY InvariantStep
<1> QED  BY <1>1, <1>2, PTL DEF Spec

(* Every variable keeps its type; in particular the attempts of a save     *)
(* stay within SESSION_SAVE_MAX_ATTEMPTS.                                  *)
THEOREM TypeCorrect == Spec => []TypeOK
<1>1. IInv => TypeOK  BY DEF IInv
<1> QED  BY <1>1, Invariance, PTL

(* A process whose revision is the store's holds the store's state: the    *)
(* probe that skips the load loses nothing.                                *)
THEOREM RevisionsIdentify == Spec => []RevisionIdentifiesState
<1>1. IInv => RevisionIdentifiesState  BY DEF IInv, MemInv, RevisionIdentifiesState
<1> QED  BY <1>1, Invariance, PTL

(* An answered turn survives in the file until a reset erases it, whatever *)
(* crashes and whatever other processes commit; a turn that did not commit *)
(* is not in the file.                                                     *)
THEOREM Durability == Spec => []AnswersAreDurable
<1>1. IInv => AnswersAreDurable  BY DEF IInv
<1> QED  BY <1>1, Invariance, PTL

(* No rebase writes a turn twice.                                          *)
THEOREM NoDuplicates == Spec => []CommittedOnce
<1>1. IInv => CommittedOnce  BY DEF IInv
<1> QED  BY <1>1, Invariance, PTL

(* A checkpoint that is compacted, committed or carried through a rebase   *)
(* summarises a prefix of the persisted turns.                             *)
THEOREM CheckpointCorrect == Spec => []CheckpointIsPrefix
<1>1. IInv => CheckpointIsPrefix
  BY DEF IInv, CkptInv, Summarises, CheckpointIsPrefix
<1> QED  BY <1>1, Invariance, PTL

(* A turn that did not commit leaves the attributes of its process as they *)
(* were.                                                                   *)
THEOREM CompleteRollback == Spec => []RollbackIsComplete
<1>1. IInv => RollbackIsComplete  BY DEF IInv
<1> QED  BY <1>1, Invariance, PTL

(* The counters and the tool-call log of the file hold what its turns did, *)
(* each once: a turn that was rolled back leaves nothing in them, and a    *)
(* rebase over other processes' turns neither loses nor repeats a call.    *)
THEOREM UsageCounts == Spec => []UsageIsExact
<1>1. IInv => UsageIsExact  BY DEF IInv
<1> QED  BY <1>1, Invariance, PTL

(* The file that several processes share is sound whatever they do: what   *)
(* the runs check of it on a small instance holds for any number of        *)
(* processes and turns.                                                    *)
THEOREM StoreSound == Spec => []StoreIsSound
<1>1. IInv => StoreIsSound
  BY DEF IInv, MemInv, CkptInv, Summarises, StoreIsSound, RevisionIdentifiesState,
         CheckpointIsPrefix
<1> QED  BY <1>1, Invariance, PTL

(* Commits append; only a reset by a process that has seen every turn      *)
(* removes any.                                                            *)
THEOREM CommitsAppend == Spec => AppendOnly
<1> DEFINE A == IsPrefixOf(store.turns, store'.turns)
                  \/ \E p \in Procs : mem[p].turns = store.turns /\ store'.turns = << >>
<1>1. IInv /\ IInv' /\ [Next]_vars => [A]_vars
  <2> SUFFICES ASSUME IInv, IInv', NEW p \in Procs, Step(p) PROVE A
    BY DEF Next, Step
  <2>1. TypeOK /\ TypeOK' /\ MemInv  BY DEF IInv
  <2>2. store.turns \in Seq(Turns)
    <3>1. store \in States  BY <2>1 DEF TypeOK
    <3> QED  BY <3>1 DEF States
  <2>3. IsPrefixOf(store.turns, store.turns)  BY <2>2, PrefixReflexive
  <2>4. CASE store' = store
    BY <2>3, <2>4
  <2>5. CASE Save(p)
    <3>1. turn[p] \in Turns /\ store'.turns = Append(store.turns, turn[p])
      BY <2>1, <2>5, SaveEffect
    <3> QED  BY <2>2, <2>3, <3>1, PrefixAppend
  <2>6. CASE Reset(p) /\ store'.turns = << >>
    <3>1. mem[p] = store  BY <2>1, <2>6 DEF Reset, OwnsRevision, MemInv
    <3> QED  BY <2>6, <3>1
  <2> QED  BY <2>1, <2>4, <2>5, <2>6, StoreEffect
<1>2. []IInv /\ [][Next]_vars => [][A]_vars
  BY <1>1, PTL
<1> QED  BY <1>2, Invariance, PTL DEF Spec, AppendOnly

(* A turn enters the file only behind the turns it was based on.           *)
THEOREM CommitsInContext == Spec => CommitsOnItsContext
<1> DEFINE A == \A p \in Procs : pc[p] = "save" /\ pc'[p] = "publish"
                    => IsPrefixOf(mem[p].turns, store'.turns)
<1>1. IInv /\ IInv' /\ [Next]_vars => [A]_vars
  <2> SUFFICES ASSUME IInv, IInv', NEW p \in Procs, Step(p),
                      NEW q \in Procs, pc[q] = "save", pc'[q] = "publish"
               PROVE  IsPrefixOf(mem[q].turns, store'.turns)
    BY DEF Next, Step
  <2>1. TypeOK /\ TypeOK'  BY DEF IInv
  <2>2. q = p  BY <2>1, OnlyOneProcess DEF Same
  <2>3. Save(p)
    <3> USE <2>1, <2>2 DEF TypeOK
    <3>1. CASE QuietEnd(p)
      BY <3>1 DEF QuietEnd, EndTurn, Return
    <3>2. CASE SaveConflict(p)
      BY <3>2 DEF SaveConflict
    <3>3. CASE Crash(p)
      BY <3>3 DEF Crash, Return
    <3>4. ~Adopt(p) /\ ~PrepareContext(p) /\ ~Work(p) /\ ~FinishTurn(p)
          /\ ~Rebase(p) /\ ~Publish(p) /\ ~Reset(p) /\ ~Restart(p)
          /\ \A t \in Turns : ~StartTurn(p, t)
      BY DEF Adopt, PrepareContext, Work, FinishTurn, Rebase, Publish, Reset,
             Restart, StartTurn
    <3> QED  BY <3>1, <3>2, <3>3, <3>4, StepCases
  <2>4. /\ turn[p] \in Turns /\ store.turns \in Seq(Turns)
        /\ store'.turns = Append(store.turns, turn[p])
        /\ IsPrefixOf(mem[p].turns, store.turns)
    BY <2>1, <2>3, SaveEffect
  <2>5. mem[p].turns \in Seq(Turns)
    <3>1. mem[p] \in States  BY <2>1 DEF TypeOK
    <3> QED  BY <3>1 DEF States
  <2> QED  BY <2>2, <2>4, <2>5, PrefixAppend
<1>2. []IInv /\ [][Next]_vars => [][A]_vars
  BY <1>1, PTL
<1> QED  BY <1>2, Invariance, PTL DEF Spec, CommitsOnItsContext

(* To its submitters the shared session is the atomic log of CommittedLog: *)
(* every turn commits whole, in one step, or leaves nothing.               *)
THEOREM Implementation == Spec => ImplementsLog
<1> DEFINE lvars == <<store.turns, outcome, answered>>
<1>1. Init => Log!Init
  BY DEF Init, Log!Init, Fresh
<1>2. IInv /\ IInv' /\ [Next]_vars => [Log!Next]_lvars
  <2> SUFFICES ASSUME IInv, IInv', [Next]_vars
               PROVE  Log!Next \/ UNCHANGED lvars
    OBVIOUS
  <2>1. TypeOK /\ TypeOK' /\ TurnInv  BY DEF IInv
  <2>2. ASSUME NEW p \in Procs, Step(p) PROVE Log!Next \/ UNCHANGED lvars
    <3> USE <2>1 DEF TypeOK
    <3>1. ASSUME NEW t \in Turns, StartTurn(p, t) PROVE Log!Next
      <4>1. Log!Start(t)  BY <3>1 DEF StartTurn, Log!Start
      <4> QED  BY <4>1 DEF Log!Next
    <3>2. CASE Adopt(p) \/ PrepareContext(p) \/ Work(p) \/ FinishTurn(p)
      BY <3>2 DEF Adopt, PrepareContext, Work, FinishTurn, History
    <3>3. CASE SaveConflict(p) \/ Rebase(p) \/ Restart(p)
      BY <3>3 DEF SaveConflict, Rebase, Restart, History
    <3>4. CASE QuietEnd(p)
      <4>1. turn[p] \in Turns /\ outcome[turn[p]] = "running"
        BY <3>4 DEF QuietEnd, TurnInv
      <4>2. Log!Abandon(turn[p])
        BY <3>4, <4>1 DEF QuietEnd, EndTurn, Log!Abandon
      <4> QED  BY <4>1, <4>2 DEF Log!Next
    <3>5. CASE Save(p)
      <4>1. /\ turn[p] \in Turns /\ outcome[turn[p]] = "running"
            /\ store'.turns = Append(store.turns, turn[p])
            /\ outcome' = [outcome EXCEPT ![turn[p]] = "committed"]
        BY <3>5, SaveEffect
      <4>2. Log!Commit(turn[p])
        BY <3>5, <4>1 DEF Save, Log!Commit
      <4> QED  BY <4>1, <4>2 DEF Log!Next
    <3>6. CASE Publish(p)
      <4>1. CASE turn[p] = NoTurn
        BY <3>6, <4>1 DEF Publish
      <4>2. CASE turn[p] # NoTurn
        <5>1. turn[p] \in Turns /\ outcome[turn[p]] = "committed"
          BY <3>6, <4>2 DEF Publish, TurnInv
        <5>2. Log!Answer(turn[p])
          BY <3>6, <4>2, <5>1 DEF Publish, Log!Answer
        <5> QED  BY <5>1, <5>2 DEF Log!Next
      <4> QED  BY <4>1, <4>2
    <3>7. CASE Reset(p)
      <4>1. store'.turns = << >>
        <5>1. store' = [Fresh EXCEPT !.rev = store.rev + 1]
          BY <3>7 DEF Reset, Write
        <5> QED  BY <5>1 DEF Fresh
      <4>2. Log!Reset
        BY <3>7, <4>1 DEF Reset, Log!Reset
      <4> QED  BY <4>2 DEF Log!Next
    <3>8. CASE Crash(p)
      <4>1. store' = store /\ answered' = answered
            /\ outcome' = [t \in Turns |->
                             IF t = turn[p] /\ outcome[t] = "running" THEN "lost"
                                                                     ELSE outcome[t]]
        BY <3>8 DEF Crash
      <4>2. CASE turn[p] \in Turns /\ outcome[turn[p]] = "running"
        <5>1. outcome' = [outcome EXCEPT ![turn[p]] = "lost"]
          BY <4>1, <4>2
        <5>2. Log!Abandon(turn[p])
          BY <4>1, <4>2, <5>1 DEF Log!Abandon
        <5> QED  BY <4>2, <5>2 DEF Log!Next
      <4>3. CASE ~(turn[p] \in Turns /\ outcome[turn[p]] = "running")
        <5>1. outcome' = outcome  BY <4>1, <4>3
        <5> QED  BY <4>1, <5>1
      <4> QED  BY <4>2, <4>3
    <3> HIDE DEF lvars
    <3> QED
      BY <2>2, <3>1, <3>2, <3>3, <3>4, <3>5, <3>6, <3>7, <3>8, StepCases, Zenon
  <2>3. CASE UNCHANGED vars
    BY <2>3 DEF vars
  <2>4. CASE Next
    <3>1. PICK p \in Procs : Step(p)  BY <2>4 DEF Next, Step
    <3> QED  BY <2>2, <3>1
  <2> QED  BY <2>3, <2>4
<1>3. []IInv /\ [][Next]_vars => [][Log!Next]_lvars
  BY <1>2, PTL
<1> QED  BY <1>1, <1>3, Invariance, PTL DEF Spec, ImplementsLog, Log!Spec

=============================================================================
