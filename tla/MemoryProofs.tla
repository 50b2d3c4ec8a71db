----------------------------- MODULE MemoryProofs -----------------------------
(***************************************************************************)
(* Theorems about the reviews of a session and the writes to a remote      *)
(* memory, for every interval, number of rounds, threads, staged entries   *)
(* and mishaps.                                                            *)
(*                                                                         *)
(* ReviewsAreSound is not inductive as it stands.  That no review of an    *)
(* erased conversation goes on rests on what each call of the lifecycle    *)
(* lock has made quiet by then (Quieted, AllAsked), on who awaits review 0 *)
(* (Awaited), and on a rollover that lets no turn in (Apart); that the     *)
(* reviews are in time rests on where the agent's mark can be while a turn *)
(* runs (Marks).                                                           *)
(*                                                                         *)
(* That a newer write is never overtaken is not inductive either: it needs *)
(* to be known where the older one still is.  Ordered(a, b) says that a is *)
(* staged in front of b (Queued), that b will be repeated whenever a may   *)
(* be (Repeated), that b goes out directly only when a is through          *)
(* (Direct), and what a replay that is under way has brought in order      *)
(* (Replayed).  Locked is why a replay repeats what the outbox holds;      *)
(* Numbered, why a write under way is staged nowhere yet.                  *)
(***************************************************************************)
EXTENDS MemoryReview, MemoryOutbox, SequenceTheorems, TLAPS

-----------------------------------------------------------------------------
(* Reviews: the inductive invariant *)

(* The calls that leave no turn in the runtime.                             *)
Quieting == {"cancel_all", "reset", "close", "rollover"}

(* The lock is held for a call or free; a turn that is over is not asked.   *)
Shape ==
    /\ op.do = "none" <=> op.at = "free"
    /\ turn.pc = "none" => ~turn.asked

(* From its first step on such a call finds no turn waiting, and no turn    *)
(* running but the one it has asked to stop.                                *)
Quieted ==
    op.do \in Quieting => /\ queued = 0
                          /\ turn.pc # "none" => op.at = "turn" /\ turn.asked

(* When it awaits the reviews, it has asked all there are.                  *)
AllAsked ==
    op.do \in Quieting /\ op.at = "ends" =>
        \A r \in Periodic : Alive(r) => review[r].asked

(* While a rollover has the session reviewed, the session has no turn, and  *)
(* is not reset.                                                            *)
Apart == rollover => turn.pc = "none" /\ queued = 0 /\ op.do \notin {"reset", "rollover"}

(* Review 0 is the one of the turn that saves the memory, or of a rollover. *)
Awaited ==
    /\ Alive(0) => turn.pc = "saving" \/ rollover
    /\ turn.pc = "saving" => review[0].of = talk.of /\ review[0].upto = talk.turns + 1
    /\ rollover => review[0].of = talk.of /\ review[0].upto = talk.turns

(* The others are of the conversation there is.                             *)
OfWhatThereIs ==
    \A r \in Periodic : Alive(r) => review[r].of = talk.of /\ review[r].upto <= talk.turns

(* The committed mark is near; the mark of the agent while a turn runs is   *)
(* the committed one, or counts the prompt.                                 *)
Marks ==
    /\ talk.reviewed <= talk.turns /\ talk.turns < talk.reviewed + Interval
    /\ turn.pc # "none" => last \in {talk.reviewed, talk.turns + 1}

ReviewInv ==
    /\ ReviewTypeOK /\ Shape /\ Quieted /\ AllAsked /\ Apart /\ Awaited
    /\ OfWhatThereIs /\ Marks /\ ClosedIsQuiet

-----------------------------------------------------------------------------
(* What may happen to a review *)

(* No review comes to life, or becomes one of something else, and none that *)
(* was asked to stop forgets it.                                            *)
OnlyOn ==
    \A r \in Reviews : /\ Alive(r)' => Alive(r)
                       /\ review'[r].of = review[r].of /\ review'[r].upto = review[r].upto
                       /\ review[r].asked => review'[r].asked

ReviewType ==
    [Reviews -> [pc : {"none", "created", "chat", "write", "closing", "ended"},
                 of : Nat, upto : Nat, rounds : Nat, asked : BOOLEAN]]

(* The steps of a review (run_memory_review).                               *)
LEMMA StepsGoOn ==
    ASSUME review \in ReviewType, orphans \subseteq Nat, ReviewStep
    PROVE  review' \in ReviewType /\ orphans' \subseteq Nat /\ OnlyOn
<1>1. ASSUME NEW r \in Reviews,
             TaskBegins(r) \/ ModelAnswers(r) \/ Written(r) \/ Interrupted(r) \/ ClientClosed(r)
      PROVE  review' \in ReviewType /\ orphans' \subseteq Nat /\ OnlyOn
  <2>1. CASE TaskBegins(r)
    BY <2>1 DEF TaskBegins, Step, ReviewType, OnlyOn, Alive
  <2>2. CASE ModelAnswers(r)
    BY <2>2 DEF ModelAnswers, Step, ReviewType, OnlyOn, Alive
  <2>3. CASE Written(r)
    BY <2>3 DEF Written, ReviewType, OnlyOn, Alive
  <2>4. CASE Interrupted(r)
    BY <2>4 DEF Interrupted, Step, ReviewType, OnlyOn, Alive
  <2>5. CASE ClientClosed(r)
    BY <2>5 DEF ClientClosed, Step, ReviewType, OnlyOn, Alive
  <2> QED BY <1>1, <2>1, <2>2, <2>3, <2>4, <2>5
<1>2. ASSUME NEW c \in orphans, OrphanEnds(c)
      PROVE  review' \in ReviewType /\ orphans' \subseteq Nat /\ OnlyOn
  BY <1>2 DEF OrphanEnds, OnlyOn, Alive
<1> QED BY <1>1, <1>2 DEF ReviewStep

(* Asking reviews to stop (Task.cancel).                                    *)
LEMMA AskingGoesOn ==
    ASSUME review \in ReviewType, NEW rs, Ask(rs)
    PROVE  /\ review' \in ReviewType /\ OnlyOn
           /\ \A r \in Reviews : r \in rs /\ Alive(r) => review'[r].asked
  BY DEF Ask, ReviewType, OnlyOn, Alive

(* A review that begins is of the conversation there is.                    *)
LEMMA BeginsAfresh ==
    ASSUME review \in ReviewType, talk \in [of : Nat, turns : Nat, reviewed : Nat],
           NEW r \in Reviews, NEW pc \in {"created", "chat"}, NEW upto \in Nat,
           review' = [review EXCEPT ![r] = Review(pc, upto)]
    PROVE  /\ review' \in ReviewType
           /\ review'[r].of = talk.of /\ review'[r].upto = upto /\ review'[r].pc = pc
           /\ \A s \in Reviews : s # r => review'[s] = review[s]
<1>1. /\ Review(pc, upto) \in [pc : {"none", "created", "chat", "write", "closing", "ended"},
                                of : Nat, upto : Nat, rounds : Nat, asked : BOOLEAN]
      /\ Review(pc, upto).pc = pc /\ Review(pc, upto).of = talk.of /\ Review(pc, upto).upto = upto
  BY DEF Review, NoReview
<1> HIDE DEF Review
<1> QED BY <1>1 DEF ReviewType

(* What the types say of the marks.                                         *)
LEMMA Numbers ==
    ASSUME ReviewTypeOK
    PROVE  /\ talk.of \in Nat /\ talk.turns \in Nat /\ talk.reviewed \in Nat /\ last \in Nat
           /\ queued \in Nat /\ made \in Nat /\ made <= MaxReviews
           /\ \A r \in Reviews : review[r].upto \in Nat /\ review[r].of \in Nat
<1>1. talk.of \in Nat /\ talk.turns \in Nat /\ talk.reviewed \in Nat BY DEF ReviewTypeOK
<1>2. last \in Nat /\ queued \in Nat /\ made \in Nat /\ made <= MaxReviews
  BY ReviewsAssumption DEF ReviewTypeOK
<1>3. \A r \in Reviews : review[r].upto \in Nat /\ review[r].of \in Nat BY DEF ReviewTypeOK
<1> QED BY <1>1, <1>2, <1>3

-----------------------------------------------------------------------------
(* The invariant is kept *)

(* A turn is only submitted while no call of the lifecycle lock runs.       *)
LEMMA SubmitTurnKeeps ==
    ASSUME ReviewInv, SubmitTurn
    PROVE  ReviewInv'
<1>1. ReviewTypeOK'
  BY DEF ReviewInv, ReviewTypeOK, SubmitTurn
<1>2. Shape'
  BY DEF ReviewInv, ReviewTypeOK, Shape, SubmitTurn
<1>3. Quieted'
  BY DEF ReviewInv, ReviewTypeOK, Quieted, LockFree, Quieting, SubmitTurn
<1>4. AllAsked'
  BY DEF ReviewInv, AllAsked, SubmitTurn, Alive, LockFree
<1>5. Apart'
  BY DEF ReviewInv, Apart, SubmitTurn, LockFree
<1>6. Awaited'
  BY DEF ReviewInv, Awaited, SubmitTurn, Alive
<1>7. OfWhatThereIs'
  BY DEF ReviewInv, OfWhatThereIs, SubmitTurn, Alive
<1>8. Marks'
  BY DEF ReviewInv, Marks, SubmitTurn
<1>9. ClosedIsQuiet'
  BY DEF ReviewInv, ClosedIsQuiet, SubmitTurn, Alive, LockFree
<1> QED BY <1>1, <1>2, <1>3, <1>4, <1>5, <1>6, <1>7, <1>8, <1>9 DEF ReviewInv

(* A waiting turn starts with the committed mark.                           *)
LEMMA StartTurnKeeps ==
    ASSUME ReviewInv, StartTurn
    PROVE  ReviewInv'
<1>1. ReviewTypeOK'
  <2>1. turn' = [pc |-> "prompt", asked |-> FALSE] BY DEF StartTurn, NoTurnRuns
  <2>2. last' \in Nat
    <3>1. talk.reviewed \in Nat BY Numbers DEF ReviewInv
    <3> QED BY <3>1 DEF StartTurn
  <2>3. queued' \in Nat
    <3>1. queued \in Nat /\ queued > 0 BY Numbers DEF StartTurn, ReviewInv
    <3>2. queued' = queued - 1 BY DEF StartTurn
    <3> QED BY <3>1, <3>2
  <2>4. turn' \in [pc : {"none", "prompt", "saving", "running"}, asked : BOOLEAN] BY <2>1
  <2> QED BY <2>2, <2>3, <2>4 DEF ReviewInv, ReviewTypeOK, StartTurn
<1>2. Shape'
  BY DEF ReviewInv, Shape, StartTurn, NoTurnRuns
<1>3. Quieted'
  BY DEF ReviewInv, Quieted, StartTurn, LockFree, NoTurnRuns
<1>4. AllAsked'
  BY DEF ReviewInv, AllAsked, StartTurn, Alive, LockFree, NoTurnRuns
<1>5. Apart'
  BY DEF ReviewInv, Apart, StartTurn, LockFree, NoTurnRuns
<1>6. Awaited'
  BY DEF ReviewInv, Awaited, StartTurn, Alive, NoTurnRuns
<1>7. OfWhatThereIs'
  BY DEF ReviewInv, OfWhatThereIs, StartTurn, Alive, NoTurnRuns
<1>8. Marks'
  BY DEF ReviewInv, Marks, StartTurn, NoTurnRuns
<1>9. ClosedIsQuiet'
  BY DEF ReviewInv, ClosedIsQuiet, StartTurn, Alive, LockFree, NoTurnRuns
<1> QED BY <1>1, <1>2, <1>3, <1>4, <1>5, <1>6, <1>7, <1>8, <1>9 DEF ReviewInv

(* A turn that saves the memory has review 0 for it, with its prompt.       *)
LEMMA SaveBeforeCompactionKeeps ==
    ASSUME ReviewInv, SaveBeforeCompaction
    PROVE  ReviewInv'
<1>0. /\ review' \in ReviewType
      /\ review'[0].of = talk.of /\ review'[0].upto = talk.turns + 1 /\ review'[0].pc = "chat"
      /\ \A s \in Reviews : s # 0 => review'[s] = review[s]
  <2>1. 0 \in Reviews /\ talk.turns + 1 \in Nat
    BY ReviewsAssumption DEF ReviewInv, ReviewTypeOK, Reviews
  <2> QED BY <2>1, BeginsAfresh DEF SaveBeforeCompaction, ReviewInv, ReviewTypeOK, ReviewType
<1>1. ReviewTypeOK'
  BY <1>0 DEF ReviewInv, ReviewTypeOK, SaveBeforeCompaction, ReviewType
<1>2. Shape'
  BY DEF ReviewInv, Shape, SaveBeforeCompaction
<1>3. Quieted'
  BY DEF ReviewInv, Quieted, SaveBeforeCompaction
<1>4. AllAsked'
  BY DEF ReviewInv, Quieted, AllAsked, SaveBeforeCompaction
<1>5. Apart'
  BY <1>0 DEF ReviewInv, Apart, SaveBeforeCompaction
<1>6. Awaited'
  BY <1>0 DEF ReviewInv, Apart, Awaited, SaveBeforeCompaction
<1>7. OfWhatThereIs'
  <2> SUFFICES ASSUME NEW r \in Periodic, Alive(r)'
               PROVE  (review[r].of = talk.of /\ review[r].upto <= talk.turns)'
    BY DEF OfWhatThereIs, Periodic
  <2>1. r \in Reviews /\ r # 0 BY ReviewsAssumption DEF Periodic, Reviews
  <2>2. review'[r] = review[r] BY <1>0, <2>1
  <2> QED BY <2>2 DEF ReviewInv, OfWhatThereIs, Alive, SaveBeforeCompaction
<1>8. Marks'
  BY DEF ReviewInv, Marks, SaveBeforeCompaction
<1>9. ClosedIsQuiet'
  BY DEF ReviewInv, ClosedIsQuiet, SaveBeforeCompaction, Alive, LockFree
<1> QED BY <1>1, <1>2, <1>3, <1>4, <1>5, <1>6, <1>7, <1>8, <1>9 DEF ReviewInv

(* Its mark then counts the prompt.                                         *)
LEMMA MemorySavedKeeps ==
    ASSUME ReviewInv, MemorySaved
    PROVE  ReviewInv'
<1>1. ReviewTypeOK'
  BY DEF ReviewInv, ReviewTypeOK, MemorySaved
<1>2. Shape'
  BY DEF ReviewInv, Shape, MemorySaved
<1>3. Quieted'
  BY DEF ReviewInv, Quieted, MemorySaved, LockFree
<1>4. AllAsked'
  BY DEF ReviewInv, AllAsked, MemorySaved, Alive, LockFree
<1>5. Apart'
  BY DEF ReviewInv, Apart, MemorySaved, LockFree
<1>6. Awaited'
  BY DEF ReviewInv, Awaited, MemorySaved, Alive
<1>7. OfWhatThereIs'
  BY DEF ReviewInv, OfWhatThereIs, MemorySaved, Alive
<1>8. Marks'
  BY DEF ReviewInv, Marks, MemorySaved
<1>9. ClosedIsQuiet'
  BY DEF ReviewInv, ClosedIsQuiet, MemorySaved, Alive, LockFree
<1> QED BY <1>1, <1>2, <1>3, <1>4, <1>5, <1>6, <1>7, <1>8, <1>9 DEF ReviewInv

(* A turn that saves nothing keeps the mark.                                *)
LEMMA NothingToSaveKeeps ==
    ASSUME ReviewInv, NothingToSave
    PROVE  ReviewInv'
<1>1. ReviewTypeOK'
  BY DEF ReviewInv, ReviewTypeOK, NothingToSave
<1>2. Shape'
  BY DEF ReviewInv, Shape, NothingToSave
<1>3. Quieted'
  BY DEF ReviewInv, Quieted, NothingToSave, LockFree
<1>4. AllAsked'
  BY DEF ReviewInv, AllAsked, NothingToSave, Alive, LockFree
<1>5. Apart'
  BY DEF ReviewInv, Apart, NothingToSave, LockFree
<1>6. Awaited'
  BY DEF ReviewInv, Awaited, NothingToSave, Alive
<1>7. OfWhatThereIs'
  BY DEF ReviewInv, OfWhatThereIs, NothingToSave, Alive
<1>8. Marks'
  BY DEF ReviewInv, Marks, NothingToSave
<1>9. ClosedIsQuiet'
  BY DEF ReviewInv, ClosedIsQuiet, NothingToSave, Alive, LockFree
<1> QED BY <1>1, <1>2, <1>3, <1>4, <1>5, <1>6, <1>7, <1>8, <1>9 DEF ReviewInv

(* A commit adds a turn, and the review that is due with it.                *)
LEMMA CommitTurnKeeps ==
    ASSUME ReviewInv, CommitTurn
    PROVE  ReviewInv'
<1>0. /\ review' \in ReviewType
      /\ \/ review' = review
         \/ /\ made + 1 \in Periodic
            /\ review'[made + 1].of = talk.of /\ review'[made + 1].upto = talk.turns + 1
            /\ review'[made + 1].pc = "created"
            /\ \A s \in Reviews : s # made + 1 => review'[s] = review[s]
  <2>1. CASE review' = review BY <2>1 DEF ReviewInv, ReviewTypeOK, ReviewType
  <2>2. CASE /\ made < MaxReviews
             /\ review' = [review EXCEPT ![made + 1] = Review("created", talk.turns + 1)]
    <3>1. made + 1 \in Periodic /\ made + 1 \in Reviews /\ talk.turns + 1 \in Nat
      BY <2>2, ReviewsAssumption DEF ReviewInv, ReviewTypeOK, Reviews, Periodic
    <3> QED BY <2>2, <3>1, BeginsAfresh DEF ReviewInv, ReviewTypeOK, ReviewType
  <2> QED BY <2>1, <2>2 DEF CommitTurn
<1>1. ReviewTypeOK'
  <2>1. turn' \in [pc : {"none", "prompt", "saving", "running"}, asked : BOOLEAN]
    BY DEF CommitTurn, NoTurnRuns
  <2>2. /\ talk' \in [of : Nat, turns : Nat, reviewed : Nat] /\ last' \in Nat
        /\ made' \in 0..MaxReviews
    <3>1. talk.turns + 1 \in Nat /\ last \in Nat BY Numbers DEF ReviewInv
    <3>2. made' \in 0..MaxReviews BY Numbers, ReviewsAssumption DEF CommitTurn, ReviewInv
    <3>3. last' \in Nat BY <3>1 DEF CommitTurn
    <3>4. talk' \in [of : Nat, turns : Nat, reviewed : Nat]
      BY <3>1 DEF CommitTurn, ReviewInv, ReviewTypeOK
    <3> QED BY <3>2, <3>3, <3>4
  <2> QED BY <1>0, <2>1, <2>2 DEF ReviewInv, ReviewTypeOK, CommitTurn, ReviewType
<1>2. Shape'
  BY DEF ReviewInv, Shape, CommitTurn, NoTurnRuns
<1>3. Quieted'
  BY DEF ReviewInv, Quieted, CommitTurn, Due, NoTurnRuns
<1>4. AllAsked'
  BY DEF ReviewInv, Quieted, AllAsked, CommitTurn, Due
<1>5. Apart'
  BY DEF ReviewInv, Apart, CommitTurn, LockFree, NoTurnRuns
<1>6. Awaited'
  <2>1. turn.pc = "running" /\ ~rollover /\ ~rollover' /\ turn'.pc = "none"
    BY DEF CommitTurn, NoTurnRuns, ReviewInv, Apart
  <2>2. 0 \in Reviews /\ 0 \notin Periodic BY ReviewsAssumption DEF Reviews, Periodic
  <2>3. review'[0] = review[0] BY <1>0, <2>2
  <2>4. ~Alive(0)' BY <2>1, <2>3 DEF ReviewInv, Awaited, Alive
  <2> QED BY <2>1, <2>4 DEF Awaited
<1>7. OfWhatThereIs'
  <2> SUFFICES ASSUME NEW r \in Periodic, Alive(r)'
               PROVE  (review[r].of = talk.of /\ review[r].upto <= talk.turns)'
    BY DEF OfWhatThereIs, Periodic
  <2>1. r \in Reviews /\ r # 0 BY ReviewsAssumption DEF Periodic, Reviews
  <2>2. talk'.of = talk.of /\ talk'.turns = talk.turns + 1 /\ talk.turns \in Nat
    BY Numbers DEF CommitTurn, ReviewInv, ReviewTypeOK
  <2>3. CASE review'[r] = review[r]
    <3>1. review[r].of = talk.of /\ review[r].upto <= talk.turns
      BY <2>3 DEF ReviewInv, OfWhatThereIs, Alive
    <3>2. review[r].upto \in Nat BY <2>1, Numbers DEF ReviewInv
    <3> QED BY <2>2, <2>3, <3>1, <3>2
  <2>4. CASE review'[r].of = talk.of /\ review'[r].upto = talk.turns + 1
    BY <2>2, <2>4
  <2> QED BY <1>0, <2>1, <2>3, <2>4
<1>8. Marks'
  <2>1. /\ talk.turns \in Nat /\ talk.reviewed \in Nat /\ last \in Nat
        /\ last \in {talk.reviewed, talk.turns + 1} /\ talk.reviewed <= talk.turns
    BY Numbers DEF ReviewInv, Marks, CommitTurn
  <2>2. /\ talk'.turns = talk.turns + 1 /\ turn'.pc = "none"
        /\ talk'.reviewed = IF talk.turns + 1 >= last + Interval THEN talk.turns + 1 ELSE last
    BY DEF CommitTurn, Due, ReviewInv, ReviewTypeOK, NoTurnRuns
  <2> QED BY <2>1, <2>2, ReviewsAssumption DEF Marks
<1>9. ClosedIsQuiet'
  BY DEF ReviewInv, ClosedIsQuiet, CommitTurn, Alive, LockFree, NoTurnRuns
<1> QED BY <1>1, <1>2, <1>3, <1>4, <1>5, <1>6, <1>7, <1>8, <1>9 DEF ReviewInv

(* A turn that is given up leaves the committed state.                      *)
LEMMA AbandonTurnKeeps ==
    ASSUME ReviewInv, AbandonTurn
    PROVE  ReviewInv'
<1>1. ReviewTypeOK'
  BY DEF ReviewInv, ReviewTypeOK, AbandonTurn, NoTurnRuns
<1>2. Shape'
  BY DEF ReviewInv, Shape, AbandonTurn, NoTurnRuns
<1>3. Quieted'
  BY DEF ReviewInv, Quieted, AbandonTurn, LockFree, NoTurnRuns
<1>4. AllAsked'
  BY DEF ReviewInv, AllAsked, AbandonTurn, Alive, LockFree, NoTurnRuns
<1>5. Apart'
  BY DEF ReviewInv, Apart, AbandonTurn, LockFree, NoTurnRuns
<1>6. Awaited'
  BY DEF ReviewInv, Awaited, AbandonTurn, Alive, NoTurnRuns
<1>7. OfWhatThereIs'
  BY DEF ReviewInv, OfWhatThereIs, AbandonTurn, Alive, NoTurnRuns
<1>8. Marks'
  BY DEF ReviewInv, Marks, AbandonTurn, NoTurnRuns
<1>9. ClosedIsQuiet'
  BY DEF ReviewInv, ClosedIsQuiet, AbandonTurn, Alive, LockFree, NoTurnRuns
<1> QED BY <1>1, <1>2, <1>3, <1>4, <1>5, <1>6, <1>7, <1>8, <1>9 DEF ReviewInv

(* A review makes no other, and does not change what it is of.              *)
LEMMA ReviewStepKeeps ==
    ASSUME ReviewInv, ReviewStep
    PROVE  ReviewInv'
<1>0. review' \in ReviewType /\ orphans' \subseteq Nat /\ OnlyOn
  BY StepsGoOn DEF ReviewInv, ReviewTypeOK, ReviewType
<1>1. ReviewTypeOK'
  BY <1>0 DEF ReviewInv, ReviewTypeOK, ReviewStep, ReviewType
<1>2. Shape'
  BY DEF ReviewInv, Shape, ReviewStep
<1>3. Quieted'
  BY <1>0 DEF ReviewInv, Quieted, ReviewStep, OnlyOn, Reviews, Periodic
<1>4. AllAsked'
  BY <1>0 DEF ReviewInv, AllAsked, Periodic, Reviews, ReviewStep, OnlyOn
<1>5. Apart'
  BY ReviewsAssumption, <1>0 DEF ReviewInv, Apart, ReviewStep, OnlyOn, ReviewType, Reviews
<1>6. Awaited'
  BY ReviewsAssumption, <1>0 DEF ReviewInv, Awaited, Reviews, ReviewStep, OnlyOn, ReviewType
<1>7. OfWhatThereIs'
  <2> SUFFICES ASSUME NEW r \in Periodic, Alive(r)'
               PROVE  (review[r].of = talk.of /\ review[r].upto <= talk.turns)'
    BY DEF OfWhatThereIs, Periodic
  <2>1. r \in Reviews /\ r # 0 BY ReviewsAssumption DEF Periodic, Reviews
  <2>2. Alive(r) /\ review'[r].of = review[r].of /\ review'[r].upto = review[r].upto
    BY <1>0, <2>1 DEF OnlyOn
  <2>3. talk' = talk BY DEF ReviewStep
  <2> QED BY <2>2, <2>3 DEF ReviewInv, OfWhatThereIs
<1>8. Marks'
  BY <1>0 DEF ReviewInv, Marks, ReviewStep, OnlyOn, Reviews, Periodic
<1>9. ClosedIsQuiet'
  BY <1>0 DEF ReviewInv, ClosedIsQuiet, Periodic, Reviews, ReviewStep, OnlyOn
<1> QED BY <1>1, <1>2, <1>3, <1>4, <1>5, <1>6, <1>7, <1>8, <1>9 DEF ReviewInv

(* A call empties the queue and asks the running turn to stop.              *)
LEMMA BeginCallKeeps ==
    ASSUME ReviewInv, NEW do \in {"cancel", "cancel_all", "reset", "close", "rollover"}, Begin(do)
    PROVE  ReviewInv'
<1>0. /\ review' \in ReviewType /\ OnlyOn
      /\ turn.pc = "saving" /\ Alive(0) => review'[0].asked
  <2>1. Ask(IF turn.pc = "saving" THEN {0} ELSE {}) BY DEF Begin
  <2>2. 0 \in Reviews BY ReviewsAssumption DEF Reviews
  <2>3. review \in ReviewType BY DEF ReviewInv, ReviewTypeOK, ReviewType
  <2> QED BY <2>1, <2>2, <2>3, AskingGoesOn
<1>1. ReviewTypeOK'
  <2>1. op' \in [do : {"none", "cancel", "cancel_all", "reset", "close", "rollover"},
                   at : {"free", "turn", "reviews", "ends"}]
    BY DEF Begin
  <2>2. turn' \in [pc : {"none", "prompt", "saving", "running"}, asked : BOOLEAN]
    BY DEF Begin, ReviewInv, ReviewTypeOK
  <2>3. queued' \in Nat /\ ops' \in Nat /\ closed' \in {"no", "begun", "complete"}
    BY DEF Begin, ReviewInv, ReviewTypeOK
  <2> QED BY <1>0, <2>1, <2>2, <2>3 DEF ReviewInv, ReviewTypeOK, Begin, ReviewType
<1>2. Shape'
  BY DEF ReviewInv, Shape, Begin, Quieting
<1>3. Quieted'
  BY DEF Quieted, Quieting, Begin
<1>4. AllAsked'
  BY DEF ReviewInv, AllAsked, Begin, Alive, LockFree
<1>5. Apart'
  BY DEF ReviewInv, Apart, Begin, LockFree
<1>6. Awaited'
  <2>1. 0 \in Reviews BY ReviewsAssumption DEF Reviews
  <2>2. /\ Alive(0)' => Alive(0)
        /\ review'[0].of = review[0].of /\ review'[0].upto = review[0].upto
    BY <1>0, <2>1 DEF OnlyOn
  <2>3. talk' = talk /\ rollover' = rollover /\ turn'.pc = turn.pc
    BY DEF Begin, ReviewInv, ReviewTypeOK
  <2> QED BY <2>2, <2>3 DEF ReviewInv, Awaited
<1>7. OfWhatThereIs'
  BY <1>0 DEF ReviewInv, OfWhatThereIs, Periodic, Reviews, Begin, OnlyOn, ReviewType
<1>8. Marks'
  BY DEF ReviewInv, Marks, Begin, LockFree
<1>9. ClosedIsQuiet'
  <2> SUFFICES ASSUME closed' = "complete"
               PROVE  (turn.pc = "none" /\ queued = 0 /\ \A r \in Periodic : ~Alive(r))'
    BY DEF ClosedIsQuiet
  <2>1. closed = "complete" BY DEF Begin, ReviewInv, ReviewTypeOK
  <2>2. turn.pc = "none" /\ queued = 0 /\ \A r \in Periodic : ~Alive(r)
    BY <2>1 DEF ReviewInv, ClosedIsQuiet
  <2>3. turn'.pc = "none" /\ queued' = 0 BY <2>2 DEF Begin
  <2>4. ASSUME NEW r \in Periodic PROVE ~Alive(r)'
    <3>1. r \in Reviews BY ReviewsAssumption DEF Periodic, Reviews
    <3> QED BY <2>2, <3>1, <1>0 DEF OnlyOn
  <2> QED BY <2>3, <2>4 DEF Periodic
<1> QED BY <1>1, <1>2, <1>3, <1>4, <1>5, <1>6, <1>7, <1>8, <1>9 DEF ReviewInv

(* With an empty queue, no turn runs when this one is over.                 *)
LEMMA TurnOverKeeps ==
    ASSUME ReviewInv, TurnOver
    PROVE  ReviewInv'
<1>1. ReviewTypeOK'
  BY DEF ReviewInv, ReviewTypeOK, TurnOver
<1>2. Shape'
  BY DEF ReviewInv, Shape, TurnOver
<1>3. Quieted'
  BY DEF ReviewInv, Quieted, TurnOver, LockFree
<1>4. AllAsked'
  BY DEF ReviewInv, AllAsked, TurnOver, Alive, LockFree
<1>5. Apart'
  BY DEF ReviewInv, Apart, TurnOver, LockFree
<1>6. Awaited'
  BY DEF ReviewInv, Awaited, TurnOver, Alive
<1>7. OfWhatThereIs'
  BY DEF ReviewInv, OfWhatThereIs, TurnOver, Alive
<1>8. Marks'
  BY DEF ReviewInv, Marks, TurnOver
<1>9. ClosedIsQuiet'
  BY DEF ReviewInv, ClosedIsQuiet, TurnOver, Alive, LockFree
<1> QED BY <1>1, <1>2, <1>3, <1>4, <1>5, <1>6, <1>7, <1>8, <1>9 DEF ReviewInv

(* All the reviews there are, are asked to stop.                            *)
LEMMA AskReviewsKeeps ==
    ASSUME ReviewInv, AskReviews
    PROVE  ReviewInv'
<1>0. /\ review' \in ReviewType /\ OnlyOn
      /\ \A r \in Periodic : Alive(r) => review'[r].asked
  <2>1. Ask(Periodic) BY DEF AskReviews, CancelReviews
  <2>2. \A r \in Periodic : r \in Reviews BY ReviewsAssumption DEF Periodic, Reviews
  <2>3. review \in ReviewType BY DEF ReviewInv, ReviewTypeOK, ReviewType
  <2> QED BY <2>1, <2>2, <2>3, AskingGoesOn
<1>1. ReviewTypeOK'
  BY <1>0 DEF ReviewInv, ReviewTypeOK, AskReviews, ReviewType
<1>2. Shape'
  BY DEF ReviewInv, Shape, AskReviews
<1>3. Quieted'
  BY <1>0 DEF ReviewInv, Quieted, AskReviews, OnlyOn, Reviews, Periodic
<1>4. AllAsked'
  BY <1>0 DEF AllAsked, Periodic, Reviews, AskReviews, OnlyOn
<1>5. Apart'
  BY DEF ReviewInv, Apart, AskReviews, LockFree
<1>6. Awaited'
  <2>1. 0 \in Reviews BY ReviewsAssumption DEF Reviews
  <2>2. /\ Alive(0)' => Alive(0)
        /\ review'[0].of = review[0].of /\ review'[0].upto = review[0].upto
    BY <1>0, <2>1 DEF OnlyOn
  <2>3. talk' = talk /\ rollover' = rollover /\ turn'.pc = turn.pc
    BY DEF AskReviews, ReviewInv, ReviewTypeOK
  <2> QED BY <2>2, <2>3 DEF ReviewInv, Awaited
<1>7. OfWhatThereIs'
  BY <1>0 DEF ReviewInv, OfWhatThereIs, Periodic, Reviews, AskReviews, OnlyOn, ReviewType
<1>8. Marks'
  BY <1>0 DEF ReviewInv, Marks, AskReviews, OnlyOn, ReviewType, Reviews, Periodic
<1>9. ClosedIsQuiet'
  BY <1>0 DEF ReviewInv, ClosedIsQuiet, Periodic, Reviews, AskReviews, OnlyOn, ReviewType
<1> QED BY <1>1, <1>2, <1>3, <1>4, <1>5, <1>6, <1>7, <1>8, <1>9 DEF ReviewInv

(* A cancellation frees the lock.                                           *)
LEMMA CancelledKeeps ==
    ASSUME ReviewInv, Cancelled
    PROVE  ReviewInv'
<1>1. ReviewTypeOK'
  BY DEF ReviewInv, ReviewTypeOK, Cancelled, LockFree
<1>2. Shape'
  BY DEF ReviewInv, ReviewTypeOK, Shape, Cancelled, LockFree
<1>3. Quieted'
  BY DEF ReviewInv, ReviewTypeOK, Quieted, LockFree, Quieting, Cancelled
<1>4. AllAsked'
  BY DEF ReviewInv, AllAsked, Cancelled, Alive, LockFree
<1>5. Apart'
  BY DEF ReviewInv, Apart, Cancelled, LockFree
<1>6. Awaited'
  BY DEF ReviewInv, Awaited, Cancelled, Alive, LockFree
<1>7. OfWhatThereIs'
  BY DEF ReviewInv, OfWhatThereIs, Cancelled, Alive, LockFree
<1>8. Marks'
  BY DEF ReviewInv, Marks, Cancelled, LockFree
<1>9. ClosedIsQuiet'
  BY DEF ReviewInv, ClosedIsQuiet, Cancelled, Alive, LockFree
<1> QED BY <1>1, <1>2, <1>3, <1>4, <1>5, <1>6, <1>7, <1>8, <1>9 DEF ReviewInv

(* No review and no turn is left when the conversation is replaced.         *)
LEMMA ResetDoneKeeps ==
    ASSUME ReviewInv, ResetDone
    PROVE  ReviewInv'
<1>1. ReviewTypeOK'
  BY DEF ReviewInv, ReviewTypeOK, ResetDone, LockFree
<1>2. Shape'
  BY DEF ReviewInv, ReviewTypeOK, Shape, ResetDone, LockFree, ReviewsOver
<1>3. Quieted'
  BY DEF ReviewInv, ReviewTypeOK, Quieted, LockFree, Quieting, ResetDone, ReviewsOver
<1>4. AllAsked'
  BY DEF ReviewInv, AllAsked, ResetDone, Alive, LockFree
<1>5. Apart'
  BY DEF ReviewInv, ReviewTypeOK, Quieted, Apart, LockFree, Quieting, ResetDone, ReviewsOver
<1>6. Awaited'
  BY DEF ReviewInv, ReviewTypeOK, Quieted, Quieting, Apart, Awaited, Alive, ResetDone, LockFree,
     ReviewsOver
<1>7. OfWhatThereIs'
  BY ReviewsAssumption DEF ReviewInv, Quieted, AllAsked, Quieting, OfWhatThereIs, Alive, ResetDone,
     ReviewsOver
<1>8. Marks'
  BY ReviewsAssumption DEF ReviewInv, Marks, ResetDone, ReviewsOver
<1>9. ClosedIsQuiet'
  BY DEF ReviewInv, ClosedIsQuiet, ResetDone, Alive, LockFree
<1> QED BY <1>1, <1>2, <1>3, <1>4, <1>5, <1>6, <1>7, <1>8, <1>9 DEF ReviewInv

(* Nor when the session is closed.                                          *)
LEMMA CloseDoneKeeps ==
    ASSUME ReviewInv, CloseDone
    PROVE  ReviewInv'
<1>1. ReviewTypeOK'
  BY DEF ReviewInv, ReviewTypeOK, CloseDone, LockFree
<1>2. Shape'
  BY DEF ReviewInv, ReviewTypeOK, Shape, CloseDone, LockFree, ReviewsOver
<1>3. Quieted'
  BY DEF ReviewInv, ReviewTypeOK, Quieted, LockFree, Quieting, CloseDone, ReviewsOver
<1>4. AllAsked'
  BY DEF ReviewInv, AllAsked, CloseDone, Alive, LockFree
<1>5. Apart'
  BY DEF ReviewInv, Apart, CloseDone, LockFree
<1>6. Awaited'
  BY DEF ReviewInv, Awaited, CloseDone, Alive, LockFree
<1>7. OfWhatThereIs'
  BY DEF ReviewInv, OfWhatThereIs, CloseDone, Alive, LockFree
<1>8. Marks'
  BY DEF ReviewInv, ReviewTypeOK, Apart, Awaited, Quieted, Quieting, Marks, CloseDone, LockFree,
     ReviewsOver
<1>9. ClosedIsQuiet'
  BY DEF ReviewInv, ReviewTypeOK, Quieted, AllAsked, Quieting, ClosedIsQuiet, Alive, LockFree,
     CloseDone, ReviewsOver
<1> QED BY <1>1, <1>2, <1>3, <1>4, <1>5, <1>6, <1>7, <1>8, <1>9 DEF ReviewInv

(* A call may be given up while it waits.                                   *)
LEMMA CallGivenUpKeeps ==
    ASSUME ReviewInv, CallGivenUp
    PROVE  ReviewInv'
<1>1. ReviewTypeOK'
  BY DEF ReviewInv, ReviewTypeOK, CallGivenUp, LockFree
<1>2. Shape'
  BY DEF ReviewInv, ReviewTypeOK, Shape, CallGivenUp, LockFree
<1>3. Quieted'
  BY DEF ReviewInv, ReviewTypeOK, Quieted, LockFree, Quieting, CallGivenUp
<1>4. AllAsked'
  BY DEF ReviewInv, AllAsked, CallGivenUp, Alive, LockFree
<1>5. Apart'
  BY DEF ReviewInv, Apart, CallGivenUp, LockFree
<1>6. Awaited'
  BY DEF ReviewInv, Awaited, CallGivenUp, Alive, LockFree
<1>7. OfWhatThereIs'
  BY DEF ReviewInv, OfWhatThereIs, CallGivenUp, Alive, LockFree
<1>8. Marks'
  BY DEF ReviewInv, Marks, CallGivenUp, LockFree
<1>9. ClosedIsQuiet'
  BY DEF ReviewInv, ClosedIsQuiet, CallGivenUp, Alive, LockFree
<1> QED BY <1>1, <1>2, <1>3, <1>4, <1>5, <1>6, <1>7, <1>8, <1>9 DEF ReviewInv

(* A rollover begins with a session that has no turn.                       *)
LEMMA FlushMemoryKeeps ==
    ASSUME ReviewInv, FlushMemory
    PROVE  ReviewInv'
<1>0. /\ review' \in ReviewType
      /\ \/ review' = review /\ rollover' = rollover
         \/ /\ rollover'
            /\ review'[0].of = talk.of /\ review'[0].upto = talk.turns
            /\ \A s \in Reviews : s # 0 => review'[s] = review[s]
  <2>1. 0 \in Reviews /\ talk.turns \in Nat
    BY ReviewsAssumption DEF ReviewInv, ReviewTypeOK, Reviews
  <2> QED BY <2>1, BeginsAfresh DEF FlushMemory, ReviewInv, ReviewTypeOK, ReviewType
<1>1. ReviewTypeOK'
  BY <1>0 DEF ReviewInv, ReviewTypeOK, FlushMemory, LockFree, ReviewType
<1>2. Shape'
  BY DEF ReviewInv, Shape, FlushMemory, LockFree, ReviewsOver
<1>3. Quieted'
  BY DEF Quieted, LockFree, Quieting, FlushMemory, ReviewsOver
<1>4. AllAsked'
  BY DEF ReviewInv, Quieted, AllAsked, LockFree, Quieting, FlushMemory, ReviewsOver
<1>5. Apart'
  BY <1>0 DEF ReviewInv, Quieted, Apart, LockFree, Quieting, FlushMemory, ReviewsOver
<1>6. Awaited'
  BY <1>0 DEF ReviewInv, Quieted, Quieting, Awaited, Alive, FlushMemory, ReviewsOver
<1>7. OfWhatThereIs'
  <2> SUFFICES ASSUME NEW r \in Periodic, Alive(r)'
               PROVE  (review[r].of = talk.of /\ review[r].upto <= talk.turns)'
    BY DEF OfWhatThereIs, Periodic
  <2>1. r \in Reviews /\ r # 0 BY ReviewsAssumption DEF Periodic, Reviews
  <2>2. review'[r] = review[r] /\ talk' = talk BY <1>0, <2>1 DEF FlushMemory
  <2> QED BY <2>2 DEF ReviewInv, OfWhatThereIs, Alive
<1>8. Marks'
  BY <1>0 DEF ReviewInv, Marks, FlushMemory, ReviewsOver, Reviews, Periodic
<1>9. ClosedIsQuiet'
  BY <1>0 DEF ReviewInv, ClosedIsQuiet, Alive, Periodic, Reviews, FlushMemory, ReviewsOver
<1> QED BY <1>1, <1>2, <1>3, <1>4, <1>5, <1>6, <1>7, <1>8, <1>9 DEF ReviewInv

(* A rollover that waits no longer asks its review to stop.                 *)
LEMMA FlushTimesOutKeeps ==
    ASSUME ReviewInv, FlushTimesOut
    PROVE  ReviewInv'
<1>0. review' \in ReviewType /\ OnlyOn
  BY AskingGoesOn DEF ReviewInv, ReviewTypeOK, ReviewType, FlushTimesOut
<1>1. ReviewTypeOK'
  BY <1>0 DEF ReviewInv, ReviewTypeOK, FlushTimesOut, ReviewType
<1>2. Shape'
  BY DEF ReviewInv, Shape, FlushTimesOut
<1>3. Quieted'
  BY <1>0 DEF ReviewInv, Quieted, FlushTimesOut, OnlyOn, Reviews, Periodic
<1>4. AllAsked'
  BY <1>0 DEF ReviewInv, AllAsked, Periodic, Reviews, FlushTimesOut, OnlyOn
<1>5. Apart'
  BY ReviewsAssumption, <1>0 DEF ReviewInv, Apart, FlushTimesOut, OnlyOn, Reviews
<1>6. Awaited'
  BY ReviewsAssumption, <1>0 DEF ReviewInv, Awaited, Periodic, Reviews, FlushTimesOut, OnlyOn
<1>7. OfWhatThereIs'
  BY <1>0 DEF ReviewInv, OfWhatThereIs, Periodic, Reviews, FlushTimesOut, OnlyOn
<1>8. Marks'
  BY <1>0 DEF ReviewInv, Marks, FlushTimesOut, OnlyOn, Reviews, Periodic
<1>9. ClosedIsQuiet'
  BY <1>0 DEF ReviewInv, Shape, ClosedIsQuiet, Periodic, Reviews, FlushTimesOut, OnlyOn
<1> QED BY <1>1, <1>2, <1>3, <1>4, <1>5, <1>6, <1>7, <1>8, <1>9 DEF ReviewInv

(* The mark of a rollover is the number of turns.                           *)
LEMMA FlushedKeeps ==
    ASSUME ReviewInv, Flushed
    PROVE  ReviewInv'
<1>1. ReviewTypeOK'
  <2>1. talk' \in [of : Nat, turns : Nat, reviewed : Nat] /\ last' \in Nat
    <3>1. review[0].upto \in Nat /\ last \in Nat
      BY Numbers, ReviewsAssumption DEF ReviewInv, Reviews
    <3>2. CASE UNCHANGED <<talk, last>> BY <3>1, <3>2 DEF ReviewInv, ReviewTypeOK
    <3>3. CASE /\ last' = review[0].upto
               /\ talk' = [talk EXCEPT !.reviewed = review[0].upto] \/ UNCHANGED talk
      BY <3>1, <3>3 DEF ReviewInv, ReviewTypeOK
    <3> QED BY <3>2, <3>3 DEF Flushed
  <2> QED BY <2>1 DEF ReviewInv, ReviewTypeOK, Flushed
<1>2. Shape'
  BY DEF ReviewInv, Shape, Flushed
<1>3. Quieted'
  BY DEF ReviewInv, Quieted, Flushed, LockFree
<1>4. AllAsked'
  BY DEF ReviewInv, AllAsked, Flushed, Alive, LockFree
<1>5. Apart'
  BY DEF ReviewInv, ReviewTypeOK, Apart, LockFree, Flushed
<1>6. Awaited'
  BY DEF ReviewInv, ReviewTypeOK, Apart, Awaited, Alive, Flushed
<1>7. OfWhatThereIs'
  BY ReviewsAssumption DEF ReviewInv, ReviewTypeOK, OfWhatThereIs, Alive, Flushed
<1>8. Marks'
  BY ReviewsAssumption DEF ReviewInv, ReviewTypeOK, Apart, Awaited, Marks, Flushed
<1>9. ClosedIsQuiet'
  BY DEF ReviewInv, ClosedIsQuiet, Flushed, Alive, LockFree
<1> QED BY <1>1, <1>2, <1>3, <1>4, <1>5, <1>6, <1>7, <1>8, <1>9 DEF ReviewInv

(* Nothing to keep in a step of something else.                             *)
LEMMA StutterKeeps ==
    ASSUME ReviewInv, UNCHANGED reviewVars
    PROVE  ReviewInv'
<1>1. ReviewTypeOK' BY DEF ReviewInv, ReviewTypeOK, reviewVars
<1>2. Shape' /\ Quieted' /\ Apart' /\ Marks'
  BY DEF ReviewInv, Shape, Quieted, Apart, Marks, reviewVars
<1>3. AllAsked' /\ Awaited' /\ OfWhatThereIs' /\ ClosedIsQuiet'
  BY DEF ReviewInv, AllAsked, Awaited, OfWhatThereIs, ClosedIsQuiet, Alive, reviewVars
<1> QED BY <1>1, <1>2, <1>3 DEF ReviewInv

(* Every step keeps the invariant.                                          *)
LEMMA ReviewNextKeeps ==
    ASSUME ReviewInv, [ReviewNext]_reviewVars
    PROVE  ReviewInv'
<1>1. CASE SubmitTurn BY <1>1, SubmitTurnKeeps
<1>2. CASE StartTurn BY <1>2, StartTurnKeeps
<1>3. CASE SaveBeforeCompaction BY <1>3, SaveBeforeCompactionKeeps
<1>4. CASE MemorySaved BY <1>4, MemorySavedKeeps
<1>5. CASE NothingToSave BY <1>5, NothingToSaveKeeps
<1>6. CASE CommitTurn BY <1>6, CommitTurnKeeps
<1>7. CASE AbandonTurn BY <1>7, AbandonTurnKeeps
<1>8. CASE ReviewStep BY <1>8, ReviewStepKeeps
<1>9. CASE TurnOver BY <1>9, TurnOverKeeps
<1>10. CASE AskReviews BY <1>10, AskReviewsKeeps
<1>11. CASE Cancelled BY <1>11, CancelledKeeps
<1>12. CASE ResetDone BY <1>12, ResetDoneKeeps
<1>13. CASE CloseDone BY <1>13, CloseDoneKeeps
<1>14. CASE CallGivenUp BY <1>14, CallGivenUpKeeps
<1>15. CASE FlushMemory BY <1>15, FlushMemoryKeeps
<1>16. CASE FlushTimesOut BY <1>16, FlushTimesOutKeeps
<1>17. CASE Flushed BY <1>17, FlushedKeeps
<1>18. ASSUME NEW do \in {"cancel", "cancel_all", "reset", "close", "rollover"}, Begin(do)
       PROVE  ReviewInv'
  BY <1>18, BeginCallKeeps
<1>19. CASE UNCHANGED reviewVars BY <1>19, StutterKeeps
<1> QED
  BY <1>1, <1>2, <1>3, <1>4, <1>5, <1>6, <1>7, <1>8, <1>9, <1>10, <1>11, <1>12, <1>13, <1>14,
     <1>15, <1>16, <1>17, <1>18, <1>19 DEF ReviewNext

(* At first there is no turn and no review.                                 *)
LEMMA ReviewInitHolds == ReviewInit => ReviewInv
<1> SUFFICES ASSUME ReviewInit PROVE ReviewInv OBVIOUS
<1>1. \A r \in Reviews : review[r] = NoReview BY DEF ReviewInit
<1>2. \A r \in Reviews : ~Alive(r) BY <1>1 DEF Alive, NoReview
<1>3. 0 \in Reviews /\ \A r \in Periodic : r \in Reviews
  BY ReviewsAssumption DEF Reviews, Periodic
<1>4. ReviewTypeOK
  <2>1. review \in [Reviews -> [pc : {"none", "created", "chat", "write", "closing", "ended"},
                               of : Nat, upto : Nat, rounds : Nat, asked : BOOLEAN]]
    BY DEF ReviewInit, NoReview
  <2>2. turn \in [pc : {"none", "prompt", "saving", "running"}, asked : BOOLEAN]
    BY DEF ReviewInit, NoTurnRuns
  <2>3. /\ talk \in [of : Nat, turns : Nat, reviewed : Nat]
        /\ op \in [do : {"none", "cancel", "cancel_all", "reset", "close", "rollover"},
                   at : {"free", "turn", "reviews", "ends"}]
        /\ closed \in {"no", "begun", "complete"} /\ rollover \in BOOLEAN /\ orphans \subseteq Nat
    BY DEF ReviewInit, LockFree
  <2>4. /\ last \in Nat /\ queued \in Nat /\ submitted \in Nat /\ ops \in Nat
        /\ made \in 0..MaxReviews
    BY ReviewsAssumption DEF ReviewInit
  <2> QED BY <2>1, <2>2, <2>3, <2>4 DEF ReviewTypeOK
<1>5. Shape /\ Quieted /\ Apart
  BY DEF ReviewInit, Shape, Quieted, Apart, Quieting, LockFree, NoTurnRuns
<1>6. AllAsked /\ OfWhatThereIs BY <1>2, <1>3 DEF AllAsked, OfWhatThereIs
<1>7. Awaited BY <1>2, <1>3 DEF Awaited, ReviewInit, NoTurnRuns
<1>8. Marks BY ReviewsAssumption DEF ReviewInit, Marks, NoTurnRuns
<1>9. ClosedIsQuiet BY DEF ReviewInit, ClosedIsQuiet
<1> QED BY <1>4, <1>5, <1>6, <1>7, <1>8, <1>9 DEF ReviewInv

-----------------------------------------------------------------------------
(* Theorems *)

(* The invariant holds of every behaviour.                                  *)
THEOREM ReviewInvariance == ReviewSpec => []ReviewInv
<1>1. ReviewInit => ReviewInv BY ReviewInitHolds
<1>2. ReviewInv /\ [ReviewNext]_reviewVars => ReviewInv' BY ReviewNextKeeps
<1> QED BY <1>1, <1>2, PTL DEF ReviewSpec

(* The state has its type (the attributes of Agent that reviews use).       *)
THEOREM ReviewTypeCorrect == ReviewSpec => []ReviewTypeOK
<1>1. ReviewInv => ReviewTypeOK BY DEF ReviewInv
<1> QED BY <1>1, ReviewInvariance, PTL

(* No review of what a reset erased goes on, and none is of more than the   *)
(* session says (Agent.reset_session, _cancel_memory_review_tasks).         *)
THEOREM ErasedForGood == ReviewSpec => []NoneOfTheErased
<1>1. ReviewInv => NoneOfTheErased
  <2> SUFFICES ASSUME ReviewInv, NEW r \in Reviews, Alive(r)
               PROVE  /\ review[r].of = talk.of
                      /\ review[r].upto <= IF r = 0 /\ turn.pc = "saving"
                                           THEN talk.turns + 1 ELSE talk.turns
    BY DEF NoneOfTheErased
  <2>1. talk.turns \in Nat BY Numbers DEF ReviewInv
  <2>2. CASE r = 0
    <3>1. CASE turn.pc = "saving" BY <2>1, <2>2, <3>1 DEF ReviewInv, Awaited
    <3>2. CASE turn.pc # "saving" BY <2>1, <2>2, <3>2 DEF ReviewInv, Awaited
    <3> QED BY <3>1, <3>2
  <2>3. CASE r # 0
    <3>1. r \in Periodic BY <2>3, ReviewsAssumption DEF Reviews, Periodic
    <3> QED BY <2>3, <3>1 DEF ReviewInv, OfWhatThereIs
  <2> QED BY <2>2, <2>3
<1> QED BY <1>1, ReviewInvariance, PTL

(* A closed session runs no turn and no review of its own (Agent.close).    *)
THEOREM QuietWhenClosed == ReviewSpec => []ClosedIsQuiet
<1>1. ReviewInv => ClosedIsQuiet BY DEF ReviewInv
<1> QED BY <1>1, ReviewInvariance, PTL

(* Fewer than Interval committed turns lack a review begun since            *)
(* (turn_service.py, _schedule_periodic_memory_review).                     *)
THEOREM InTime == ReviewSpec => []ReviewedInTime
<1>1. ReviewInv => ReviewedInTime BY DEF ReviewInv, Marks, ReviewedInTime
<1> QED BY <1>1, ReviewInvariance, PTL

(* Together: what the run of the memory checks.                             *)
THEOREM ReviewsSound == ReviewSpec => []ReviewsAreSound
<1>1. /\ ReviewTypeOK /\ NoneOfTheErased /\ ClosedIsQuiet /\ ReviewedInTime
      => ReviewsAreSound
  BY DEF ReviewsAreSound
<1> QED BY <1>1, ReviewTypeCorrect, ErasedForGood, QuietWhenClosed, InTime, PTL

-----------------------------------------------------------------------------
(* Writes: the inductive invariant *)

Writes == Writers \X Nat

WriterType == [pc : {"idle", "flush", "replay", "rewrite", "direct", "stage"},
               k : Nat, entries : Seq(Writes), at : Nat]

OutboxType ==
    /\ outbox \in Seq(Writes) /\ remote \in Seq(Writes)
    /\ writer \in [Writers -> WriterType]
    /\ holder \in Writers \cup {Nobody} /\ cooling \in BOOLEAN
    /\ promised \in [returned : SUBSET Writes, before : SUBSET (Writes \X Writes),
                     dropped : SUBSET Writes, lost : SUBSET Writes, stuck : BOOLEAN]
    /\ mishaps \in Nat

(* The thread that holds the lock replays the outbox, and what it has      *)
(* passed is at the remote.                                                *)
Locked ==
    \A t \in Writers :
        /\ holder = t <=> writer[t].pc \in {"replay", "rewrite"}
        /\ holder = t => /\ writer[t].entries = outbox
                         /\ writer[t].at \in 1 .. Len(outbox) + 1
                         /\ writer[t].pc = "replay" => writer[t].at <= Len(outbox)
                         /\ \A i \in DOMAIN outbox : i < writer[t].at => outbox[i] \in Range(remote)

Begun(w) == w[2] <= writer[w[1]].k
Underway(w) == w[2] = writer[w[1]].k /\ writer[w[1]].pc # "idle"

(* Writes are numbered.  What is staged or has returned is not under way   *)
(* any more, and a write under way is at the remote only when the reply    *)
(* to it was lost.                                                         *)
Numbered ==
    /\ \A w \in Range(outbox) \cup promised.returned : Begun(w) /\ ~Underway(w)
    /\ \A w \in Range(remote) : Begun(w) /\ (Underway(w) => writer[w[1]].pc = "stage")
    /\ \A p \in promised.before : p[1] \in promised.returned /\ Begun(p[2]) /\ p[1] # p[2]

(* The first a is at the remote before any b; the last b after every a.    *)
StartsBefore(a, b) == \E i \in PlacesOf(a) : \A j \in PlacesOf(b) : i < j
EndsAfter(b, a) == \E j \in PlacesOf(b) : \A i \in PlacesOf(a) : i < j

(* The older of two writes is staged in front of the newer one.            *)
Queued(a, b) == \A i, j \in DOMAIN outbox : outbox[i] = a /\ outbox[j] = b => i < j

(* While the older can be repeated, so will the newer be.                  *)
Repeated(a, b) == b \in Range(remote) /\ a \in Range(outbox) => b \in Range(outbox)

(* A write goes out directly when all before it are through.               *)
Direct(a, b) == \A t \in Writers : b = Write(t) /\ writer[t].pc = "direct" => a \notin Range(outbox)

(* What a replay has passed it has brought in order.                       *)
Replayed(a, b) ==
    \A t \in Writers : holder = t =>
       \A j \in DOMAIN outbox : j < writer[t].at /\ outbox[j] = b => EndsAfter(b, a)

Arrived(a, b) ==
    b \in Range(remote) => StartsBefore(a, b) /\ (b \in Range(outbox) \/ EndsAfter(b, a))

Ordered(a, b) == Queued(a, b) /\ Repeated(a, b) /\ Direct(a, b) /\ Replayed(a, b) /\ Arrived(a, b)

Undropped(p) == p[1] \notin Gone /\ p[2] \notin Gone

InOrder == promised.stuck \/ \A p \in promised.before : Undropped(p) => Ordered(p[1], p[2])

OutboxInv == OutboxType /\ Locked /\ Numbered /\ NothingLost /\ InOrder

-----------------------------------------------------------------------------
(* Sequences *)

LEMMA AppendFacts ==
    ASSUME NEW S, NEW s \in Seq(S), NEW e \in S
    PROVE  /\ Append(s, e) \in Seq(S)
           /\ Len(s) \in Nat /\ DOMAIN s = 1..Len(s) /\ DOMAIN Append(s, e) = 1 .. Len(s) + 1
           /\ \A k \in DOMAIN s : Append(s, e)[k] = s[k]
           /\ Append(s, e)[Len(s) + 1] = e
           /\ Range(Append(s, e)) = Range(s) \cup {e}
<1> DEFINE A == Append(s, e)
<1>1. /\ A \in Seq(S)
      /\ Len(s) \in Nat /\ DOMAIN s = 1..Len(s) /\ DOMAIN A = 1 .. Len(s) + 1
      /\ \A k \in DOMAIN s : A[k] = s[k]
      /\ A[Len(s) + 1] = e
  OBVIOUS
<1> HIDE DEF A
<1>2. \A i : i \in DOMAIN A <=> i \in DOMAIN s \/ i = Len(s) + 1
  BY <1>1
<1>3. Range(A) = Range(s) \cup {e}
  BY <1>1, <1>2 DEF Range
<1> QED  BY <1>1, <1>3 DEF A

(* What is left of a sequence without its first n elements.                *)
LEMMA CutFacts ==
    ASSUME NEW S, NEW s \in Seq(S), NEW n \in 0..Len(s), NEW m, m = n + 1,
           NEW r, r = SubSeq(s, m, Len(s))
    PROVE  /\ r \in Seq(S) /\ Len(r) = Len(s) - n
           /\ \A i \in DOMAIN r : i + n \in DOMAIN s /\ i + n > n /\ r[i] = s[i + n]
           /\ \A j \in DOMAIN s : j > n => j - n \in DOMAIN r /\ r[j - n] = s[j]
           /\ \A j \in DOMAIN s : j > n => s[j] \in Range(r)
<1>1. Len(s) \in Nat /\ DOMAIN s = 1..Len(s) /\ n \in Nat /\ n <= Len(s)
  OBVIOUS
<1>2. \A k \in n + 1 .. Len(s) : s[k] \in S
  BY <1>1, ElementOfSeq
<1>3. /\ r \in Seq(S)
      /\ Len(r) = Len(s) - n
      /\ \A i \in 1 .. Len(s) - n : r[i] = s[i + n]
  <2>1. n + 1 \in Int /\ Len(s) \in Int
    BY <1>1
  <2>2. /\ r \in Seq(S)
        /\ Len(r) = IF n + 1 <= Len(s) THEN Len(s) - (n + 1) + 1 ELSE 0
        /\ \A i \in 1 .. Len(s) - (n + 1) + 1 : r[i] = s[(n + 1) + i - 1]
    BY <1>2, <2>1, SubSeqProperties
  <2>4. ASSUME NEW i \in 1 .. Len(s) - n PROVE r[i] = s[i + n]
    <3>1. i \in 1 .. Len(s) - (n + 1) + 1 /\ (n + 1) + i - 1 = i + n
      BY <1>1
    <3> QED  BY <2>2, <3>1
  <2>5. Len(r) = Len(s) - n
    <3>1. ASSUME NEW l \in Nat, n <= l PROVE (IF n + 1 <= l THEN l - (n + 1) + 1 ELSE 0) = l - n
      BY <1>1, <3>1
    <3> QED  BY <1>1, <2>2, <3>1
  <2> QED  BY <2>2, <2>4, <2>5
<1>4. DOMAIN r = 1 .. Len(s) - n
  BY <1>3
<1>5. \A i \in DOMAIN r : i + n \in DOMAIN s /\ i + n > n /\ r[i] = s[i + n]
  <2> SUFFICES ASSUME NEW i \in DOMAIN r
               PROVE  i + n \in DOMAIN s /\ i + n > n /\ r[i] = s[i + n]
    OBVIOUS
  <2>1. i \in 1 .. Len(s) - n /\ i + n \in 1..Len(s) /\ i + n > n
    BY <1>1, <1>4
  <2> QED  BY <1>1, <1>3, <2>1
<1>6. \A j \in DOMAIN s : j > n => j - n \in DOMAIN r /\ r[j - n] = s[j]
  <2> SUFFICES ASSUME NEW j \in DOMAIN s, j > n
               PROVE  j - n \in DOMAIN r /\ r[j - n] = s[j]
    OBVIOUS
  <2>1. j - n \in 1 .. Len(s) - n /\ (j - n) + n = j
    BY <1>1
  <2> QED  BY <1>4, <1>5, <2>1
<1>7. \A j \in DOMAIN s : j > n => s[j] \in Range(r)
  BY <1>6 DEF Range
<1> QED  BY <1>3, <1>5, <1>6, <1>7

-----------------------------------------------------------------------------
(* What a message to the remote changes *)

LEMMA Places == \A w : w \in Range(remote) <=> PlacesOf(w) # {}
  BY DEF Range, PlacesOf

(* A write that reaches the remote comes last.                             *)
LEMMA Sends ==
    ASSUME remote \in Seq(Writes), NEW w \in Writes, remote' = Append(remote, w), NEW a, NEW b
    PROVE  /\ remote' \in Seq(Writes) /\ Range(remote)' = Range(remote) \cup {w}
           /\ w # a => EndsAfter(w, a)'
           /\ w # a /\ EndsAfter(b, a) => EndsAfter(b, a)'
           /\ StartsBefore(a, b) => StartsBefore(a, b)'
           /\ a \in Range(remote) /\ b \notin Range(remote) /\ a # b => StartsBefore(a, b)'
<1>1. /\ remote' \in Seq(Writes) /\ Range(remote)' = Range(remote) \cup {w}
      /\ Len(remote) \in Nat /\ DOMAIN remote = 1..Len(remote)
      /\ DOMAIN remote' = 1 .. Len(remote) + 1
      /\ \A k \in DOMAIN remote : remote'[k] = remote[k]
      /\ remote'[Len(remote) + 1] = w
  BY AppendFacts
<1> DEFINE n == Len(remote) + 1
<1>2. /\ n \in DOMAIN remote' /\ \A i \in DOMAIN remote : i \in DOMAIN remote' /\ i < n
      /\ \A i \in DOMAIN remote' : i \in DOMAIN remote \/ i = n
  BY <1>1
<1>3. ASSUME NEW x PROVE /\ \A i \in PlacesOf(x) : i \in PlacesOf(x)' /\ i < n
                         /\ \A i \in PlacesOf(x)' : i \in PlacesOf(x) \/ (i = n /\ x = w)
                         /\ x = w => n \in PlacesOf(x)'
  BY <1>1, <1>2 DEF PlacesOf
<1> HIDE DEF n
<1>4. w # a => EndsAfter(w, a)'
  BY <1>3 DEF EndsAfter
<1>5. ASSUME w # a, EndsAfter(b, a) PROVE EndsAfter(b, a)'
  BY <1>3, <1>5 DEF EndsAfter
<1>6. ASSUME StartsBefore(a, b) PROVE StartsBefore(a, b)'
  BY <1>3, <1>6 DEF StartsBefore
<1>7. ASSUME a \in Range(remote), b \notin Range(remote), a # b PROVE StartsBefore(a, b)'
  <2>1. PICK i \in PlacesOf(a) : TRUE
    BY <1>7, Places
  <2>2. PlacesOf(b) = {}
    BY <1>7, Places
  <2> QED  BY <1>3, <2>1, <2>2 DEF StartsBefore
<1> QED  BY <1>1, <1>4, <1>5, <1>6, <1>7

-----------------------------------------------------------------------------
(* What keeps two writes in order *)

(* Nothing is sent or staged: a write may go out directly when nothing is  *)
(* staged, and a replay may begin.                                         *)
LEMMA Unsent ==
    ASSUME NEW a, NEW b, Ordered(a, b), UNCHANGED <<outbox, remote>>,
           \A t \in Writers : writer'[t].pc = "direct" =>
               (writer[t].pc = "direct" /\ writer'[t].k = writer[t].k) \/ outbox = << >>,
           \A t \in Writers : \A j \in DOMAIN outbox : holder' = t /\ j < writer'[t].at =>
               holder = t /\ j < writer[t].at
    PROVE  Ordered(a, b)'
<1>1. \A x : PlacesOf(x)' = PlacesOf(x)
  BY DEF PlacesOf
<1>2. Queued(a, b)' /\ Repeated(a, b)'
  BY DEF Ordered, Queued, Repeated
<1>3. Direct(a, b)'
  <2> SUFFICES ASSUME NEW t \in Writers, b = Write(t)', writer'[t].pc = "direct",
                      a \in Range(outbox)
               PROVE  FALSE
    BY DEF Direct
  <2>1. outbox # << >>
    BY DEF Range
  <2> QED  BY <2>1 DEF Ordered, Direct, Write
<1>4. EndsAfter(b, a)' <=> EndsAfter(b, a)
  BY <1>1 DEF EndsAfter
<1>5. StartsBefore(a, b)' <=> StartsBefore(a, b)
  BY <1>1 DEF StartsBefore
<1>6. Replayed(a, b)'
  BY <1>4 DEF Ordered, Replayed
<1>7. Arrived(a, b)'
  BY <1>4, <1>5 DEF Ordered, Arrived
<1> QED  BY <1>2, <1>3, <1>6, <1>7 DEF Ordered

(* w is sent: the older of the two only as a repetition of what is staged, *)
(* the newer only after the older.                                         *)
LEMMA Sent ==
    ASSUME OutboxType, NEW a, NEW b, a # b, Ordered(a, b),
           NEW w \in Writes, remote' = Append(remote, w), UNCHANGED outbox,
           w = a => a \in Range(outbox),
           w = b => a \in Range(remote) /\ (b \in Range(outbox) \/ a \notin Range(outbox)),
           \A t \in Writers : writer'[t].pc = "direct" =>
               (writer[t].pc = "direct" /\ writer'[t].k = writer[t].k) \/ outbox = << >>,
           \A t \in Writers : \A j \in DOMAIN outbox :
               holder' = t /\ j < writer'[t].at /\ outbox[j] = b =>
               w = b \/ (w # a /\ holder = t /\ j < writer[t].at)
    PROVE  Ordered(a, b)'
<1>1. /\ Range(remote)' = Range(remote) \cup {w}
      /\ w # a => EndsAfter(w, a)'
      /\ w # a /\ EndsAfter(b, a) => EndsAfter(b, a)'
      /\ StartsBefore(a, b) => StartsBefore(a, b)'
      /\ a \in Range(remote) /\ b \notin Range(remote) => StartsBefore(a, b)'
  BY Sends DEF OutboxType
<1>2. Queued(a, b)' /\ Range(outbox)' = Range(outbox)
  BY DEF Ordered, Queued
<1>3. Repeated(a, b)'
  BY <1>1, <1>2 DEF Ordered, Repeated
<1>4. Direct(a, b)'
  <2> SUFFICES ASSUME NEW t \in Writers, b = Write(t)', writer'[t].pc = "direct",
                      a \in Range(outbox)
               PROVE  FALSE
    BY DEF Direct
  <2>1. outbox # << >>
    BY DEF Range
  <2> QED  BY <2>1 DEF Ordered, Direct, Write
<1>5. Replayed(a, b)'
  <2> SUFFICES ASSUME NEW t \in Writers, holder' = t, NEW j \in DOMAIN outbox,
                      j < writer'[t].at, outbox[j] = b
               PROVE  EndsAfter(b, a)'
    BY DEF Replayed
  <2>1. CASE w = b
    BY <1>1, <2>1
  <2>2. CASE w # b
    BY <1>1, <2>2 DEF Ordered, Replayed
  <2> QED  BY <2>1, <2>2
<1>6. Arrived(a, b)'
  <2> SUFFICES ASSUME b \in Range(remote)'
               PROVE  StartsBefore(a, b)' /\ (b \in Range(outbox) \/ EndsAfter(b, a)')
    BY <1>2 DEF Arrived
  <2>1. CASE b \in Range(remote)
    <3>1. StartsBefore(a, b)' /\ (b \in Range(outbox) \/ EndsAfter(b, a))
      BY <1>1, <2>1 DEF Ordered, Arrived
    <3>2. w = a => b \in Range(outbox)
      BY <2>1 DEF Ordered, Repeated
    <3> QED  BY <1>1, <3>1, <3>2
  <2>2. CASE b \notin Range(remote)
    <3>1. w = b
      BY <1>1, <2>2
    <3> QED  BY <1>1, <2>2, <3>1
  <2> QED  BY <2>1, <2>2
<1> QED  BY <1>2, <1>3, <1>4, <1>5, <1>6 DEF Ordered

-----------------------------------------------------------------------------
(* Every step keeps the invariant *)

LEMMA Threads == Nobody \notin Writers /\ \A w \in Writes : w[1] \in Writers /\ w[2] \in Nat
  BY OutboxAssumption DEF Writes

(* The writes of two threads, and two writes of a thread, are different.   *)
LEMMA WrittenIs ==
    ASSUME OutboxType, NEW t \in Writers
    PROVE  Write(t) \in Writes /\ Write(t)[1] = t /\ Write(t)[2] = writer[t].k
  BY DEF OutboxType, WriterType, Write, Writes

(* What a step of t keeps of the numbers of writes.                        *)
LEMMA MoveNumbers ==
    ASSUME OutboxType, Numbered, NEW t \in Writers,
           \A u \in Writers \ {t} : writer'[u] = writer[u],
           writer'[t].k = writer[t].k, writer[t].pc # "idle",
           Range(outbox)' \subseteq Range(outbox) \cup {Write(t)},
           Range(remote)' \subseteq Range(remote) \cup Range(outbox) \cup {Write(t)},
           promised.returned \subseteq promised'.returned,
           promised'.returned \subseteq promised.returned \cup {Write(t)},
           promised'.before = promised.before,
           Write(t) \in Range(outbox)' \cup promised'.returned => writer'[t].pc = "idle",
           Write(t) \in Range(remote)' => writer'[t].pc \in {"idle", "stage"}
    PROVE  Numbered'
<1>1. /\ \A x \in Range(outbox) \cup Range(remote) \cup promised.returned : x \in Writes
      /\ \A p \in promised.before : p[2] \in Writes
  BY DEF OutboxType, Range
<1>2. PICK v : v = Write(t)
  OBVIOUS
<1>3. v \in Writes /\ v[1] = t /\ v[2] = writer[t].k
  BY <1>2, WrittenIs
<1>4. \A x \in Writes : x[1] \in Writers /\ (x # v => ~(x[1] = t /\ x[2] = writer[t].k))
  BY <1>2 DEF Writes, Write
<1>5. \A x \in Writes : Begun(x)' <=> Begun(x)
  BY <1>4 DEF Begun
<1>6. \A x \in Writes : x # v => (Underway(x)' <=> Underway(x))
  BY <1>4 DEF Underway
<1>7. Begun(v) /\ (writer'[t].pc = "idle" => ~Underway(v)')
  BY <1>3 DEF Begun, Underway, OutboxType, WriterType
<1>8. \A x \in Writes : x # v /\ Underway(x) => writer'[x[1]] = writer[x[1]]
  BY <1>4 DEF Underway
<1>9. \A x \in Range(outbox)' \cup promised'.returned : Begun(x)' /\ ~Underway(x)'
  <2> SUFFICES ASSUME NEW x \in Range(outbox)' \cup promised'.returned
               PROVE  Begun(x)' /\ ~Underway(x)'
    OBVIOUS
  <2>1. CASE x = v
    BY <1>2, <1>3, <1>5, <1>7, <2>1
  <2>2. CASE x # v
    <3>1. x \in Range(outbox) \cup promised.returned
      BY <1>2, <2>2
    <3> QED  BY <1>1, <1>5, <1>6, <2>2, <3>1 DEF Numbered
  <2> QED  BY <2>1, <2>2
<1>10. \A x \in Range(remote)' : Begun(x)' /\ (Underway(x)' => writer'[x[1]].pc = "stage")
  <2> SUFFICES ASSUME NEW x \in Range(remote)'
               PROVE  Begun(x)' /\ (Underway(x)' => writer'[x[1]].pc = "stage")
    OBVIOUS
  <2>1. CASE x = v
    BY <1>2, <1>3, <1>5, <1>7, <2>1
  <2>2. CASE x # v
    <3>1. x \in Range(remote) \cup Range(outbox)
      BY <1>2, <2>2
    <3>2. Begun(x) /\ (Underway(x) => writer[x[1]].pc = "stage")
      BY <3>1 DEF Numbered
    <3> QED  BY <1>1, <1>5, <1>6, <1>8, <2>2, <3>1, <3>2
  <2> QED  BY <2>1, <2>2
<1>11. \A p \in promised'.before : p[1] \in promised'.returned /\ Begun(p[2])' /\ p[1] # p[2]
  BY <1>1, <1>5 DEF Numbered
<1> QED  BY <1>9, <1>10, <1>11 DEF Numbered

(* _write begins: whatever has returned is before it.                      *)
LEMMA BeginWriteKeeps ==
    ASSUME OutboxInv, NEW t \in Writers, BeginWrite(t)
    PROVE  OutboxInv'
<1>1. PICK w : w = <<t, writer[t].k + 1>>
  OBVIOUS
<1>2. writer[t].k \in Nat /\ w \in Writes
  BY <1>1 DEF OutboxInv, OutboxType, WriterType, Writes
<1>3. PICK more : more = {<<a, w>> : a \in promised.returned}
  OBVIOUS
<1>4. more \in SUBSET (Writes \X Writes)
  BY <1>2, <1>3 DEF OutboxInv, OutboxType
<1>5. /\ UNCHANGED <<outbox, remote, holder, cooling, mishaps>>
      /\ writer' = [writer EXCEPT ![t] = [Idle(writer[t].k + 1) EXCEPT !.pc = "flush"]]
      /\ promised' = [promised EXCEPT !.before = promised.before \cup more]
      /\ writer[t].pc = "idle"
  BY <1>1, <1>3 DEF BeginWrite
<1>6. /\ writer'[t] = [pc |-> "flush", k |-> writer[t].k + 1, entries |-> << >>, at |-> 0]
      /\ \A u \in Writers \ {t} : writer'[u] = writer[u]
      /\ writer' \in [Writers -> WriterType]
  <2>1. [Idle(writer[t].k + 1) EXCEPT !.pc = "flush"]
          = [pc |-> "flush", k |-> writer[t].k + 1, entries |-> << >>, at |-> 0]
    BY DEF Idle
  <2>2. PICK new : new = [pc |-> "flush", k |-> writer[t].k + 1, entries |-> << >>, at |-> 0]
    OBVIOUS
  <2>3. new \in WriterType
    BY <1>2, <2>2 DEF WriterType
  <2>4. writer' = [writer EXCEPT ![t] = new] /\ writer \in [Writers -> WriterType]
    BY <1>5, <2>1, <2>2 DEF OutboxInv, OutboxType
  <2> QED  BY <2>2, <2>3, <2>4
<1>7. /\ promised'.before = promised.before \cup more
      /\ promised'.returned = promised.returned /\ Gone' = Gone
      /\ promised'.stuck = promised.stuck
      /\ promised' \in [returned : SUBSET Writes, before : SUBSET (Writes \X Writes),
                        dropped : SUBSET Writes, lost : SUBSET Writes, stuck : BOOLEAN]
  BY <1>4, <1>5 DEF OutboxInv, OutboxType, Gone
<1>8. OutboxType'
  BY <1>5, <1>6, <1>7 DEF OutboxInv, OutboxType
<1>9. Locked'
  BY <1>5, <1>6 DEF OutboxInv, Locked
<1>10. /\ \A x \in Range(outbox) \cup Range(remote) \cup promised.returned :
             x \in Writes /\ Begun(x) /\ (Underway(x) => writer[x[1]].pc = "stage")
       /\ \A x \in Range(outbox) \cup promised.returned : ~Underway(x)
       /\ \A p \in promised.before : p[2] \in Writes
  BY DEF OutboxInv, Numbered, OutboxType, Range
<1>11. \A x \in Writes : Begun(x) => /\ Begun(x)'
                                     /\ Underway(x)' => Underway(x) /\ writer'[x[1]] = writer[x[1]]
  <2> SUFFICES ASSUME NEW x \in Writes, Begun(x)
               PROVE  Begun(x)' /\ (Underway(x)' => Underway(x) /\ writer'[x[1]] = writer[x[1]])
    OBVIOUS
  <2>1. x[1] \in Writers /\ x[2] \in Nat
    BY Threads
  <2>2. CASE x[1] = t
    BY <1>2, <1>6, <2>1, <2>2 DEF Begun, Underway
  <2>3. CASE x[1] # t
    BY <1>6, <2>1, <2>3 DEF Begun, Underway
  <2> QED  BY <2>2, <2>3
<1>12. ~Begun(w) /\ Begun(w)'
  <2>1. w[1] = t /\ w[2] = writer[t].k + 1
    BY <1>1
  <2> QED  BY <1>2, <1>6, <2>1 DEF Begun
<1>13. Numbered'
  <2>1. \A x \in Range(outbox) \cup promised.returned : Begun(x)' /\ ~Underway(x)'
    BY <1>10, <1>11
  <2>2. \A x \in Range(remote) : Begun(x)' /\ (Underway(x)' => writer'[x[1]].pc = "stage")
    BY <1>10, <1>11
  <2>3. ASSUME NEW p \in promised'.before
        PROVE  p[1] \in promised.returned /\ Begun(p[2])' /\ p[1] # p[2]
    <3>1. CASE p \in promised.before
      BY <1>10, <1>11, <3>1 DEF OutboxInv, Numbered
    <3>2. CASE p \in more
      <4>1. PICK a \in promised.returned : p = <<a, w>>
        BY <1>3, <3>2
      <4>2. p[1] = a /\ p[2] = w /\ Begun(a)
        BY <1>10, <4>1
      <4> QED  BY <1>12, <4>2
    <3> QED  BY <1>7, <3>1, <3>2
  <2> QED  BY <1>5, <1>7, <2>1, <2>2, <2>3 DEF Numbered
<1>14. NothingLost'
  BY <1>5, <1>7 DEF OutboxInv, NothingLost
<1>15. InOrder'
  <2> SUFFICES ASSUME ~promised.stuck, NEW p \in promised'.before, Undropped(p)
               PROVE  Ordered(p[1], p[2])'
    BY <1>7 DEF InOrder, Undropped, Gone
  <2>1. CASE p \in promised.before
    <3>1. Ordered(p[1], p[2])
      BY <2>1 DEF OutboxInv, InOrder
    <3> QED  BY <1>5, <1>6, <3>1, Unsent DEF OutboxInv, Locked
  <2>2. CASE p \in more
    <3>1. PICK a \in promised.returned : p = <<a, w>>
      BY <1>3, <2>2
    <3>2. w \notin Range(outbox) /\ w \notin Range(remote)
      BY <1>10, <1>12
    <3>3. Queued(a, w)' /\ Repeated(a, w)' /\ Replayed(a, w)' /\ Arrived(a, w)'
      BY <1>5, <3>2 DEF Queued, Repeated, Replayed, Arrived, Range
    <3>4. Direct(a, w)'
      <4>1. \A u \in Writers : w = Write(u)' => u = t
        BY <1>1 DEF Write
      <4> QED  BY <1>6, <4>1 DEF Direct
    <3>5. Ordered(a, w)'
      BY <3>3, <3>4 DEF Ordered
    <3>6. p[1] = a /\ p[2] = w
      BY <3>1
    <3> QED  BY <3>5, <3>6
  <2> QED  BY <1>7, <2>1, <2>2
<1> QED  BY <1>8, <1>9, <1>13, <1>14, <1>15 DEF OutboxInv

(* A write under way is not staged, and at the remote only before it is    *)
(* staged.                                                                 *)
LEMMA NotYet ==
    ASSUME OutboxInv, NEW t \in Writers, writer[t].pc # "idle"
    PROVE  /\ Write(t) \notin Range(outbox) /\ Write(t) \notin promised.returned
           /\ writer[t].pc # "stage" => Write(t) \notin Range(remote)
           /\ \A p \in promised.before : p[1] # Write(t) /\ p[1] \in promised.returned
<1>1. PICK w : w = Write(t)
  OBVIOUS
<1>2. Underway(w) /\ w[1] = t
  BY <1>1, WrittenIs DEF OutboxInv, Underway
<1> QED  BY <1>1, <1>2 DEF OutboxInv, Numbered

(* A step of t that sends and stages nothing.                              *)
LEMMA LocalKeeps ==
    ASSUME OutboxInv, NEW t \in Writers, UNCHANGED <<outbox, remote>>,
           NEW new \in WriterType, writer' = [writer EXCEPT ![t] = new],
           new.k = writer[t].k, writer[t].pc # "idle", new.pc # "idle",
           Write(t) \in Range(remote) => new.pc = "stage",
           promised'.returned = promised.returned, promised'.before = promised.before,
           Gone' = Gone,
           \/ promised'.stuck
           \/ /\ promised'.stuck = promised.stuck
              /\ new.pc = "direct" => writer[t].pc = "direct" \/ outbox = << >>
              /\ \A u \in Writers : \A j \in DOMAIN outbox :
                   holder' = u /\ j < writer'[u].at => holder = u /\ j < writer[u].at
    PROVE  /\ writer'[t] = new /\ \A u \in Writers \ {t} : writer'[u] = writer[u]
           /\ writer' \in [Writers -> WriterType]
           /\ Numbered' /\ NothingLost' /\ InOrder'
<1>1. /\ writer'[t] = new /\ \A u \in Writers \ {t} : writer'[u] = writer[u]
      /\ writer' \in [Writers -> WriterType]
  BY DEF OutboxInv, OutboxType
<1>2. Numbered'
  <2>1. Write(t) \notin Range(outbox) \cup promised.returned
    BY NotYet
  <2> QED  BY <1>1, <2>1, MoveNumbers DEF OutboxInv
<1>3. NothingLost'
  BY DEF OutboxInv, NothingLost
<1>4. InOrder'
  <2> SUFFICES ASSUME ~promised'.stuck, NEW p \in promised.before, Undropped(p)
               PROVE  Ordered(p[1], p[2])'
    BY DEF InOrder, Undropped, Gone
  <2>1. Ordered(p[1], p[2])
    BY DEF OutboxInv, InOrder
  <2> QED  BY <1>1, <2>1, Unsent
<1> QED  BY <1>1, <1>2, <1>3, <1>4

(* The replay begins, or there is nothing to replay, or not yet again, or  *)
(* the file cannot be read.                                                *)
LEMMA FlushKeeps ==
    ASSUME OutboxInv, NEW t \in Writers, FlushBegins(t)
    PROVE  OutboxInv'
<1>1. /\ writer[t].pc = "flush" /\ holder = Nobody
      /\ UNCHANGED <<outbox, remote>>
      /\ Write(t) \notin Range(remote) /\ t # Nobody
      /\ writer \in [Writers -> WriterType] /\ writer[t] \in WriterType
      /\ outbox \in Seq(Writes)
  BY NotYet, Threads DEF FlushBegins, OutboxInv, OutboxType
<1>2. PICK direct, stage, replay :
        /\ direct = [writer[t] EXCEPT !.pc = "direct"]
        /\ stage = [writer[t] EXCEPT !.pc = "stage"]
        /\ replay = [writer[t] EXCEPT !.pc = "replay", !.entries = outbox, !.at = 1]
  OBVIOUS
<1>3. /\ direct \in WriterType /\ direct.k = writer[t].k /\ direct.pc = "direct" /\ direct.at = writer[t].at
      /\ stage \in WriterType /\ stage.k = writer[t].k /\ stage.pc = "stage" /\ stage.at = writer[t].at
      /\ replay \in WriterType /\ replay.k = writer[t].k /\ replay.pc = "replay"
      /\ replay.entries = outbox /\ replay.at = 1
  BY <1>1, <1>2 DEF WriterType
<1>4. \A j \in DOMAIN outbox : j \in Nat /\ ~(j < 1)
  BY <1>1
<1>5. \E new \in {direct, stage, replay} :
        /\ writer' = [writer EXCEPT ![t] = new]
        /\ holder' = IF new = replay THEN t ELSE Nobody
        /\ cooling' \in BOOLEAN /\ mishaps' \in Nat
        /\ new = replay => outbox # << >>
        /\ \/ /\ promised' = promised
              /\ new = direct => outbox = << >>
           \/ /\ promised' = [promised EXCEPT !.stuck = TRUE]
              /\ new # replay
  <2>1. [writer EXCEPT ![t].pc = "direct"] = [writer EXCEPT ![t] = direct]
    BY <1>1, <1>2
  <2>2. [writer EXCEPT ![t].pc = "stage"] = [writer EXCEPT ![t] = stage]
    BY <1>1, <1>2
  <2>3. [writer EXCEPT ![t].pc = "replay", ![t].entries = outbox, ![t].at = 1]
          = [writer EXCEPT ![t] = replay]
    BY <1>1, <1>2 DEF WriterType
  <2>4. direct # stage /\ direct # replay /\ stage # replay
    BY <1>3
  <2>5. cooling \in BOOLEAN /\ mishaps \in Nat /\ mishaps + 1 \in Nat
    BY DEF OutboxInv, OutboxType
  <2>6. CASE /\ outbox = << >> /\ writer' = [writer EXCEPT ![t] = direct]
             /\ UNCHANGED <<holder, cooling, promised, mishaps>>
    BY <1>1, <2>4, <2>5, <2>6
  <2>7. CASE /\ writer' = [writer EXCEPT ![t] = direct] /\ mishaps' = mishaps + 1
             /\ promised' = [promised EXCEPT !.stuck = TRUE] /\ UNCHANGED <<holder, cooling>>
    BY <1>1, <2>4, <2>5, <2>7
  <2>8. CASE /\ writer' = [writer EXCEPT ![t] = stage]
             /\ UNCHANGED <<holder, cooling, promised, mishaps>>
    BY <1>1, <2>4, <2>5, <2>8
  <2>9. CASE /\ outbox # << >> /\ writer' = [writer EXCEPT ![t] = replay]
             /\ holder' = t /\ cooling' = TRUE /\ UNCHANGED <<promised, mishaps>>
    BY <1>1, <2>4, <2>5, <2>9
  <2> QED  BY <2>1, <2>2, <2>3, <2>6, <2>7, <2>8, <2>9 DEF FlushBegins, WhileStuck
<1>6. PICK new \in {direct, stage, replay} :
        /\ writer' = [writer EXCEPT ![t] = new]
        /\ holder' = IF new = replay THEN t ELSE Nobody
        /\ cooling' \in BOOLEAN /\ mishaps' \in Nat
        /\ new = replay => outbox # << >>
        /\ \/ /\ promised' = promised
              /\ new = direct => outbox = << >>
           \/ /\ promised' = [promised EXCEPT !.stuck = TRUE]
              /\ new # replay
  BY <1>5
<1>7. /\ new \in WriterType /\ new.k = writer[t].k /\ new.pc \in {"direct", "stage", "replay"}
      /\ new.pc = "direct" => new = direct
      /\ new.pc = "replay" <=> new = replay
      /\ new.pc # "replay" => new.at = writer[t].at
  BY <1>3, <1>6
<1>8. /\ writer'[t] = new /\ \A u \in Writers \ {t} : writer'[u] = writer[u]
      /\ writer' \in [Writers -> WriterType]
  BY <1>1, <1>6, <1>7
<1>9. /\ promised'.returned = promised.returned /\ promised'.before = promised.before
      /\ Gone' = Gone
      /\ promised' = promised \/ promised'.stuck
      /\ promised' \in [returned : SUBSET Writes, before : SUBSET (Writes \X Writes),
                        dropped : SUBSET Writes, lost : SUBSET Writes, stuck : BOOLEAN]
  BY <1>6 DEF OutboxInv, OutboxType, Gone
<1>10. \A u \in Writers : \A j \in DOMAIN outbox :
        holder' = u /\ j < writer'[u].at => holder = u /\ j < writer[u].at
  BY <1>3, <1>4, <1>6, <1>7, <1>8, Threads
<1>11. \/ promised'.stuck
       \/ /\ promised'.stuck = promised.stuck
          /\ new.pc = "direct" => writer[t].pc = "direct" \/ outbox = << >>
  <2>1. CASE promised' = promised /\ (new = direct => outbox = << >>)
    BY <1>7, <2>1
  <2>2. CASE promised' = [promised EXCEPT !.stuck = TRUE]
    BY <2>2 DEF OutboxInv, OutboxType
  <2> QED  BY <1>6, <2>1, <2>2
<1>12. Numbered' /\ NothingLost' /\ InOrder'
  BY <1>1, <1>6, <1>7, <1>9, <1>10, <1>11, LocalKeeps
<1>13. OutboxType'
  BY <1>1, <1>6, <1>8, <1>9 DEF OutboxInv, OutboxType
<1>14. Locked'
  <2>1. \A u \in Writers : writer[u].pc \notin {"replay", "rewrite"}
    BY <1>1, Threads DEF OutboxInv, Locked
  <2>2. outbox # << >> => 1 \in 1 .. Len(outbox) + 1 /\ 1 <= Len(outbox)
    BY <1>1
  <2>3. new = replay => new.entries = outbox /\ new.at = 1
    BY <1>3
  <2> QED  BY <1>1, <1>4, <1>6, <1>7, <1>8, <2>1, <2>2, <2>3, Threads DEF Locked
<1> QED  BY <1>12, <1>13, <1>14 DEF OutboxInv

(* An entry of the outbox is sent: what is before it has been already.     *)
LEMMA ReplaySends ==
    ASSUME OutboxInv, NEW t \in Writers, writer[t].pc = "replay",
           remote' = Append(remote, outbox[writer[t].at]), UNCHANGED <<outbox, holder, promised>>,
           NEW new \in WriterType, writer' = [writer EXCEPT ![t] = new],
           new.k = writer[t].k, new.entries = writer[t].entries,
           \/ new.pc = "rewrite" /\ new.at \in {writer[t].at, writer[t].at + 1}
           \/ new.pc = "replay" /\ new.at = writer[t].at + 1 /\ new.at <= Len(outbox)
    PROVE  remote' \in Seq(Writes) /\ Locked' /\ Numbered' /\ NothingLost' /\ InOrder'
<1>1. PICK n : n = writer[t].at
  OBVIOUS
<1>2. /\ holder = t /\ n \in DOMAIN outbox /\ Len(outbox) \in Nat /\ DOMAIN outbox = 1..Len(outbox)
      /\ \A i \in DOMAIN outbox : i < n => outbox[i] \in Range(remote)
      /\ writer[t].entries = outbox
  BY <1>1 DEF OutboxInv, Locked, OutboxType
<1>3. PICK w : w = outbox[n]
  OBVIOUS
<1>4. w \in Writes /\ w \in Range(outbox) /\ remote' = Append(remote, w)
  BY <1>1, <1>2, <1>3 DEF OutboxInv, OutboxType, Range
<1>5. remote' \in Seq(Writes) /\ Range(remote)' = Range(remote) \cup {w}
  BY <1>4, AppendFacts DEF OutboxInv, OutboxType
<1>6. writer'[t] = new /\ \A u \in Writers \ {t} : writer'[u] = writer[u]
  BY DEF OutboxInv, OutboxType
<1>7. Locked'
  <2>1. new.at \in 1 .. Len(outbox) + 1 /\ new.at \in {n, n + 1}
    BY <1>1, <1>2
  <2>2. \A i \in DOMAIN outbox : i < new.at => outbox[i] \in Range(remote)'
    BY <1>2, <1>3, <1>5, <2>1
  <2>3. \A u \in Writers \ {t} : holder # u /\ writer[u].pc \notin {"replay", "rewrite"}
    BY <1>2 DEF OutboxInv, Locked
  <2> QED  BY <1>2, <1>6, <2>1, <2>2, <2>3 DEF Locked
<1>8. Numbered'
  <2>1. /\ Write(t) \notin Range(outbox) /\ Write(t) \notin promised.returned
        /\ Write(t) \notin Range(remote)
    BY NotYet
  <2>2. Range(remote)' \subseteq Range(remote) \cup Range(outbox) /\ Write(t) \notin Range(remote)'
    BY <1>4, <1>5, <2>1
  <2>3. promised'.returned = promised.returned /\ promised'.before = promised.before
    OBVIOUS
  <2> QED  BY <1>6, <2>1, <2>2, <2>3, MoveNumbers DEF OutboxInv
<1>9. NothingLost'
  BY <1>5 DEF OutboxInv, NothingLost, Gone
<1>10. InOrder'
  <2> SUFFICES ASSUME ~promised.stuck, NEW p \in promised.before, Undropped(p)
               PROVE  Ordered(p[1], p[2])'
    BY DEF InOrder, Undropped, Gone
  <2>1. PICK a, b : a = p[1] /\ b = p[2]
    OBVIOUS
  <2>2. /\ Ordered(a, b) /\ a # b
        /\ a \in promised.returned /\ a \notin Gone
    BY <2>1 DEF OutboxInv, InOrder, Numbered, Undropped, Gone
  <2>3. w = b => a \in Range(remote) /\ b \in Range(outbox)
    <3>1. CASE a \in Range(outbox)
      <4>1. PICK i \in DOMAIN outbox : outbox[i] = a
        BY <3>1 DEF Range
      <4>2. w = b => i < n
        BY <1>2, <1>3, <2>2, <4>1 DEF Ordered, Queued
      <4> QED  BY <1>2, <1>4, <4>1, <4>2
    <3>2. CASE a \notin Range(outbox)
      BY <1>4, <2>2, <3>2 DEF OutboxInv, NothingLost
    <3> QED  BY <3>1, <3>2
  <2>4. \A j \in DOMAIN outbox : j < new.at /\ outbox[j] = b =>
          w = b \/ (w # a /\ j < n)
    <3> SUFFICES ASSUME NEW j \in DOMAIN outbox, j < new.at, outbox[j] = b, w # b
                 PROVE  w # a /\ j < n
      OBVIOUS
    <3>1. j < n
      BY <1>1, <1>2, <1>3
    <3>2. w = a => n < j
      BY <1>2, <1>3, <2>2 DEF Ordered, Queued
    <3> QED  BY <1>2, <3>1, <3>2
  <2>5. \A u \in Writers : \A j \in DOMAIN outbox :
           holder' = u /\ j < writer'[u].at /\ outbox[j] = b =>
           w = b \/ (w # a /\ holder = u /\ j < writer[u].at)
    BY <1>1, <1>2, <1>6, <2>4
  <2>6. \A u \in Writers : writer'[u].pc = "direct" =>
               (writer[u].pc = "direct" /\ writer'[u].k = writer[u].k) \/ outbox = << >>
    BY <1>6
  <2>7. Ordered(a, b)'
    BY <1>4, <2>2, <2>3, <2>5, <2>6, Sent DEF OutboxInv
  <2> QED  BY <2>1, <2>7
<1> QED  BY <1>5, <1>7, <1>8, <1>9, <1>10

LEMMA ReplayKeeps ==
    ASSUME OutboxInv, NEW t \in Writers, Replay(t)
    PROVE  OutboxInv'
<1>1. /\ writer[t].pc = "replay" /\ UNCHANGED <<outbox, holder, cooling, promised>>
      /\ holder = t /\ writer[t].entries = outbox /\ writer[t].at \in 1..Len(outbox)
      /\ Write(t) \notin Range(remote)
  BY NotYet DEF Replay, OutboxInv, Locked
<1>2. PICK w : w = outbox[writer[t].at]
  OBVIOUS
<1>3. PICK how \in {"replay", "rewrite"} :
             how = IF writer[t].at = Len(outbox) THEN "rewrite" ELSE "replay"
  OBVIOUS
<1>4. PICK next, stop : /\ next = [writer[t] EXCEPT !.at = writer[t].at + 1, !.pc = how]
                        /\ stop = [writer[t] EXCEPT !.pc = "rewrite"]
  OBVIOUS
<1>5. /\ next \in WriterType /\ stop \in WriterType
      /\ next.k = writer[t].k /\ next.entries = outbox /\ next.at = writer[t].at + 1
      /\ next.pc = how
      /\ stop.k = writer[t].k /\ stop.entries = outbox /\ stop.at = writer[t].at
      /\ stop.pc = "rewrite"
  <2>1. writer[t] \in WriterType /\ writer[t].at + 1 \in Nat
    BY DEF OutboxInv, OutboxType, WriterType
  <2> QED  BY <1>1, <1>4, <2>1 DEF WriterType
<1>6. /\ mishaps' \in Nat
      /\ \/ /\ remote' = Append(remote, w) /\ writer' = [writer EXCEPT ![t] = next]
         \/ /\ remote' = Append(remote, w) /\ writer' = [writer EXCEPT ![t] = stop]
         \/ /\ remote' = remote /\ writer' = [writer EXCEPT ![t] = stop]
  <2>1. writer \in [Writers -> WriterType] /\ mishaps \in Nat
    BY DEF OutboxInv, OutboxType
  <2>2. [writer EXCEPT ![t].at = writer[t].at + 1, ![t].pc = how] = [writer EXCEPT ![t] = next]
    BY <1>4, <2>1 DEF WriterType
  <2>3. [writer EXCEPT ![t].pc = "rewrite"] = [writer EXCEPT ![t] = stop]
    BY <1>4, <2>1 DEF WriterType
  <2>4. \/ /\ remote' = Append(remote, w) /\ mishaps' = mishaps
           /\ writer' = [writer EXCEPT ![t].at = writer[t].at + 1, ![t].pc = how]
        \/ /\ mishaps' = mishaps + 1 /\ remote' \in {remote, Append(remote, w)}
           /\ writer' = [writer EXCEPT ![t].pc = "rewrite"]
    BY <1>1, <1>2, <1>3 DEF Replay, Applied, Failed
  <2> QED  BY <2>1, <2>2, <2>3, <2>4
<1>7. CASE remote' = Append(remote, w) /\ writer' = [writer EXCEPT ![t] = next]
  <2>1. \/ next.pc = "rewrite" /\ next.at \in {writer[t].at, writer[t].at + 1}
        \/ next.pc = "replay" /\ next.at = writer[t].at + 1 /\ next.at <= Len(outbox)
    BY <1>1, <1>3, <1>5 DEF OutboxInv, OutboxType
  <2>2. remote' \in Seq(Writes) /\ Locked' /\ Numbered' /\ NothingLost' /\ InOrder'
    BY <1>1, <1>2, <1>5, <1>7, <2>1, ReplaySends
  <2>3. OutboxType'
    BY <1>1, <1>5, <1>6, <1>7, <2>2 DEF OutboxInv, OutboxType
  <2> QED  BY <2>2, <2>3 DEF OutboxInv
<1>8. CASE remote' = Append(remote, w) /\ writer' = [writer EXCEPT ![t] = stop]
  <2>1. remote' \in Seq(Writes) /\ Locked' /\ Numbered' /\ NothingLost' /\ InOrder'
    BY <1>1, <1>2, <1>5, <1>8, ReplaySends
  <2>2. OutboxType'
    BY <1>1, <1>5, <1>6, <1>8, <2>1 DEF OutboxInv, OutboxType
  <2> QED  BY <2>1, <2>2 DEF OutboxInv
<1>9. CASE remote' = remote /\ writer' = [writer EXCEPT ![t] = stop]
  <2>1. writer'[t] = stop /\ \A u \in Writers \ {t} : writer'[u] = writer[u]
    BY <1>9 DEF OutboxInv, OutboxType
  <2>2. \A u \in Writers : \A j \in DOMAIN outbox :
          holder' = u /\ j < writer'[u].at => holder = u /\ j < writer[u].at
    BY <1>1, <1>5, <2>1
  <2>3. Numbered' /\ NothingLost' /\ InOrder'
    BY <1>1, <1>5, <1>9, <2>2, LocalKeeps DEF Gone
  <2>4. OutboxType'
    BY <1>1, <1>5, <1>6, <1>9 DEF OutboxInv, OutboxType
  <2>5. Locked'
    BY <1>1, <1>5, <1>9, <2>1 DEF OutboxInv, Locked
  <2> QED  BY <2>3, <2>4, <2>5 DEF OutboxInv
<1> QED  BY <1>6, <1>7, <1>8, <1>9

(* What was replayed leaves the outbox.                                    *)
LEMMA Shortens ==
    ASSUME OutboxType, NEW a, NEW b, Ordered(a, b), NEW t \in Writers, holder = t,
           writer[t].at \in 1 .. Len(outbox) + 1,
           outbox' = SubSeq(outbox, writer[t].at, Len(outbox)), UNCHANGED remote, holder' = Nobody,
           \A u \in Writers : writer'[u].pc = "direct" =>
               (writer[u].pc = "direct" /\ writer'[u].k = writer[u].k) \/ outbox' = << >>
    PROVE  Ordered(a, b)'
<1>1. PICK n \in 0..Len(outbox) : writer[t].at = n + 1
  <2>1. writer[t].at - 1 \in 0..Len(outbox) /\ writer[t].at = (writer[t].at - 1) + 1
    BY DEF OutboxType
  <2> QED  BY <2>1
<1>2. /\ \A i \in DOMAIN outbox' : i + n \in DOMAIN outbox /\ outbox'[i] = outbox[i + n]
      /\ \A x : x \in Range(outbox') <=> \E j \in DOMAIN outbox : j > n /\ outbox[j] = x
      /\ outbox' \in Seq(Writes)
  <2>1. PICK r : r = outbox'
    OBVIOUS
  <2>2. outbox \in Seq(Writes) /\ r = SubSeq(outbox, writer[t].at, Len(outbox))
    BY <2>1 DEF OutboxType
  <2>3. /\ r \in Seq(Writes)
        /\ \A i \in DOMAIN r : i + n \in DOMAIN outbox /\ i + n > n /\ r[i] = outbox[i + n]
    BY <1>1, <2>2, CutFacts
  <2>4. \A x \in Range(r) : \E j \in DOMAIN outbox : j > n /\ outbox[j] = x
    BY <2>3 DEF Range
  <2>5. \A j \in DOMAIN outbox : j > n => outbox[j] \in Range(r)
    BY <1>1, <2>2, CutFacts, Zenon
  <2>6. \A x : x \in Range(r) <=> \E j \in DOMAIN outbox : j > n /\ outbox[j] = x
    BY <2>4, <2>5, Zenon
  <2> QED  BY <2>1, <2>3, <2>6
<1>3. /\ \A i \in DOMAIN outbox : i \in Nat
      /\ \A i \in DOMAIN outbox' : i \in Nat
      /\ n \in Nat
  BY <1>2 DEF OutboxType
<1>4. \A x : x \in Range(outbox') => x \in Range(outbox)
  BY <1>2 DEF Range
<1>5. Range(outbox)' = Range(outbox') /\ \A x : PlacesOf(x)' = PlacesOf(x)
  BY DEF Range, PlacesOf
<1>6. Queued(a, b)'
  <2> SUFFICES ASSUME NEW i \in DOMAIN outbox', NEW j \in DOMAIN outbox',
                      outbox'[i] = a, outbox'[j] = b
               PROVE  i < j
    BY DEF Queued
  <2>1. i + n < j + n
    BY <1>2 DEF Ordered, Queued
  <2> QED  BY <1>3, <2>1
<1>7. ASSUME a \in Range(outbox'), b \in Range(remote) PROVE b \in Range(outbox')
  <2>1. PICK i \in DOMAIN outbox : i > n /\ outbox[i] = a
    BY <1>2, <1>7
  <2>2. PICK j \in DOMAIN outbox : outbox[j] = b
    BY <1>4, <1>7 DEF Ordered, Repeated, Range
  <2>3. i < j
    BY <2>1, <2>2 DEF Ordered, Queued
  <2>4. j > n
    BY <1>3, <2>1, <2>3
  <2> QED  BY <1>2, <2>2, <2>4
<1>8. Repeated(a, b)'
  BY <1>5, <1>7 DEF Repeated
<1>9. Direct(a, b)'
  <2> SUFFICES ASSUME NEW u \in Writers, b = Write(u)', writer'[u].pc = "direct",
                      a \in Range(outbox')
               PROVE  FALSE
    BY <1>5 DEF Direct
  <2>1. outbox' # << >>
    BY DEF Range
  <2> QED  BY <1>4, <2>1 DEF Ordered, Direct, Write
<1>10. Replayed(a, b)'
  BY Threads DEF Replayed
<1>11. EndsAfter(b, a)' <=> EndsAfter(b, a)
  BY <1>5 DEF EndsAfter
<1>12. StartsBefore(a, b)' <=> StartsBefore(a, b)
  BY <1>5 DEF StartsBefore
<1>13. Arrived(a, b)'
  <2> SUFFICES ASSUME b \in Range(remote), b \notin Range(outbox')
               PROVE  StartsBefore(a, b) /\ EndsAfter(b, a)
    BY <1>5, <1>11, <1>12 DEF Ordered, Arrived
  <2>1. CASE b \in Range(outbox)
    <3>1. PICK j \in DOMAIN outbox : outbox[j] = b
      BY <2>1 DEF Range
    <3>2. j < writer[t].at
      BY <1>1, <1>2, <1>3, <3>1
    <3> QED  BY <3>1, <3>2 DEF Ordered, Arrived, Replayed
  <2>2. CASE b \notin Range(outbox)
    BY <2>2 DEF Ordered, Arrived
  <2> QED  BY <2>1, <2>2
<1> QED  BY <1>6, <1>8, <1>9, <1>10, <1>13 DEF Ordered

(* _write_outbox replaces the file, or fails.                              *)
LEMMA RewriteKeeps ==
    ASSUME OutboxInv, NEW t \in Writers, Rewrite(t)
    PROVE  OutboxInv'
<1>1. PICK rest : rest = SubSeq(outbox, writer[t].at, Len(outbox))
  OBVIOUS
<1>2. /\ writer[t].pc = "rewrite" /\ holder = t /\ writer[t].entries = outbox
      /\ writer[t].at \in 1 .. Len(outbox) + 1 /\ writer[t].at \in Nat
      /\ \A i \in DOMAIN outbox : i < writer[t].at => outbox[i] \in Range(remote)
      /\ Write(t) \notin Range(outbox) /\ Write(t) \notin Range(remote)
      /\ Write(t) \notin promised.returned
      /\ UNCHANGED <<remote, cooling>> /\ holder' = Nobody
  BY NotYet DEF Rewrite, OutboxInv, Locked, OutboxType
<1>3. PICK how \in {"direct", "stage"} : how = IF rest = << >> THEN "direct" ELSE "stage"
  OBVIOUS
<1>4. PICK new : new = [pc |-> how, k |-> writer[t].k, entries |-> << >>, at |-> 0]
  OBVIOUS
<1>5. new \in WriterType /\ new.k = writer[t].k /\ new.pc = how
  <2>1. << >> \in Seq(Writes)
    OBVIOUS
  <2> QED  BY <1>3, <1>4, <2>1 DEF OutboxInv, OutboxType, WriterType
<1>6. /\ writer' = [writer EXCEPT ![t] = new]
      /\ \/ outbox' = rest /\ UNCHANGED <<mishaps, promised>>
         \/ /\ mishaps' = mishaps + 1 /\ UNCHANGED outbox
            /\ promised' = [promised EXCEPT !.stuck = TRUE]
  <2>1. /\ writer' = [writer EXCEPT ![t].entries = << >>, ![t].at = 0, ![t].pc = how]
        /\ \/ outbox' = rest /\ UNCHANGED <<mishaps, promised>>
           \/ /\ mishaps' = mishaps + 1 /\ UNCHANGED outbox
              /\ promised' = [promised EXCEPT !.stuck = TRUE]
    BY <1>1, <1>2, <1>3 DEF Rewrite, WhileStuck
  <2>2. writer \in [Writers -> WriterType] /\ writer[t] \in WriterType
    BY DEF OutboxInv, OutboxType
  <2>3. [writer[t] EXCEPT !.entries = << >>, !.at = 0, !.pc = how] = new
    <3>1. ASSUME NEW r \in WriterType
          PROVE  [r EXCEPT !.entries = << >>, !.at = 0, !.pc = how]
                   = [pc |-> how, k |-> r.k, entries |-> << >>, at |-> 0]
      <4>1. PICK r1 : r1 = [r EXCEPT !.entries = << >>]
        OBVIOUS
      <4>2. r1 = [pc |-> r.pc, k |-> r.k, entries |-> << >>, at |-> r.at]
        BY <4>1 DEF WriterType
      <4>3. PICK r2 : r2 = [r1 EXCEPT !.at = 0]
        OBVIOUS
      <4>4. r2 = [pc |-> r.pc, k |-> r.k, entries |-> << >>, at |-> 0]
        BY <4>2, <4>3
      <4>5. [r2 EXCEPT !.pc = how] = [pc |-> how, k |-> r.k, entries |-> << >>, at |-> 0]
        BY <4>4
      <4> QED  BY <4>1, <4>3, <4>5
    <3> QED  BY <1>4, <2>2, <3>1
  <2>4. writer' = [writer EXCEPT ![t] = [writer[t] EXCEPT !.entries = << >>, !.at = 0, !.pc = how]]
    BY <2>1, <2>2
  <2> QED  BY <2>1, <2>3, <2>4
<1>7. /\ writer'[t] = new /\ \A u \in Writers \ {t} : writer'[u] = writer[u]
      /\ writer' \in [Writers -> WriterType]
  BY <1>5, <1>6 DEF OutboxInv, OutboxType
<1>8. Locked'
  <2>1. \A u \in Writers \ {t} : writer[u].pc \notin {"replay", "rewrite"}
    BY <1>2 DEF OutboxInv, Locked
  <2> QED  BY <1>2, <1>5, <1>7, <2>1, Threads DEF Locked
<1>9. CASE outbox' = rest /\ UNCHANGED <<mishaps, promised>>
  <2>1. PICK n \in 0..Len(outbox) : writer[t].at = n + 1
    <3>1. writer[t].at - 1 \in 0..Len(outbox) /\ writer[t].at = (writer[t].at - 1) + 1
      BY <1>2 DEF OutboxInv, OutboxType
    <3> QED  BY <3>1
  <2>2. /\ outbox' \in Seq(Writes)
        /\ \A x : x \in Range(outbox') <=> \E j \in DOMAIN outbox : j > n /\ outbox[j] = x
    <3>1. outbox \in Seq(Writes) /\ rest = SubSeq(outbox, writer[t].at, Len(outbox))
      BY <1>1 DEF OutboxInv, OutboxType
    <3>2. /\ rest \in Seq(Writes)
          /\ \A i \in DOMAIN rest : i + n \in DOMAIN outbox /\ i + n > n /\ rest[i] = outbox[i + n]
      BY <2>1, <3>1, CutFacts
    <3>3. \A x \in Range(rest) : \E j \in DOMAIN outbox : j > n /\ outbox[j] = x
      BY <3>2 DEF Range
    <3>4. \A j \in DOMAIN outbox : j > n => outbox[j] \in Range(rest)
      BY <2>1, <3>1, CutFacts, Zenon
    <3> QED  BY <1>9, <3>2, <3>3, <3>4, Zenon
  <2>3. Range(outbox)' = Range(outbox') /\ \A x : x \in Range(outbox') => x \in Range(outbox)
    BY <2>2 DEF Range
  <2>4. OutboxType'
    BY <1>2, <1>7, <1>9, <2>2 DEF OutboxInv, OutboxType
  <2>5. Numbered'
    <3>1. Range(remote)' = Range(remote) /\ writer'[t].k = writer[t].k
      BY <1>2, <1>5, <1>7
    <3>2. promised'.returned = promised.returned /\ promised'.before = promised.before
      BY <1>9
    <3> QED  BY <1>2, <1>7, <2>3, <3>1, <3>2, MoveNumbers DEF OutboxInv
  <2>6. NothingLost'
    <3> SUFFICES ASSUME NEW x \in promised.returned, x \notin Range(remote),
                        x \notin Gone
                 PROVE  x \in Range(outbox')
      BY <1>2, <1>9, <2>3 DEF NothingLost, Gone
    <3>1. PICK j \in DOMAIN outbox : outbox[j] = x
      BY DEF OutboxInv, NothingLost, Range
    <3>2. ~(j < writer[t].at) /\ j \in Nat
      BY <1>2, <3>1 DEF OutboxInv, OutboxType
    <3>3. j > n
      BY <2>1, <3>2
    <3> QED  BY <2>2, <3>1, <3>3
  <2>7. InOrder'
    <3> SUFFICES ASSUME ~promised.stuck, NEW p \in promised.before, Undropped(p)
                 PROVE  Ordered(p[1], p[2])'
      BY <1>9 DEF InOrder, Undropped, Gone
    <3>1. Ordered(p[1], p[2])
      BY DEF OutboxInv, InOrder
    <3>2. \A u \in Writers : writer'[u].pc = "direct" =>
              (writer[u].pc = "direct" /\ writer'[u].k = writer[u].k) \/ outbox' = << >>
      BY <1>3, <1>5, <1>7, <1>9
    <3>3. outbox' = SubSeq(outbox, writer[t].at, Len(outbox))
      BY <1>1, <1>9
    <3> QED  BY <1>2, <3>1, <3>2, <3>3, Shortens DEF OutboxInv
  <2> QED  BY <1>8, <2>4, <2>5, <2>6, <2>7 DEF OutboxInv
<1>10. CASE mishaps' = mishaps + 1 /\ UNCHANGED outbox
           /\ promised' = [promised EXCEPT !.stuck = TRUE]
  <2>1. /\ promised'.returned = promised.returned /\ promised'.before = promised.before
        /\ Gone' = Gone /\ promised'.stuck
        /\ promised' \in [returned : SUBSET Writes, before : SUBSET (Writes \X Writes),
                          dropped : SUBSET Writes, lost : SUBSET Writes, stuck : BOOLEAN]
    BY <1>10 DEF OutboxInv, OutboxType, Gone
  <2>2. OutboxType'
    <3>1. mishaps' \in Nat /\ outbox' \in Seq(Writes)
      BY <1>10 DEF OutboxInv, OutboxType
    <3> QED  BY <1>2, <1>7, <2>1, <3>1 DEF OutboxInv, OutboxType
  <2>3. Numbered' /\ NothingLost' /\ InOrder'
    BY <1>2, <1>3, <1>5, <1>6, <1>10, <2>1, LocalKeeps
  <2> QED  BY <1>8, <2>2, <2>3 DEF OutboxInv
<1> QED  BY <1>6, <1>9, <1>10

(* A write goes out directly: what it was to come after is at the remote,  *)
(* and not staged any more.                                                *)
LEMMA DirectSends ==
    ASSUME OutboxInv, NEW t \in Writers, writer[t].pc = "direct",
           remote' = Append(remote, Write(t)), UNCHANGED <<outbox, holder>>,
           NEW new \in WriterType, writer' = [writer EXCEPT ![t] = new],
           new.k = writer[t].k, new.pc \in {"idle", "stage"},
           promised'.before = promised.before, Gone' = Gone,
           promised'.stuck = promised.stuck,
           promised.returned \subseteq promised'.returned,
           promised'.returned \subseteq promised.returned \cup {Write(t)},
           Write(t) \in promised'.returned => new.pc = "idle"
    PROVE  remote' \in Seq(Writes) /\ Locked' /\ Numbered' /\ NothingLost' /\ InOrder'
<1>1. PICK w : w = Write(t)
  OBVIOUS
<1>2. /\ w \in Writes /\ w \notin Range(outbox)
      /\ \A p \in promised.before : p[1] # w /\ p[1] \in promised.returned
  BY <1>1, WrittenIs, NotYet DEF OutboxInv
<1>3. remote' \in Seq(Writes) /\ Range(remote)' = Range(remote) \cup {w}
          /\ remote' = Append(remote, w)
  BY <1>1, <1>2, AppendFacts DEF OutboxInv, OutboxType
<1>4. writer'[t] = new /\ \A u \in Writers \ {t} : writer'[u] = writer[u]
  BY DEF OutboxInv, OutboxType
<1>5. holder # t
  BY DEF OutboxInv, Locked
<1>6. Locked'
  BY <1>3, <1>4, <1>5 DEF OutboxInv, Locked
<1>7. Numbered'
  <2>1. Write(t) \notin Range(outbox)' /\ Range(remote)' \subseteq Range(remote) \cup {Write(t)}
    BY <1>1, <1>2, <1>3
  <2> QED  BY <1>4, <2>1, MoveNumbers DEF OutboxInv
<1>8. NothingLost'
  BY <1>1, <1>3 DEF OutboxInv, NothingLost
<1>9. InOrder'
  <2> SUFFICES ASSUME ~promised.stuck, NEW p \in promised.before, Undropped(p)
               PROVE  Ordered(p[1], p[2])'
    BY DEF InOrder, Undropped, Gone
  <2>1. PICK a, b : a = p[1] /\ b = p[2]
    OBVIOUS
  <2>2. /\ Ordered(a, b) /\ a # b /\ a # w
        /\ a \in promised.returned /\ a \notin Gone
    BY <1>2, <2>1 DEF OutboxInv, InOrder, Numbered, Undropped, Gone
  <2>3. w = b => a \in Range(remote) /\ a \notin Range(outbox)
    BY <1>1, <2>2 DEF Ordered, Direct, OutboxInv, NothingLost
  <2>4. \A u \in Writers : writer'[u].pc = "direct" =>
               (writer[u].pc = "direct" /\ writer'[u].k = writer[u].k) \/ outbox = << >>
    BY <1>4
  <2>5. \A u \in Writers : \A j \in DOMAIN outbox :
           holder' = u /\ j < writer'[u].at /\ outbox[j] = b =>
           w = b \/ (w # a /\ holder = u /\ j < writer[u].at)
    BY <1>4, <1>5, <2>2
  <2>6. Ordered(a, b)'
    BY <1>2, <1>3, <2>2, <2>3, <2>4, <2>5, Sent DEF OutboxInv
  <2> QED  BY <2>1, <2>6
<1> QED  BY <1>3, <1>6, <1>7, <1>8, <1>9

(* The remote applies a write or not, and says so or not.                  *)
LEMMA DirectKeeps ==
    ASSUME OutboxInv, NEW t \in Writers, DirectWrite(t)
    PROVE  OutboxInv'
<1>1. /\ writer[t].pc = "direct" /\ UNCHANGED <<outbox, holder, cooling>>
      /\ Write(t) \in Writes /\ Write(t) \notin Range(remote)
      /\ mishaps \in Nat /\ writer[t].k \in Nat
  BY WrittenIs, NotYet DEF DirectWrite, OutboxInv, OutboxType, WriterType
<1>2. PICK done, later : /\ done = Idle(writer[t].k)
                         /\ later = [writer[t] EXCEPT !.pc = "stage"]
  OBVIOUS
<1>3. /\ done \in WriterType /\ done.k = writer[t].k /\ done.pc = "idle"
      /\ later \in WriterType /\ later.k = writer[t].k /\ later.pc = "stage"
      /\ later.at = writer[t].at
  <2>1. << >> \in Seq(Writes) /\ writer[t] \in WriterType
    BY DEF OutboxInv, OutboxType
  <2>2. done = [pc |-> "idle", k |-> writer[t].k, entries |-> << >>, at |-> 0]
    BY <1>2 DEF Idle
  <2>3. done \in WriterType /\ done.k = writer[t].k /\ done.pc = "idle"
    BY <1>1, <2>1, <2>2 DEF WriterType
  <2>4. later \in WriterType /\ later.k = writer[t].k /\ later.pc = "stage"
            /\ later.at = writer[t].at
    BY <1>2, <2>1 DEF WriterType
  <2> QED  BY <2>3, <2>4
<1>4. \/ /\ remote' = Append(remote, Write(t)) /\ mishaps' = mishaps
         /\ writer' = [writer EXCEPT ![t] = done]
         /\ promised' = [promised EXCEPT !.returned = promised.returned \cup {Write(t)}]
      \/ /\ mishaps' = mishaps + 1 /\ remote' \in {remote, Append(remote, Write(t))}
         /\ writer' = [writer EXCEPT ![t] = later] /\ promised' = promised
  <2>1. [writer EXCEPT ![t].pc = "stage"] = [writer EXCEPT ![t] = later]
    BY <1>2 DEF OutboxInv, OutboxType, WriterType
  <2> QED  BY <1>2, <2>1 DEF DirectWrite, Applied, Failed, Returns
<1>5. /\ mishaps' \in Nat
      /\ writer' \in [Writers -> WriterType]
  BY <1>1, <1>3, <1>4 DEF OutboxInv, OutboxType
<1>6. CASE /\ remote' = Append(remote, Write(t)) /\ writer' = [writer EXCEPT ![t] = done]
           /\ promised' = [promised EXCEPT !.returned = promised.returned \cup {Write(t)}]
  <2>1. /\ promised'.before = promised.before /\ Gone' = Gone
        /\ promised'.stuck = promised.stuck
        /\ promised'.returned = promised.returned \cup {Write(t)}
        /\ promised' \in [returned : SUBSET Writes, before : SUBSET (Writes \X Writes),
                          dropped : SUBSET Writes, lost : SUBSET Writes, stuck : BOOLEAN]
    BY <1>1, <1>6 DEF OutboxInv, OutboxType, Gone
  <2>2. remote' \in Seq(Writes) /\ Locked' /\ Numbered' /\ NothingLost' /\ InOrder'
    BY <1>1, <1>3, <1>6, <2>1, DirectSends
  <2>3. OutboxType'
    BY <1>1, <1>5, <2>1, <2>2 DEF OutboxInv, OutboxType
  <2> QED  BY <2>2, <2>3 DEF OutboxInv
<1>7. CASE /\ remote' = Append(remote, Write(t)) /\ writer' = [writer EXCEPT ![t] = later]
           /\ promised' = promised
  <2>1. Write(t) \notin promised.returned
    BY <1>1, NotYet
  <2>2. remote' \in Seq(Writes) /\ Locked' /\ Numbered' /\ NothingLost' /\ InOrder'
    BY <1>1, <1>3, <1>7, <2>1, DirectSends DEF Gone
  <2>3. OutboxType'
    BY <1>1, <1>5, <1>7, <2>2 DEF OutboxInv, OutboxType
  <2> QED  BY <2>2, <2>3 DEF OutboxInv
<1>8. CASE remote' = remote /\ writer' = [writer EXCEPT ![t] = later] /\ promised' = promised
  <2>1. writer'[t] = later /\ \A u \in Writers \ {t} : writer'[u] = writer[u]
    BY <1>8 DEF OutboxInv, OutboxType
  <2>2. \A u \in Writers : \A j \in DOMAIN outbox :
          holder' = u /\ j < writer'[u].at => holder = u /\ j < writer[u].at
    BY <1>1, <1>3, <2>1
  <2>3. Numbered' /\ NothingLost' /\ InOrder'
    BY <1>1, <1>3, <1>8, <2>2, LocalKeeps DEF Gone
  <2>4. OutboxType'
    BY <1>1, <1>5, <1>8 DEF OutboxInv, OutboxType
  <2>5. Locked'
    BY <1>1, <1>3, <1>8, <2>1 DEF OutboxInv, Locked
  <2> QED  BY <2>3, <2>4, <2>5 DEF OutboxInv
<1> QED  BY <1>4, <1>6, <1>7, <1>8

(* What a sequence loses with its first n elements.                        *)
LEMMA DropFacts ==
    ASSUME NEW S, NEW s \in Seq(S), NEW n \in 0..Len(s), NEW d, d = SubSeq(s, 1, n)
    PROVE  /\ d \in Seq(S)
           /\ \A j \in DOMAIN s : j <= n => s[j] \in Range(d)
<1>1. Len(s) \in Nat /\ DOMAIN s = 1..Len(s) /\ n \in Nat /\ n <= Len(s)
  OBVIOUS
<1>2. /\ d \in Seq(S) /\ DOMAIN d = 1..n
      /\ \A i \in 1..n : d[i] = s[i]
  OBVIOUS
<1>3. ASSUME NEW j \in DOMAIN s, j <= n PROVE s[j] \in Range(d)
  <2>1. j \in DOMAIN d /\ d[j] = s[j]
    BY <1>1, <1>2, <1>3
  <2> QED  BY <2>1 DEF Range
<1> QED  BY <1>2, <1>3

(* A write is staged behind what is staged already, of which the oldest    *)
(* may be dropped.                                                         *)
LEMMA Queues ==
    ASSUME OutboxType, NEW a, NEW b, a # b, Ordered(a, b), NEW w \in Writes, a # w,
           NEW n \in 0..Len(outbox), outbox' = Cut(n, w), UNCHANGED remote, holder' = Nobody,
           \A j \in DOMAIN outbox : j <= n => outbox[j] # a /\ outbox[j] # b,
           \A u \in Writers : writer'[u].pc = "direct" =>
               writer[u].pc = "direct" /\ writer'[u].k = writer[u].k
    PROVE  Ordered(a, b)'
<1>1. PICK o, r, s : o = outbox /\ r = outbox' /\ s = Append(outbox, w)
  OBVIOUS
<1>2. o \in Seq(Writes) /\ s = Append(o, w)
  BY <1>1 DEF OutboxType
<1>3. /\ s \in Seq(Writes)
      /\ Len(o) \in Nat /\ DOMAIN o = 1..Len(o) /\ DOMAIN s = 1 .. Len(o) + 1
      /\ \A k \in DOMAIN o : s[k] = o[k]
      /\ s[Len(o) + 1] = w
  BY <1>2, AppendFacts
<1>4. PICK m : m = n + 1
  OBVIOUS
<1>5. Len(s) = Len(o) + 1 /\ n \in 0..Len(s)
  BY <1>1, <1>3
<1>6. r = SubSeq(s, m, Len(s))
  BY <1>1, <1>4, <1>5 DEF Cut
<1>7. /\ r \in Seq(Writes)
      /\ \A i \in DOMAIN r : i + n \in DOMAIN s /\ i + n > n /\ r[i] = s[i + n]
  BY <1>3, <1>4, <1>6, <1>5, CutFacts
<1>8. \A j \in DOMAIN s : j > n => s[j] \in Range(r)
  BY <1>3, <1>4, <1>6, <1>5, CutFacts, Zenon
<1>9. \A j \in DOMAIN o : j <= n => o[j] # b
  BY <1>1
<1>10. /\ n \in Nat /\ \A i \in DOMAIN r : i \in Nat
       /\ \A j \in DOMAIN s : j \in Nat
  BY <1>3, <1>7
<1>11. Range(outbox)' = Range(r) /\ Range(outbox) = Range(o) /\ \A x : PlacesOf(x)' = PlacesOf(x)
  BY <1>1 DEF PlacesOf, Range
(* Which of the two is in the outbox. *)
<1>12. \A i \in DOMAIN s : i \in DOMAIN o \/ (i = Len(o) + 1 /\ s[i] = w)
  BY <1>3
<1>13. a \in Range(r) => a \in Range(o)
  <2> SUFFICES ASSUME NEW i \in DOMAIN r, r[i] = a PROVE a \in Range(o)
    BY DEF Range
  <2>1. i + n \in DOMAIN s /\ s[i + n] = a
    BY <1>7
  <2>2. i + n \in DOMAIN o /\ o[i + n] = a
    BY <1>3, <1>12, <2>1
  <2> QED  BY <2>2 DEF Range
<1>14. b \in Range(o) => b \in Range(r)
  <2> SUFFICES ASSUME NEW j \in DOMAIN o, o[j] = b PROVE b \in Range(r)
    BY DEF Range
  <2>1. j \in DOMAIN s /\ s[j] = b /\ j \in Nat
    BY <1>3
  <2>2. ~(j <= n)
    BY <1>9, <2>1
  <2> QED  BY <1>8, <1>10, <2>1, <2>2
<1>15. Queued(a, b)'
  <2> SUFFICES ASSUME NEW i \in DOMAIN r, NEW j \in DOMAIN r, r[i] = a, r[j] = b
               PROVE  i < j
    BY <1>1 DEF Queued
  <2>1. PICK x \in DOMAIN s, y \in DOMAIN s : x = i + n /\ y = j + n /\ s[x] = a /\ s[y] = b
    BY <1>7
  <2>2. x \in DOMAIN o /\ o[x] = a
    BY <1>3, <1>12, <2>1
  <2>3. CASE y \in DOMAIN o
    <3>1. x < y
      BY <1>1, <1>3, <2>1, <2>2, <2>3 DEF Ordered, Queued
    <3> QED  BY <1>10, <2>1, <3>1
  <2>4. CASE y = Len(o) + 1
    <3>1. x < y
      BY <1>3, <2>2, <2>4
    <3> QED  BY <1>10, <2>1, <3>1
  <2> QED  BY <1>12, <2>3, <2>4
<1>16. Repeated(a, b)'
  BY <1>11, <1>13, <1>14 DEF Ordered, Repeated
<1>17. Direct(a, b)'
  <2> SUFFICES ASSUME NEW u \in Writers, b = Write(u)', writer'[u].pc = "direct",
                      a \in Range(r)
               PROVE  FALSE
    BY <1>11 DEF Direct
  <2>1. writer[u].pc = "direct" /\ b = Write(u)
    BY DEF Write
  <2> QED  BY <1>11, <1>13, <2>1 DEF Ordered, Direct
<1>18. Replayed(a, b)'
  BY Threads DEF Replayed
<1>19. EndsAfter(b, a)' <=> EndsAfter(b, a)
  BY <1>11 DEF EndsAfter
<1>20. StartsBefore(a, b)' <=> StartsBefore(a, b)
  BY <1>11 DEF StartsBefore
<1>21. Arrived(a, b)'
  BY <1>11, <1>14, <1>19, <1>20 DEF Ordered, Arrived
<1> QED  BY <1>15, <1>16, <1>17, <1>18, <1>21 DEF Ordered

(* A thread whose write has returned is idle.                              *)
LEMMA ReturnsIs ==
    ASSUME OutboxType, NEW t \in Writers, Returns(t)
    PROVE  /\ writer' = [writer EXCEPT ![t] = Idle(writer[t].k)]
           /\ writer' \in [Writers -> WriterType]
           /\ writer'[t].pc = "idle" /\ writer'[t].k = writer[t].k
           /\ \A u \in Writers \ {t} : writer'[u] = writer[u]
<1>1. PICK new : new = Idle(writer[t].k)
  OBVIOUS
<1>2. << >> \in Seq(Writes) /\ writer[t].k \in Nat
  BY DEF OutboxType, WriterType
<1>3. new \in WriterType /\ new.pc = "idle" /\ new.k = writer[t].k
  BY <1>1, <1>2 DEF Idle, WriterType
<1>4. writer' = [writer EXCEPT ![t] = new] /\ writer \in [Writers -> WriterType]
  BY <1>1 DEF OutboxType, Returns
<1> QED  BY <1>1, <1>3, <1>4

(* The outbox loses its first n entries and takes the write in.            *)
LEMMA CutKeeps ==
    ASSUME OutboxInv, NEW t \in Writers, writer[t].pc = "stage", holder = Nobody,
           UNCHANGED <<remote, holder, cooling>>, mishaps' \in Nat, Returns(t),
           NEW n \in 0..Len(outbox), outbox' = Cut(n, Write(t)),
           promised' \in [returned : SUBSET Writes, before : SUBSET (Writes \X Writes),
                          dropped : SUBSET Writes, lost : SUBSET Writes, stuck : BOOLEAN],
           promised'.returned = promised.returned \cup {Write(t)},
           promised'.before = promised.before, promised'.stuck = promised.stuck,
           Gone \subseteq Gone',
           \A j \in DOMAIN outbox : j <= n => outbox[j] \in Gone'
    PROVE  OutboxInv'
<1>1. PICK w, s : w = Write(t) /\ s = Append(outbox, w)
  OBVIOUS
<1>2. /\ w \in Writes /\ w \notin Range(outbox) /\ w \notin promised.returned
      /\ \A p \in promised.before : p[1] # w
  BY <1>1, WrittenIs, NotYet DEF OutboxInv
<1>3. PICK o : o = outbox
  OBVIOUS
<1>4. /\ s \in Seq(Writes) /\ Range(s) = Range(o) \cup {w}
      /\ Len(o) \in Nat /\ DOMAIN o = 1..Len(o) /\ DOMAIN s = 1 .. Len(o) + 1
      /\ \A k \in DOMAIN o : s[k] = o[k]
      /\ s[Len(o) + 1] = w /\ Len(s) = Len(o) + 1
  <2>1. o \in Seq(Writes)
    BY <1>3 DEF OutboxInv, OutboxType
  <2> QED  BY <1>1, <1>2, <1>3, <2>1, AppendFacts
<1>5. PICK m, r : m = n + 1 /\ r = SubSeq(s, m, Len(s))
  OBVIOUS
<1>6. n \in 0..Len(s) /\ n \in 0..Len(o)
  BY <1>3, <1>4
<1>7. /\ r \in Seq(Writes)
      /\ \A i \in DOMAIN r : i + n \in DOMAIN s /\ i + n > n /\ r[i] = s[i + n]
  BY <1>4, <1>5, <1>6, CutFacts
<1>8. \A j \in DOMAIN s : j > n => s[j] \in Range(r)
  BY <1>4, <1>5, <1>6, CutFacts, Zenon
<1>9. outbox' = r /\ Range(outbox)' = Range(r)
  <2>1. outbox' = r
    BY <1>1, <1>3, <1>4, <1>5 DEF Cut
  <2> QED  BY <2>1
<1>10. /\ \A x \in Range(r) : x \in Range(o) \/ x = w
       /\ w \in Range(r)
       /\ \A x \in Range(o) : x \in Range(r) \/ x \in Gone'
  <2>1. \A x \in Range(r) : x \in Range(s)
    BY <1>7 DEF Range
  <2>2. w \in Range(r)
    <3>1. Len(o) + 1 \in DOMAIN s /\ Len(o) + 1 > n
      BY <1>4, <1>6
    <3> QED  BY <1>4, <1>8, <3>1
  <2>3. ASSUME NEW x \in Range(o) PROVE x \in Range(r) \/ x \in Gone'
    <3>1. PICK j \in DOMAIN o : o[j] = x
      BY DEF Range
    <3>2. j \in DOMAIN s /\ s[j] = x /\ (j > n \/ j <= n)
      BY <1>4, <1>6, <3>1
    <3> QED  BY <1>3, <1>8, <3>1, <3>2
  <2> QED  BY <1>4, <2>1, <2>2, <2>3
<1>11. /\ writer' = [writer EXCEPT ![t] = Idle(writer[t].k)]
       /\ writer' \in [Writers -> WriterType]
       /\ writer'[t].pc = "idle" /\ writer'[t].k = writer[t].k
       /\ \A u \in Writers \ {t} : writer'[u] = writer[u]
  BY ReturnsIs DEF OutboxInv, Returns
<1>12. OutboxType'
  BY <1>7, <1>9, <1>11 DEF OutboxInv, OutboxType
<1>13. Locked'
  <2>1. \A u \in Writers : holder # u /\ writer[u].pc \notin {"replay", "rewrite"}
    BY Threads DEF OutboxInv, Locked
  <2> QED  BY <1>11, <2>1 DEF Locked
<1>14. Numbered'
  <2>1. /\ Range(outbox)' \subseteq Range(outbox) \cup {Write(t)}
        /\ Range(remote)' = Range(remote)
    BY <1>1, <1>3, <1>9, <1>10
  <2>2. /\ promised.returned \subseteq promised'.returned
        /\ promised'.returned \subseteq promised.returned \cup {Write(t)}
    OBVIOUS
  <2> QED  BY <1>11, <2>1, <2>2, MoveNumbers DEF OutboxInv
<1>15. NothingLost'
  <2>1. Range(remote)' = Range(remote)
    OBVIOUS
  <2> QED  BY <1>1, <1>3, <1>9, <1>10, <2>1 DEF OutboxInv, NothingLost
<1>16. InOrder'
  <2> SUFFICES ASSUME ~promised.stuck, NEW p \in promised.before, Undropped(p)'
               PROVE  Ordered(p[1], p[2])'
    BY DEF InOrder
  <2>1. PICK a, b : a = p[1] /\ b = p[2]
    OBVIOUS
  <2>2. a \notin Gone' /\ b \notin Gone' /\ Undropped(p)
    BY <2>1 DEF Undropped
  <2>3. Ordered(a, b) /\ a # b /\ a # w
    BY <1>2, <2>1, <2>2 DEF OutboxInv, InOrder, Numbered
  <2>4. \A u \in Writers : writer'[u].pc = "direct" =>
               writer[u].pc = "direct" /\ writer'[u].k = writer[u].k
    BY <1>11
  <2>5. \A j \in DOMAIN outbox : j <= n => outbox[j] # a /\ outbox[j] # b
    BY <2>2
  <2>6. outbox' = Cut(n, w) /\ UNCHANGED remote /\ holder' = Nobody /\ OutboxType
    BY <1>1 DEF OutboxInv
  <2>7. Ordered(a, b)'
    BY <1>2, <2>3, <2>4, <2>5, <2>6, Queues
  <2> QED  BY <2>1, <2>7
<1> QED  BY <1>12, <1>13, <1>14, <1>15, <1>16 DEF OutboxInv

(* _stage: what is dropped from a full outbox, or lost with a file that    *)
(* failed, is known to be gone.                                            *)
LEMMA StageKeeps ==
    ASSUME OutboxInv, NEW t \in Writers, Stage(t)
    PROVE  OutboxInv'
<1>1. PICK w : w = Write(t)
  OBVIOUS
<1>2. /\ w \in Writes /\ w \notin Range(outbox) /\ w \notin promised.returned
      /\ writer[t].pc = "stage" /\ holder = Nobody /\ Returns(t)
      /\ UNCHANGED <<remote, holder, cooling>>
      /\ mishaps' \in Nat
      /\ outbox \in Seq(Writes) /\ Len(outbox) \in Nat /\ DOMAIN outbox = 1..Len(outbox)
  <2>1. w \in Writes /\ w \notin Range(outbox) /\ w \notin promised.returned
    BY <1>1, WrittenIs, NotYet DEF OutboxInv, Stage
  <2>2. /\ writer[t].pc = "stage" /\ holder = Nobody /\ Returns(t)
        /\ UNCHANGED <<remote, holder, cooling>>
    BY DEF Stage
  <2>3. mishaps \in Nat /\ mishaps' \in {mishaps, mishaps + 1}
    BY DEF Stage, OutboxInv, OutboxType
  <2>4. outbox \in Seq(Writes) /\ Len(outbox) \in Nat /\ DOMAIN outbox = 1..Len(outbox)
    BY DEF OutboxInv, OutboxType
  <2>5. mishaps' \in Nat
    BY <2>3
  <2> QED  BY <2>1, <2>2, <2>4, <2>5
<1>3. CASE /\ outbox' = Cut(Surplus, w)
           /\ promised' = [promised EXCEPT
                !.returned = promised.returned \cup {w},
                !.dropped = promised.dropped \cup Range(SubSeq(outbox, 1, Surplus))]
  <2>1. PICK n : n = Surplus
    OBVIOUS
  <2>2. n \in 0..Len(outbox)
    BY <1>2, <2>1, OutboxAssumption DEF Surplus
  <2>3. PICK d : d = SubSeq(outbox, 1, n)
    OBVIOUS
  <2>4. d \in Seq(Writes) /\ \A j \in DOMAIN outbox : j <= n => outbox[j] \in Range(d)
    BY <1>2, <2>2, <2>3, DropFacts
  <2>5. Range(d) \subseteq Writes
    BY <2>4 DEF Range
  <2>6. promised' = [promised EXCEPT !.returned = promised.returned \cup {w},
                                     !.dropped = promised.dropped \cup Range(d)]
    BY <1>3, <2>1, <2>3
  <2>7. /\ promised' \in [returned : SUBSET Writes, before : SUBSET (Writes \X Writes),
                          dropped : SUBSET Writes, lost : SUBSET Writes, stuck : BOOLEAN]
        /\ promised'.returned = promised.returned \cup {w}
        /\ promised'.before = promised.before /\ promised'.stuck = promised.stuck
        /\ promised'.dropped = promised.dropped \cup Range(d)
        /\ promised'.lost = promised.lost
    BY <1>2, <2>5, <2>6 DEF OutboxInv, OutboxType
  <2>8. Gone' = Gone \cup Range(d)
    BY <2>7 DEF Gone
  <2>9. outbox' = Cut(n, Write(t))
    BY <1>1, <1>3, <2>1
  <2> QED  BY <1>1, <1>2, <2>2, <2>4, <2>7, <2>8, <2>9, CutKeeps
<1>4. CASE /\ outbox' = Cut(Len(outbox), w)
           /\ promised' = [promised EXCEPT !.returned = promised.returned \cup {w},
                                           !.lost = promised.lost \cup Range(outbox)]
  <2>1. PICK n : n = Len(outbox)
    OBVIOUS
  <2>2. n \in 0..Len(outbox) /\ Range(outbox) \subseteq Writes
    BY <1>2, <2>1 DEF Range
  <2>3. /\ promised' \in [returned : SUBSET Writes, before : SUBSET (Writes \X Writes),
                          dropped : SUBSET Writes, lost : SUBSET Writes, stuck : BOOLEAN]
        /\ promised'.returned = promised.returned \cup {w}
        /\ promised'.before = promised.before /\ promised'.stuck = promised.stuck
        /\ promised'.dropped = promised.dropped
        /\ promised'.lost = promised.lost \cup Range(outbox)
    BY <1>2, <1>4, <2>2 DEF OutboxInv, OutboxType
  <2>4. Gone' = Gone \cup Range(outbox)
    BY <2>3 DEF Gone
  <2>5. \A j \in DOMAIN outbox : outbox[j] \in Range(outbox)
    BY DEF Range
  <2>6. outbox' = Cut(n, Write(t))
    BY <1>1, <1>4, <2>1
  <2> QED  BY <1>1, <1>2, <2>2, <2>3, <2>4, <2>5, <2>6, CutKeeps
<1>5. CASE /\ UNCHANGED outbox
           /\ promised' = [promised EXCEPT !.returned = promised.returned \cup {w},
                                           !.lost = promised.lost \cup {w}]
  <2>1. /\ promised' \in [returned : SUBSET Writes, before : SUBSET (Writes \X Writes),
                          dropped : SUBSET Writes, lost : SUBSET Writes, stuck : BOOLEAN]
        /\ promised'.returned = promised.returned \cup {w}
        /\ promised'.before = promised.before /\ promised'.stuck = promised.stuck
        /\ promised'.dropped = promised.dropped
        /\ promised'.lost = promised.lost \cup {w}
    BY <1>2, <1>5 DEF OutboxInv, OutboxType
  <2>2. Gone' = Gone \cup {w}
    BY <2>1 DEF Gone
  <2>3. /\ writer' \in [Writers -> WriterType]
        /\ writer'[t].pc = "idle" /\ writer'[t].k = writer[t].k
        /\ \A u \in Writers \ {t} : writer'[u] = writer[u]
    BY <1>2, ReturnsIs DEF OutboxInv
  <2>4. OutboxType'
    BY <1>2, <1>5, <2>1, <2>3 DEF OutboxInv, OutboxType
  <2>5. Locked'
    <3>1. \A u \in Writers : holder # u /\ writer[u].pc \notin {"replay", "rewrite"}
      BY <1>2, Threads DEF OutboxInv, Locked
    <3> QED  BY <1>2, <2>3, <3>1 DEF Locked
  <2>6. Numbered'
    <3>1. Range(outbox)' = Range(outbox) /\ Range(remote)' = Range(remote)
      BY <1>2, <1>5
    <3>2. /\ promised.returned \subseteq promised'.returned
          /\ promised'.returned \subseteq promised.returned \cup {Write(t)}
      BY <1>1, <2>1
    <3> QED  BY <1>2, <2>1, <2>3, <3>1, <3>2, MoveNumbers DEF OutboxInv
  <2>7. NothingLost'
    <3>1. Range(outbox)' = Range(outbox) /\ Range(remote)' = Range(remote)
      BY <1>2, <1>5
    <3> QED  BY <2>1, <2>2, <3>1 DEF OutboxInv, NothingLost
  <2>8. InOrder'
    <3> SUFFICES ASSUME ~promised.stuck, NEW p \in promised.before, Undropped(p)'
                 PROVE  Ordered(p[1], p[2])'
      BY <2>1 DEF InOrder
    <3>1. Undropped(p)
      BY <2>2 DEF Undropped
    <3>2. Ordered(p[1], p[2])
      BY <3>1 DEF OutboxInv, InOrder
    <3>3. \A u \in Writers : /\ writer'[u].pc = "direct" =>
                                 writer[u].pc = "direct" /\ writer'[u].k = writer[u].k
                             /\ holder' # u
      BY <1>2, <2>3, Threads
    <3> QED  BY <1>2, <1>5, <3>2, <3>3, Unsent
  <2> QED  BY <2>4, <2>5, <2>6, <2>7, <2>8 DEF OutboxInv
<1>6. \/ /\ outbox' = Cut(Surplus, w)
         /\ promised' = [promised EXCEPT
              !.returned = promised.returned \cup {w},
              !.dropped = promised.dropped \cup Range(SubSeq(outbox, 1, Surplus))]
      \/ /\ outbox' = Cut(Len(outbox), w)
         /\ promised' = [promised EXCEPT !.returned = promised.returned \cup {w},
                                         !.lost = promised.lost \cup Range(outbox)]
      \/ /\ UNCHANGED outbox
         /\ promised' = [promised EXCEPT !.returned = promised.returned \cup {w},
                                         !.lost = promised.lost \cup {w}]
  BY <1>1 DEF Stage
<1> QED  BY <1>3, <1>4, <1>5, <1>6

(* After a crash nothing is under way, and the file and the remote are as  *)
(* they were.                                                              *)
LEMMA CrashKeeps ==
    ASSUME OutboxInv, CrashWriters
    PROVE  OutboxInv'
<1>1. /\ UNCHANGED <<outbox, remote, promised>> /\ holder' = Nobody /\ cooling' = FALSE
      /\ mishaps' \in Nat
      /\ writer' = [t \in Writers |-> Idle(writer[t].k)]
  BY DEF CrashWriters, OutboxInv, OutboxType
<1>2. \A t \in Writers : Idle(writer[t].k) \in WriterType
  <2>1. << >> \in Seq(Writes)
    OBVIOUS
  <2> QED  BY <2>1 DEF Idle, OutboxInv, OutboxType, WriterType
<1>3. \A t \in Writers : writer'[t].pc = "idle" /\ writer'[t].k = writer[t].k
  BY <1>1 DEF Idle
<1>4. OutboxType'
  BY <1>1, <1>2 DEF OutboxInv, OutboxType
<1>5. Locked'
  BY <1>1, <1>3, Threads DEF Locked
<1>6. Numbered'
  <2>1. \A x \in Writes : x[1] \in Writers
    BY DEF Writes
  <2>2. \A x \in Writes : (Begun(x)' <=> Begun(x)) /\ ~Underway(x)'
    BY <1>3, <2>1 DEF Begun, Underway
  <2>3. /\ \A x \in Range(outbox) \cup Range(remote) \cup promised.returned : x \in Writes
        /\ \A p \in promised.before : p[2] \in Writes
    BY DEF OutboxInv, OutboxType, Range
  <2> QED  BY <1>1, <2>2, <2>3 DEF OutboxInv, Numbered
<1>7. NothingLost'
  BY <1>1 DEF OutboxInv, NothingLost, Gone
<1>8. InOrder'
  <2> SUFFICES ASSUME ~promised.stuck, NEW p \in promised.before, Undropped(p)
               PROVE  Ordered(p[1], p[2])'
    BY <1>1 DEF InOrder, Undropped, Gone
  <2>1. Ordered(p[1], p[2])
    BY DEF OutboxInv, InOrder
  <2>2. \A u \in Writers : writer'[u].pc # "direct" /\ holder' # u
    BY <1>1, <1>3, Threads
  <2> QED  BY <1>1, <2>1, <2>2, Unsent
<1> QED  BY <1>4, <1>5, <1>6, <1>7, <1>8 DEF OutboxInv

-----------------------------------------------------------------------------
(* Theorems *)

LEMMA OutboxInitHolds == OutboxInit => OutboxInv
<1> SUFFICES ASSUME OutboxInit PROVE OutboxInv
  OBVIOUS
<1>1. << >> \in Seq(Writes) /\ Range(<< >>) = {}
  BY DEF Range
<1>2. \A t \in Writers : writer[t] = [pc |-> "idle", k |-> 0, entries |-> << >>, at |-> 0]
  BY DEF OutboxInit, Idle
<1>3. Idle(0) \in WriterType
  BY <1>1 DEF Idle, WriterType
<1>4. OutboxType
  BY <1>1, <1>3 DEF OutboxInit, OutboxType
<1>5. Locked
  BY <1>2, Threads DEF OutboxInit, Locked
<1>6. Numbered /\ NothingLost /\ InOrder
  BY <1>1 DEF OutboxInit, Numbered, NothingLost, InOrder
<1> QED  BY <1>4, <1>5, <1>6 DEF OutboxInv

LEMMA OutboxNextKeeps == OutboxInv /\ [OutboxNext]_outboxVars => OutboxInv'
<1> SUFFICES ASSUME OutboxInv, [OutboxNext]_outboxVars PROVE OutboxInv'
  OBVIOUS
<1>1. CASE \E t \in Writers : \/ BeginWrite(t) \/ FlushBegins(t) \/ Replay(t) \/ Rewrite(t)
                              \/ DirectWrite(t) \/ Stage(t)
  BY <1>1, BeginWriteKeeps, FlushKeeps, ReplayKeeps, RewriteKeeps, DirectKeeps, StageKeeps
<1>2. CASE CooldownPasses \/ UNCHANGED outboxVars
  <2>1. UNCHANGED <<outbox, remote, writer, holder, promised, mishaps>> /\ cooling' \in BOOLEAN
    BY <1>2 DEF CooldownPasses, outboxVars, OutboxInv, OutboxType
  <2>2. OutboxType' /\ Locked' /\ NothingLost'
    BY <2>1 DEF OutboxInv, OutboxType, Locked, NothingLost, Gone
  <2>3. Numbered'
    BY <2>1 DEF OutboxInv, Numbered, Begun, Underway
  <2>4. InOrder'
    <3> SUFFICES ASSUME ~promised.stuck, NEW p \in promised.before, Undropped(p)
                 PROVE  Ordered(p[1], p[2])'
      BY <2>1 DEF InOrder, Undropped, Gone
    <3>1. Ordered(p[1], p[2])
      BY DEF OutboxInv, InOrder
    <3> QED  BY <2>1, <3>1, Unsent
  <2> QED  BY <2>2, <2>3, <2>4 DEF OutboxInv
<1>3. CASE CrashWriters
  BY <1>3, CrashKeeps
<1> QED  BY <1>1, <1>2, <1>3 DEF OutboxNext

(* What the other theorems rest on: the lock, the numbers of the writes    *)
(* and the order in which any two of them go (memory_http._write).         *)
THEOREM OutboxInvariance == OutboxSpec => []OutboxInv
<1> QED  BY OutboxInitHolds, OutboxNextKeeps, PTL DEF OutboxSpec

(* The outbox and the remote hold writes, and a thread is where _write can *)
(* be.                                                                     *)
THEOREM OutboxTypeCorrect == OutboxSpec => []OutboxType
<1>1. OutboxInv => OutboxType
  BY DEF OutboxInv
<1> QED  BY <1>1, OutboxInvariance, PTL

(* A write that has returned is at the remote, staged, or gone: dropped    *)
(* from a full outbox, or lost with a file that could not be written when  *)
(* it was staged, or read when a later one was.  No crash, lost reply or   *)
(* failed replay loses one, and no rewrite that fails (_write, _stage).    *)
THEOREM LosesNothing == OutboxSpec => []NothingLost
<1>1. OutboxInv => NothingLost
  BY DEF OutboxInv
<1> QED  BY <1>1, OutboxInvariance, PTL

(* A write that began after another had returned reaches the remote after  *)
(* it, and no repetition of the older one stays the last (_flush_outbox),  *)
(* if neither is gone, and unless the outbox could not be rewritten after  *)
(* a replay or read before a write.                                        *)
THEOREM KeepsOrder == OutboxSpec => []OrderHolds
<1>1. OutboxInv => OrderHolds
  <2> SUFFICES ASSUME OutboxInv, ~promised.stuck, NEW p \in promised.before,
                      {p[1], p[2]} \cap Gone = {}, PlacesOf(p[2]) # {}
               PROVE  /\ StartsBefore(p[1], p[2])
                      /\ p[2] \in Range(outbox) \/ EndsAfter(p[2], p[1])
    BY DEF OrderHolds, Gone, StartsBefore, EndsAfter
  <2>1. Undropped(p)
    BY DEF Undropped, Gone
  <2>2. p[2] \in Range(remote)
    BY Places
  <2> QED  BY <2>1, <2>2 DEF OutboxInv, InOrder, Ordered, Arrived
<1> QED  BY <1>1, OutboxInvariance, PTL

(* Both, as the run of the memory checks them of memory_http.              *)
THEOREM RemoteFaithful == OutboxSpec => []RemoteIsFaithful
<1>1. NothingLost /\ OrderHolds => RemoteIsFaithful
  BY DEF RemoteIsFaithful
<1> QED  BY <1>1, LosesNothing, KeepsOrder, PTL

=============================================================================
