----------------------------- MODULE MemoryReview -----------------------------
(***************************************************************************)
(* The memory reviews of a session (memory_review.py, agent.py, the turn    *)
(* of turn_service.py): a turn that is about to compact its context has the *)
(* conversation reviewed first; every Interval turns a task of its own      *)
(* reviews what was committed; Telegram has a session reviewed before it    *)
(* gives the chat a new one.  Reviews run beside turns, and the session     *)
(* they belong to may be cancelled, reset or closed at any time.            *)
(*                                                                         *)
(* A review asks the model, whose answers may have it write to the memory   *)
(* in a thread, a few times.  A turn stands for its one user message.       *)
(***************************************************************************)
EXTENDS Naturals

CONSTANTS
    Interval,    \* MEMORY_REVIEW_TURN_INTERVAL
    Rounds,      \* calls of the model in a review at most
    MaxTurns,    \* bound: turns submitted
    MaxReviews,  \* bound: periodic reviews
    MaxOps       \* bound: calls of cancel, reset_session, close, and rollovers

ASSUME ReviewsAssumption ==
    /\ Interval \in Nat \ {0} /\ Rounds \in Nat \ {0}
    /\ {MaxTurns, MaxReviews, MaxOps} \subseteq Nat

VARIABLES
    talk,      \* the committed conversation: its number, its turns, and
               \* last_memory_review_turn_count as committed
    last,      \* _last_memory_review_turn_count of the agent
    queued,    \* turns that wait in the runtime
    turn,      \* where the running turn is, and whether it was asked to stop
    review,    \* the reviews; 0 is the one that a turn or a rollover awaits
    made,      \* periodic reviews scheduled
    op,        \* the call that holds _lifecycle_lock
    closed,    \* "no", "begun" (_closed), "complete" (_close_complete)
    rollover,  \* create_new_session awaits review 0
    orphans,   \* threads of reviews that were given up: the conversations they know
    ops, submitted

reviewVars == <<talk, last, queued, turn, review, made, op, closed, rollover,
                orphans, ops, submitted>>

Periodic == 1..MaxReviews
Reviews == 0..MaxReviews
NoReview == [pc |-> "none", of |-> 0, upto |-> 0, rounds |-> 0, asked |-> FALSE]
Alive(r) == review[r].pc \notin {"none", "ended"}
NoTurnRuns == [pc |-> "none", asked |-> FALSE]
LockFree == [do |-> "none", at |-> "free"]

ReviewInit ==
    /\ talk = [of |-> 1, turns |-> 0, reviewed |-> 0] /\ last = 0 /\ queued = 0
    /\ turn = NoTurnRuns /\ review = [r \in Reviews |-> NoReview] /\ made = 0
    /\ op = LockFree /\ closed = "no" /\ rollover = FALSE /\ orphans = {}
    /\ ops = 0 /\ submitted = 0

(* A review of what there is up to a turn: run_memory_review is about to    *)
(* call the model, or its task has not run yet.                             *)
Review(pc, upto) == [NoReview EXCEPT !.pc = pc, !.of = talk.of, !.upto = upto]

-----------------------------------------------------------------------------
(* Turns *)

(* _submit_turn, under the lifecycle lock; Telegram keeps a chat from       *)
(* submitting while it gives it another session.                            *)
SubmitTurn ==
    /\ op = LockFree /\ closed = "no" /\ ~rollover /\ submitted < MaxTurns
    /\ queued' = queued + 1 /\ submitted' = submitted + 1
    /\ UNCHANGED <<talk, last, turn, review, made, op, closed, rollover, orphans, ops>>

(* The draft's attributes are those of the committed state.                 *)
StartTurn ==
    /\ turn.pc = "none" /\ queued > 0
    /\ queued' = queued - 1 /\ turn' = [NoTurnRuns EXCEPT !.pc = "prompt"]
    /\ last' = talk.reviewed
    /\ UNCHANGED <<talk, review, made, op, closed, rollover, orphans, ops, submitted>>

(* The context is above the threshold and a committed turn, not the last,   *)
(* is not covered by the checkpoint: the memory is saved first, with the    *)
(* prompt.                                                                  *)
SaveBeforeCompaction ==
    /\ turn.pc = "prompt" /\ ~turn.asked /\ talk.turns > 1
    /\ turn' = [turn EXCEPT !.pc = "saving"]
    /\ review' = [review EXCEPT ![0] = Review("chat", talk.turns + 1)]
    /\ UNCHANGED <<talk, last, queued, made, op, closed, rollover, orphans, ops, submitted>>

MemorySaved ==
    /\ turn.pc = "saving" /\ review[0].pc = "ended" /\ ~turn.asked
    /\ turn' = [turn EXCEPT !.pc = "running"]
    /\ last' = talk.turns + 1
    /\ UNCHANGED <<talk, queued, review, made, op, closed, rollover, orphans, ops, submitted>>

NothingToSave ==
    /\ turn.pc = "prompt"
    /\ turn' = [turn EXCEPT !.pc = "running"]
    /\ UNCHANGED <<talk, last, queued, review, made, op, closed, rollover, orphans, ops, submitted>>

(* Mutant: the turns are counted from the last commit. *)
NeverDue == FALSE

(* "turn_count - _last_memory_review_turn_count >= INTERVAL"                *)
Due == talk.turns + 1 >= last + Interval

(* The commit, and _schedule_periodic_memory_review after it.               *)
CommitTurn ==
    LET turns == talk.turns + 1
        reviewed == IF Due THEN turns ELSE last
    IN  /\ turn.pc = "running"
        /\ talk' = [talk EXCEPT !.turns = turns, !.reviewed = reviewed] /\ last' = reviewed
        /\ IF Due
           THEN /\ made < MaxReviews /\ made' = made + 1
                /\ review' = [review EXCEPT ![made + 1] = Review("created", turns)]
           ELSE UNCHANGED <<review, made>>
        /\ turn' = NoTurnRuns
        /\ UNCHANGED <<queued, op, closed, rollover, orphans, ops, submitted>>

(* The turn fails, its commit does, or it is cancelled: the committed state *)
(* is exposed again (_apply_session_state).                                 *)
AbandonTurn ==
    /\ turn.pc # "none" /\ (turn.pc = "saving" => ~Alive(0))
    /\ last' = talk.reviewed /\ turn' = NoTurnRuns
    /\ UNCHANGED <<talk, queued, review, made, op, closed, rollover, orphans, ops, submitted>>

-----------------------------------------------------------------------------
(* A review: _run_memory_review and run_memory_review.  "asked": the task   *)
(* has a CancelledError coming.                                             *)

Step(r, pc) == review' = [review EXCEPT ![r].pc = pc]

TaskBegins(r) ==
    /\ review[r].pc = "created"
    /\ Step(r, IF review[r].asked THEN "ended" ELSE "chat") /\ UNCHANGED orphans

(* The model answers with calls of the memory tool, or with a text; or it   *)
(* fails, or its calls cannot be read: the client is closed.                *)
ModelAnswers(r) ==
    /\ review[r].pc = "chat" /\ ~review[r].asked
    /\ Step(r, "write") \/ Step(r, "closing")
    /\ UNCHANGED orphans

Written(r) ==
    /\ review[r].pc = "write" /\ ~review[r].asked
    /\ review' = [review EXCEPT ![r].rounds = @ + 1,
                                ![r].pc = IF review[r].rounds + 1 < Rounds THEN "chat" ELSE "closing"]
    /\ UNCHANGED orphans

(* _execute_sync_tool waits for its thread for a while: it may outlive it.  *)
Interrupted(r) ==
    /\ review[r].asked
    /\ \/ review[r].pc \in {"chat", "write"} /\ UNCHANGED orphans
       \/ review[r].pc = "write" /\ orphans' = orphans \cup {review[r].of}
    /\ Step(r, "closing")

ClientClosed(r) == review[r].pc = "closing" /\ Step(r, "ended") /\ UNCHANGED orphans

(* A thread that nobody waits for ends.                                     *)
OrphanEnds(c) == orphans' = orphans \ {c} /\ UNCHANGED review

ReviewStep ==
    /\ \/ \E r \in Reviews : TaskBegins(r) \/ ModelAnswers(r) \/ Written(r) \/ Interrupted(r)
                             \/ ClientClosed(r)
       \/ \E c \in orphans : OrphanEnds(c)
    /\ UNCHANGED <<talk, last, queued, turn, made, op, closed, rollover, ops, submitted>>

-----------------------------------------------------------------------------
(* cancel, reset_session and close, under _lifecycle_lock; a rollover is a  *)
(* cancellation of everything, and a review of what is there then.          *)

Ask(rs) == review' = [r \in Reviews |-> IF r \in rs /\ Alive(r) THEN [review[r] EXCEPT !.asked = TRUE] ELSE review[r]]

(* The runtime is told; a turn that saves the memory is interrupted there.  *)
Begin(do) ==
    /\ op = LockFree /\ ops < MaxOps /\ ops' = ops + 1
    /\ do \in {"reset", "rollover"} => closed = "no" /\ ~rollover
    /\ do = "close" => closed # "complete"
    /\ op' = [do |-> do, at |-> "turn"]
    /\ queued' = IF do = "cancel" THEN queued ELSE 0
    /\ closed' = IF do = "close" THEN "begun" ELSE closed
    /\ turn' = IF turn.pc = "none" THEN turn ELSE [turn EXCEPT !.asked = TRUE]
    /\ Ask(IF turn.pc = "saving" THEN {0} ELSE {})
    /\ UNCHANGED <<talk, last, made, rollover, orphans, submitted>>

(* The turn is over (the next one may have begun if only this one was to    *)
(* be cancelled).                                                           *)
TurnOver ==
    /\ op.at = "turn" /\ ~turn.asked
    /\ op' = [op EXCEPT !.at = "reviews"]
    /\ UNCHANGED <<talk, last, queued, turn, review, made, closed, rollover, orphans, ops, submitted>>

(* Mutant: the reviews are left to themselves. *)
AskNobody == Ask({})

(* _cancel_memory_review_tasks: the tasks there are now, and their ends.    *)
CancelReviews == Ask(Periodic)

AskReviews ==
    /\ op.at = "reviews"
    /\ CancelReviews
    /\ op' = [op EXCEPT !.at = "ends"]
    /\ UNCHANGED <<talk, last, queued, turn, made, closed, rollover, orphans, ops, submitted>>

ReviewsOver == \A r \in Periodic : review[r].asked => ~Alive(r)

Cancelled ==
    /\ op.at = "ends" /\ op.do \in {"cancel", "cancel_all"} /\ ReviewsOver
    /\ op' = LockFree
    /\ UNCHANGED <<talk, last, queued, turn, review, made, closed, rollover, orphans, ops, submitted>>

(* The empty conversation is saved before it is adopted; the save may fail. *)
ResetDone ==
    /\ op.at = "ends" /\ op.do = "reset" /\ ReviewsOver
    /\ op' = LockFree
    /\ \/ talk' = [of |-> talk.of + 1, turns |-> 0, reviewed |-> 0] /\ last' = 0
       \/ UNCHANGED <<talk, last>>
    /\ UNCHANGED <<queued, turn, review, made, closed, rollover, orphans, ops, submitted>>

CloseDone ==
    /\ op.at = "ends" /\ op.do = "close" /\ ReviewsOver
    /\ op' = LockFree /\ closed' = "complete"
    /\ UNCHANGED <<talk, last, queued, turn, review, made, rollover, orphans, ops, submitted>>

(* Whoever called is cancelled while it waits. *)
CallGivenUp ==
    /\ op.at \in {"turn", "ends"} /\ op' = LockFree
    /\ UNCHANGED <<talk, last, queued, turn, review, made, closed, rollover, orphans, ops, submitted>>

(* flush_memory: nothing to review, or a review that the rollover awaits.   *)
FlushMemory ==
    /\ op.at = "ends" /\ op.do = "rollover" /\ ReviewsOver
    /\ op' = LockFree
    /\ IF talk.turns = 0 THEN UNCHANGED <<review, rollover>>
       ELSE rollover' = TRUE /\ review' = [review EXCEPT ![0] = Review("chat", talk.turns)]
    /\ UNCHANGED <<talk, last, queued, turn, made, closed, orphans, ops, submitted>>

(* The minute that flush_session_memory allows is over. *)
FlushTimesOut ==
    /\ rollover /\ Alive(0) /\ Ask({0})
    /\ UNCHANGED <<talk, last, queued, turn, made, op, closed, rollover, orphans, ops, submitted>>

(* The mark is set and saved, unless the review was given up; a save that   *)
(* fails leaves the mark in the agent until its next turn.                  *)
Flushed ==
    /\ rollover /\ ~Alive(0) /\ rollover' = FALSE
    /\ IF review[0].asked THEN UNCHANGED <<talk, last>>
       ELSE /\ last' = review[0].upto
            /\ talk' = [talk EXCEPT !.reviewed = review[0].upto] \/ UNCHANGED talk
    /\ UNCHANGED <<queued, turn, review, made, op, closed, orphans, ops, submitted>>

ReviewNext ==
    \/ SubmitTurn \/ StartTurn \/ SaveBeforeCompaction \/ MemorySaved \/ NothingToSave
    \/ CommitTurn \/ AbandonTurn \/ ReviewStep
    \/ \E do \in {"cancel", "cancel_all", "reset", "close", "rollover"} : Begin(do)
    \/ TurnOver \/ AskReviews \/ Cancelled \/ ResetDone \/ CloseDone \/ CallGivenUp
    \/ FlushMemory \/ FlushTimesOut \/ Flushed

ReviewSpec == ReviewInit /\ [][ReviewNext]_reviewVars

-----------------------------------------------------------------------------
(* Properties *)

ReviewTypeOK ==
    /\ talk \in [of : Nat, turns : Nat, reviewed : Nat] /\ last \in Nat
    /\ queued \in Nat /\ submitted \in Nat /\ ops \in Nat /\ made \in 0..MaxReviews
    /\ turn \in [pc : {"none", "prompt", "saving", "running"}, asked : BOOLEAN]
    /\ review \in [Reviews -> [pc : {"none", "created", "chat", "write", "closing", "ended"},
                               of : Nat, upto : Nat, rounds : Nat, asked : BOOLEAN]]
    /\ op \in [do : {"none", "cancel", "cancel_all", "reset", "close", "rollover"},
               at : {"free", "turn", "reviews", "ends"}]
    /\ closed \in {"no", "begun", "complete"} /\ rollover \in BOOLEAN /\ orphans \subseteq Nat

(* A review is of what the session says: the committed turns of the         *)
(* conversation there is, and the prompt of the turn that has it made.  One *)
(* that a reset erased has no review (agent.reset_session).                 *)
NoneOfTheErased ==
    \A r \in Reviews : Alive(r) =>
        /\ review[r].of = talk.of
        /\ review[r].upto <= IF r = 0 /\ turn.pc = "saving" THEN talk.turns + 1 ELSE talk.turns

(* A closed session runs no turn and reviews nothing, except what a         *)
(* rollover still has of it reviewed (agent.close).                         *)
ClosedIsQuiet ==
    closed = "complete" => turn.pc = "none" /\ queued = 0 /\ \A r \in Periodic : ~Alive(r)

(* Between turns, fewer than Interval committed turns lack a review begun   *)
(* since, whatever failed or was cancelled (turn_service.py).               *)
ReviewedInTime ==
    turn.pc = "none" => talk.reviewed <= talk.turns /\ talk.turns < talk.reviewed + Interval

(* The invariants together.                                                 *)
ReviewsAreSound == ReviewTypeOK /\ NoneOfTheErased /\ ClosedIsQuiet /\ ReviewedInTime

=============================================================================
