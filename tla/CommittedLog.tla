---------------------------- MODULE CommittedLog ----------------------------
(***************************************************************************)
(* What a persisted session is to the submitters of its turns, whatever    *)
(* number of processes serves it: a log of complete turns.  A turn is in   *)
(* the log as a whole or not at all, once, and it enters the log in the    *)
(* very step that decides its outcome.  SessionCommit implements this.     *)
(***************************************************************************)
EXTENDS Sequences

CONSTANT Turns

VARIABLES
    log,      \* the committed turns, in order
    outcome,  \* what became of each turn
    answered  \* the turns whose response was returned

Init ==
    /\ log = << >>
    /\ outcome = [t \in Turns |-> "new"]
    /\ answered = {}

Start(t) ==
    /\ outcome[t] = "new"
    /\ outcome' = [outcome EXCEPT ![t] = "running"]
    /\ UNCHANGED <<log, answered>>

Commit(t) ==
    /\ outcome[t] = "running"
    /\ outcome' = [outcome EXCEPT ![t] = "committed"]
    /\ log' = Append(log, t)
    /\ UNCHANGED answered

(* Only a committed turn is answered; its process may die before that. *)
Answer(t) ==
    /\ outcome[t] = "committed"
    /\ answered' = answered \cup {t}
    /\ UNCHANGED <<log, outcome>>

(* A turn that is blocked, fails, or dies with its process leaves nothing. *)
Abandon(t) ==
    /\ outcome[t] = "running"
    /\ \E end \in {"blocked", "failed", "lost"} :
          outcome' = [outcome EXCEPT ![t] = end]
    /\ UNCHANGED <<log, answered>>

Reset ==
    /\ log' = << >>
    /\ UNCHANGED <<outcome, answered>>

Next == Reset \/ \E t \in Turns : Start(t) \/ Commit(t) \/ Answer(t) \/ Abandon(t)

Spec == Init /\ [][Next]_<<log, outcome, answered>>

=============================================================================
