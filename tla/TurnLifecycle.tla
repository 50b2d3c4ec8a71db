---------------------------- MODULE TurnLifecycle ----------------------------
(***************************************************************************)
(* What a session promises to whoever submits turns to it, without its     *)
(* worker, tasks, locks and callers: the docstring of SessionRuntime       *)
(* (src/src/ankaloop/runtime.py) as a state machine.  SessionRuntime       *)
(* implements it.                                                          *)
(***************************************************************************)
EXTENDS Naturals

CONSTANTS Turns, Priority

VARIABLES
    turnStatus,  \* the public status of each turn
    seqno,       \* the order in which turns were accepted
    open         \* whether submit accepts turns

lifecycle == <<turnStatus, seqno, open>>

Ended == {"completed", "failed", "cancelled"}

Queued == {t \in Turns : turnStatus[t] = "queued"}

Running == {t \in Turns : turnStatus[t] = "running"}

Init ==
    /\ turnStatus = [t \in Turns |-> "absent"]
    /\ seqno = [t \in Turns |-> 0]
    /\ open = TRUE

(* A new turn waits behind every turn accepted before it. *)
Accept(t) ==
    /\ open
    /\ turnStatus[t] = "absent"
    /\ turnStatus' = [turnStatus EXCEPT ![t] = "queued"]
    /\ seqno' = [seqno EXCEPT ![t] = seqno'[t]]
    /\ seqno'[t] \in Nat
    /\ \A u \in Turns : seqno[u] < seqno'[t]
    /\ UNCHANGED open

(* The first of the highest priority. *)
First(t) ==
    /\ t \in Queued
    /\ \A u \in Queued \ {t} :
          \/ Priority[t] > Priority[u]
          \/ Priority[t] = Priority[u] /\ seqno[t] < seqno[u]

(* With nothing running the first turn in line starts. *)
Start(t) ==
    /\ Running = {}
    /\ First(t)
    /\ turnStatus' = [turnStatus EXCEPT ![t] = "running"]
    /\ UNCHANGED <<seqno, open>>

(* The running turn ends when nothing waits. *)
End(t) ==
    /\ turnStatus[t] = "running"
    /\ Queued = {}
    /\ \E s \in Ended : turnStatus' = [turnStatus EXCEPT ![t] = s]
    /\ UNCHANGED <<seqno, open>>

(* The running turn ends and the first in line takes over. *)
HandOver(t, u) ==
    /\ turnStatus[t] = "running"
    /\ First(u)
    /\ \E s \in Ended :
          turnStatus' = [turnStatus EXCEPT ![t] = s, ![u] = "running"]
    /\ UNCHANGED <<seqno, open>>

(* Some queued turns are cancelled; the session may stop accepting, and    *)
(* then none may be left waiting.                                          *)
Withdraw(S) ==
    /\ S \subseteq Queued
    /\ turnStatus' = [t \in Turns |-> IF t \in S THEN "cancelled" ELSE turnStatus[t]]
    /\ open' \in BOOLEAN
    /\ open' => open
    /\ open' # open => S = Queued
    /\ UNCHANGED seqno

Next ==
    \/ \E t \in Turns : Accept(t) \/ Start(t) \/ End(t)
    \/ \E t, u \in Turns : HandOver(t, u)
    \/ \E S \in SUBSET Turns : Withdraw(S)

Spec == Init /\ [][Next]_lifecycle

=============================================================================
