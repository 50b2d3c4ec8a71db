--------------------------- MODULE MCToolJournal ----------------------------
(* ToolJournal with a small journal and with one that is never full.        *)
EXTENDS ToolJournal, TLC

CONSTANTS a, b, c, x, p1, p2

(* Bounds on what one behaviour does.  A small journal serves one process   *)
(* at a time, through three turns of a tool each; the other serves two      *)
(* processes at once, with two turns.                                       *)
SmallOrShared ==
    IF NeverFull THEN Cardinality({t \in Turns : outcome[t] # "new"}) <= 2
    ELSE OneAtATime /\ \A p \in Procs : tools[p] <= 1

(* A bound on what goes wrong in one behaviour: turns that meet a failing  *)
(* disk, turns that die with their process, acknowledgements.              *)
CONSTANT MaxTroubles
FewTroubles == Cardinality(missed) + Cardinality(died) + acks <= MaxTroubles

(* A bound on the operations that a journal holds. *)
FewIntents ==
    Cardinality({i \in DOMAIN journal : journal[i].kind = "tool_intent"}) <= IF NeverFull THEN 2 ELSE 3

Symmetry == Permutations(Procs) \cup Permutations(Turns)

=============================================================================
