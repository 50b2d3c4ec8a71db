-------------------------- MODULE MCSessionCommit ---------------------------
(* SessionCommit with a few processes and turns, for TLC. *)
EXTENDS SessionCommit, TLC

CONSTANTS a, b, c, d, p1, p2, p3, MaxRevision

ASSUME MaxRevision \in Nat

(* Every commit consumes a turn, so only resets make revisions unbounded. *)
BoundedRevision == store.rev <= MaxRevision

Symmetry == Permutations(Procs) \cup Permutations(Turns)

=============================================================================
