-------------------------- MODULE MCSessionRuntime --------------------------
(* SessionRuntime with a few turns and callers, for TLC. *)
EXTENDS SessionRuntime, TLC

CONSTANTS t1, t2, t3, c1, c2

(* One turn overtakes the others. *)
MCTurns == {t1, t2, t3}

MCPriority == t1 :> 1 @@ t2 :> 2 @@ t3 :> 1

(* Three turns show the order of the queue, and two callers how they meet. *)
ThreeTurnsOrTwoCallers == turnStatus[t3] = "absent" \/ call[c2].op = "none"

=============================================================================
