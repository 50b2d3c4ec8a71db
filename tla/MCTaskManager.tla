--------------------------- MODULE MCTaskManager ---------------------------
(* An instance of TaskManager with two tasks and two callers.  The second    *)
(* task is created only while no task was started twice and one caller has   *)
(* called, so that the run covers two tasks with one caller and one task,    *)
(* started twice, with two.                                                  *)
EXTENDS TaskManager

CONSTANTS t1, t2, c1, c2

OneOfTwo ==
    /\ state[t1] = "absent" => state[t2] = "absent"
    /\ state[t2] # "absent" =>
         /\ starts[t1] <= 1 /\ starts[t2] <= 1
         /\ Cardinality(interrupted) <= 1
         /\ call[c2] = Idle /\ call[c1].op \in {"none", "sweep"}
    /\ starts[t1] = 2 => call[c2] = Idle
=============================================================================
