----------------------------- MODULE HealthBoard ----------------------------
(***************************************************************************)
(* What Compass sees of one health check: it is told the list of tasks,    *)
(* which opens a report for each, and then each report is settled at most  *)
(* once, with a verdict.  HealthCheck implements this for a single run of  *)
(* check_health.py, whatever its workers, retries and failures do.         *)
(***************************************************************************)
CONSTANT Tasks

VARIABLE board     \* the state of each task's report at Compass

Verdicts == {"success", "finished", "error"}

BoardInit == board = [t \in Tasks |-> "none"]

Open ==
    /\ \A t \in Tasks : board[t] = "none"
    /\ board' = [t \in Tasks |-> "pending"]

Settle(t, v) ==
    /\ board[t] = "pending"
    /\ board' = [board EXCEPT ![t] = v]

BoardNext == Open \/ \E t \in Tasks, v \in Verdicts : Settle(t, v)

BoardSpec == BoardInit /\ [][BoardNext]_board
=============================================================================
