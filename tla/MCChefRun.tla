----------------------------- MODULE MCChefRun ------------------------------
(* ChefRun for TLC: its constants are model values given in the cfg files.   *)
EXTENDS ChefRun, TLC

\* Pids and nodes are interchangeable in the safety runs.
PidNodeSymmetry == Permutations(Pids) \union Permutations(Nodes)
=============================================================================
