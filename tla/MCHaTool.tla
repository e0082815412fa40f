------------------------------ MODULE MCHaTool ------------------------------
(* Instances of HaTool for TLC.                                             *)
EXTENDS HaTool, TLC

CONSTANTS t1, t2

Together == (t1 :> {"check", "migrate"}) @@ (t2 :> {"migrate", "rebalance"})
Symmetry == Permutations(Agents) \union Permutations(Routers)
=============================================================================
