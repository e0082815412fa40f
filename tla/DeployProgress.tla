--------------------------- MODULE DeployProgress ---------------------------
(***************************************************************************)
(* What the deployment side of Compass promises about the nodes of one     *)
(* host, with none of the scripts, pid files, cron jobs or reboots that    *)
(* bring it about: a node the chef server knows is first converged, then   *)
(* reported to the Compass server as ready, and neither is taken back.     *)
(* ChefRun implements this specification.                                  *)
(***************************************************************************)
CONSTANT Nodes

VARIABLES
    registered,   \* the nodes the chef server lists
    done,         \* the nodes a chef-client run has converged
    ready         \* the nodes the Compass server has as ready

progressVars == <<registered, done, ready>>

ProgressInit ==
    /\ registered \in SUBSET Nodes
    /\ done = {}
    /\ ready = {}

Register(n) ==
    /\ registered' = registered \union {n}
    /\ UNCHANGED <<done, ready>>

Converge(n) ==
    /\ n \in registered
    /\ done' = done \union {n}
    /\ UNCHANGED <<registered, ready>>

Report(n) ==
    /\ n \in done
    /\ ready' = ready \union {n}
    /\ UNCHANGED <<registered, done>>

ProgressNext == \E n \in Nodes : Register(n) \/ Converge(n) \/ Report(n)

ProgressSpec == ProgressInit /\ [][ProgressNext]_progressVars
=============================================================================
