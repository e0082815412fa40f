---------------------------- MODULE NodeElection ----------------------------
(***************************************************************************)
(* node_election (openstack-identity/libraries/default.rb, and the same in *)
(* openssh): the nodes of a role agree, through searches on the chef       *)
(* server, on one of them that carries a tag.                              *)
(*                                                                         *)
(* The server answers a search from an index that it updates some time     *)
(* after a node is saved, and returns the nodes themselves as they are.    *)
(* That "knife search node doesn't work as expected" is why the chef       *)
(* client runner lists nodes instead (kickstart_chef_run.sh).              *)
(***************************************************************************)
EXTENDS Naturals, FiniteSets

CONSTANTS
    Nodes,       \* the nodes of the role; names are numbers, in their order
    MaxFaults    \* bound on chef-client runs that fail or are killed

ASSUME MaxFaultsAssumption == MaxFaults \in Nat
ASSUME NodesAssumption == Nodes \subseteq Nat /\ IsFiniteSet(Nodes) /\ Nodes # {}

VARIABLES
    registered,    \* the nodes the chef server has
    tagged,        \* those that carry the tag
    indexed,       \* what the search index has of each node
    missed         \* history: a search for the role did not find all nodes

chefServer == <<registered, tagged, indexed, missed>>

ElectionTypeOK ==
    /\ registered \in SUBSET Nodes
    /\ tagged \in SUBSET Nodes
    /\ indexed \in [Nodes -> {"absent", "plain", "tagged"}]
    /\ missed \in BOOLEAN

ElectionInit ==
    /\ registered = {}
    /\ tagged = {}
    /\ indexed = [n \in Nodes |-> "absent"]
    /\ missed = FALSE

First(S) == CHOOSE n \in S : \A m \in S : n <= m     \* sort_by name, first

Masters == {n \in Nodes : indexed[n] = "tagged"}
Found == {n \in Nodes : indexed[n] # "absent"}

\* Compass creates the node with its role.
Register(n) ==
    /\ n \notin registered
    /\ registered' = registered \union {n}
    /\ UNCHANGED <<tagged, indexed, missed>>

\* The index catches up with the node.
Reindex(n) ==
    /\ n \in registered
    /\ indexed' = [indexed EXCEPT ![n] = IF n \in tagged THEN "tagged" ELSE "plain"]
    /\ UNCHANGED <<registered, tagged, missed>>

\* mutant: the nodes are not sorted
FirstListed(n) == IF Found = {} \/ n \in Found THEN n ELSE First(Found)

\* No node found with the tag: the first node found with the role is elected, and
\* tags and saves itself when it is the one that searches, or finds none at all.
FirstFound(n) == IF Found = {} THEN n ELSE First(Found)

ElectFirst(n, m) ==
    /\ m = FirstFound(n)
    /\ tagged' = IF m = n THEN tagged \union {n} ELSE tagged
    /\ missed' = (missed \/ Found # Nodes)
    /\ UNCHANGED <<registered, indexed>>

-----------------------------------------------------------------------------
\* The nodes agree on one tagged node, however late the index is with the tag
\* itself, as long as every search for the role finds all of its nodes: the sort
\* by name, not the tag, is what excludes a second one (node_election).
OneElected == missed \/ \A m, n \in tagged : m = n
=============================================================================
