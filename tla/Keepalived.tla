----------------------------- MODULE Keepalived -----------------------------
(***************************************************************************)
(* Which node of "os-ha" keepalived starts as the master: keepalived's own *)
(* version of node_election (keepalived/libraries/default.rb), which also  *)
(* takes the tag from all but the first of the tagged nodes, and the state *)
(* a node keeps from its first chef-client run (recipes/default.rb).       *)
(*                                                                         *)
(* A run works on a copy of its node and of each node a search returned,   *)
(* and a save replaces the whole node on the server by that copy.          *)
(***************************************************************************)
EXTENDS NodeElection

VARIABLES
    kpc,       \* where the chef-client run of each node is
    saved,     \* the state among each node's attributes on the server
    carrying,  \* the nodes whose run has the tag in its copy of its own node
    state,     \* the state in that copy
    seen,      \* the states of the nodes a search returned
    todo,      \* the later tagged nodes
    master,    \* what keepalived_master returned
    conf,      \* the state in keepalived.conf
    faults

node == <<carrying, state, seen, todo, master>>
kvars == <<chefServer, kpc, saved, node, conf, faults>>

States == {"", "MASTER", "BACKUP"}

KeepalivedTypeOK ==
    /\ ElectionTypeOK
    /\ kpc \in [Nodes -> {"off", "tag", "role", "untag", "decide", "converge", "end"}]
    /\ saved \in [Nodes -> States]
    /\ carrying \in SUBSET Nodes
    /\ state \in [Nodes -> States]
    /\ seen \in [Nodes -> [Nodes -> States]]
    /\ todo \in [Nodes -> SUBSET Nodes]
    /\ master \in [Nodes -> Nodes]
    /\ conf \in [Nodes -> States]
    /\ faults \in 0..MaxFaults
    /\ \A n \in Nodes : todo[n] # {} => kpc[n] = "untag"
    /\ \A n \in Nodes : kpc[n] \in {"converge", "end"} => state[n] # ""

KInit ==
    /\ kpc = [n \in Nodes |-> "off"]
    /\ saved = [n \in Nodes |-> ""]
    /\ carrying = {}
    /\ state = [n \in Nodes |-> ""]
    /\ seen = [n \in Nodes |-> [m \in Nodes |-> ""]]
    /\ todo = [n \in Nodes |-> {}]
    /\ master = [n \in Nodes |-> n]
    /\ conf = [n \in Nodes |-> ""]

Init == ElectionInit /\ KInit /\ faults = 0

Goto(n, here, there) == kpc[n] = here /\ kpc' = [kpc EXCEPT ![n] = there]

Start(n) ==
    /\ n \in registered
    /\ Goto(n, "off", "tag")
    /\ carrying' = IF n \in tagged THEN carrying \union {n} ELSE carrying \ {n}
    /\ state' = [state EXCEPT ![n] = saved[n]]
    /\ UNCHANGED <<chefServer, saved, seen, todo, master, conf, faults>>

-----------------------------------------------------------------------------
(* keepalived_master                                                        *)

NoneTagged(n) ==
    /\ Masters = {}
    /\ Goto(n, "tag", "role")
    /\ UNCHANGED <<chefServer, saved, node, conf, faults>>

\* mutant: the tagged nodes are not sorted
AnyTagged(n, m) ==
    /\ m \in Masters
    /\ Goto(n, "tag", "untag")
    /\ master' = [master EXCEPT ![n] = m]
    /\ todo' = [todo EXCEPT ![n] = Masters \ {m}]
    /\ seen' = [seen EXCEPT ![n] = saved]
    /\ UNCHANGED <<chefServer, saved, carrying, state, conf, faults>>

FirstTagged(n, m) ==
    /\ Masters # {} /\ m = First(Masters)
    /\ Goto(n, "tag", "untag")
    /\ master' = [master EXCEPT ![n] = m]
    /\ todo' = [todo EXCEPT ![n] = Masters \ {m}]
    /\ seen' = [seen EXCEPT ![n] = saved]
    /\ UNCHANGED <<chefServer, saved, carrying, state, conf, faults>>

\* m.tags.delete(tag), m.save
Untag(n) ==
    /\ kpc[n] = "untag" /\ todo[n] # {}
    /\ LET m == First(todo[n])
       IN  /\ tagged' = tagged \ {m}
           /\ saved' = [saved EXCEPT ![m] = seen[n][m]]
           /\ todo' = [todo EXCEPT ![n] = @ \ {m}]
    /\ UNCHANGED <<registered, indexed, missed, kpc, carrying, state, seen, master, conf, faults>>

Untagged(n) ==
    /\ todo[n] = {}
    /\ Goto(n, "untag", "decide")
    /\ UNCHANGED <<chefServer, saved, node, conf, faults>>

\* The first node found with the role; it tags and saves itself.
Elect(n, m) ==
    /\ Found # {} /\ m = First(Found)
    /\ Goto(n, "role", "decide")
    /\ master' = [master EXCEPT ![n] = m]
    /\ IF m = n
       THEN /\ tagged' = tagged \union {n}
            /\ saved' = [saved EXCEPT ![n] = state[n]]
            /\ carrying' = carrying \union {n}
       ELSE UNCHANGED <<tagged, saved, carrying>>
    /\ missed' = (missed \/ Found # Nodes)
    /\ UNCHANGED <<registered, indexed, state, seen, todo, conf, faults>>

\* nodes.first.name of no nodes
NobodyFound(n) ==
    /\ Found = {}
    /\ Goto(n, "role", "off")
    /\ UNCHANGED <<chefServer, saved, node, conf, faults>>

-----------------------------------------------------------------------------
(* The recipe                                                               *)

\* mutant: only the master is given a state
DecideMaster(n) ==
    /\ Goto(n, "decide", "converge")
    /\ state' = [state EXCEPT ![n] = IF @ = "" /\ master[n] = n THEN "MASTER" ELSE @]
    /\ UNCHANGED <<chefServer, saved, carrying, seen, todo, master, conf, faults>>

\* mutant: the other nodes start in the state of instance_defaults
DecideDefault(n) ==
    /\ Goto(n, "decide", "converge")
    /\ state' = [state EXCEPT ![n] = IF @ # "" THEN @ ELSE "MASTER"]
    /\ UNCHANGED <<chefServer, saved, carrying, seen, todo, master, conf, faults>>

\* states[node.name].empty?
Decide(n) ==
    /\ Goto(n, "decide", "converge")
    /\ state' = [state EXCEPT ![n] =
                    IF @ # "" THEN @ ELSE IF master[n] = n THEN "MASTER" ELSE "BACKUP"]
    /\ UNCHANGED <<chefServer, saved, carrying, seen, todo, master, conf, faults>>

\* template "keepalived.conf"
Converge(n) ==
    /\ Goto(n, "converge", "end")
    /\ conf' = [conf EXCEPT ![n] = state[n]]
    /\ UNCHANGED <<chefServer, saved, node, faults>>

\* chef-client saves the node of a run that comes to its end.
End(n) ==
    /\ Goto(n, "end", "off")
    /\ tagged' = IF n \in carrying THEN tagged \union {n} ELSE tagged \ {n}
    /\ saved' = [saved EXCEPT ![n] = state[n]]
    /\ UNCHANGED <<registered, indexed, missed, node, conf, faults>>

Fail(n) ==
    /\ kpc[n] # "off"
    /\ faults < MaxFaults /\ faults' = faults + 1
    /\ kpc' = [kpc EXCEPT ![n] = "off"]
    /\ todo' = [todo EXCEPT ![n] = {}]
    /\ UNCHANGED <<chefServer, saved, carrying, state, seen, master, conf>>

-----------------------------------------------------------------------------
Step(n) ==
    \/ \E m \in Nodes : FirstTagged(n, m) \/ Elect(n, m)
    \/ NoneTagged(n) \/ Untag(n) \/ Untagged(n) \/ NobodyFound(n)
    \/ Decide(n) \/ Converge(n) \/ End(n)

ServerStep(n) ==
    /\ Register(n) \/ Reindex(n)
    /\ UNCHANGED <<kpc, saved, node, conf, faults>>

Next == \E n \in Nodes : ServerStep(n) \/ Start(n) \/ Step(n) \/ Fail(n)

Spec == Init /\ [][Next]_kvars

-----------------------------------------------------------------------------
(* Properties                                                               *)

\* As long as every search for the role finds all of its nodes, keepalived starts as
\* the master on one node at most, whatever runs fail and however late the tag is found
\* (the priorities of two masters would be the same).
OneMaster == missed \/ \A m, n \in Nodes : conf[m] = "MASTER" /\ conf[n] = "MASTER" => m = n

\* The nodes that take the tag from the others, each with a list of its own and from an
\* index that is behind, never leave none tagged (head, *tail of the sorted list).
StillTagged == [][tagged # {} => tagged' # {}]_kvars
=============================================================================
