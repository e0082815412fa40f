--------------------------- MODULE DhcpReplication --------------------------
(***************************************************************************)
(* replicate_dhcp of neutron-ha-tool.py, which cron starts every minute on *)
(* each controller: a run lists the networks and the DHCP agents and gives *)
(* every agent the networks it lacks.  Several runs work on one Neutron    *)
(* server while users create and delete networks.                          *)
(***************************************************************************)
EXTENDS Naturals, FiniteSets

CONSTANTS
    Tools,       \* the controllers' cron jobs, each one run at a time
    DhcpAgents,
    Networks,    \* the networks there may ever be
    MaxFaults,   \* bound on API calls that fail
    NoAgent      \* a run that is at no agent

ASSUME NoAgentAssumption == NoAgent \notin DhcpAgents
ASSUME MaxFaultsAssumption == MaxFaults \in Nat

VARIABLES
    networks,   \* the networks there are
    deleted,    \* the networks there were
    carried,    \* which network is on which agent
    pc,         \* where each run is
    wanted,     \* network_id_list
    agents,     \* the agents the outer loop has still to look at
    agent,      \* dhcp_agent_id
    missing,    \* the networks of the inner loop still to be added
    faults,     \* API failures so far
    skipped     \* history: what each run failed to add

server == <<networks, deleted, carried>>
run == <<pc, wanted, agents, agent, missing>>
vars == <<server, run, faults, skipped>>

Pc == {"idle", "networks", "agents", "listAgent", "add", "done", "failed"}

TypeOK ==
    /\ networks \in SUBSET Networks
    /\ deleted \in SUBSET Networks
    /\ carried \in SUBSET (Networks \X DhcpAgents)
    /\ pc \in [Tools -> Pc]
    /\ wanted \in [Tools -> SUBSET Networks]
    /\ agents \in [Tools -> SUBSET DhcpAgents]
    /\ agent \in [Tools -> DhcpAgents \union {NoAgent}]
    /\ missing \in [Tools -> SUBSET Networks]
    /\ faults \in 0..MaxFaults
    /\ skipped \in [Tools -> SUBSET (Networks \X DhcpAgents)]

Init ==
    /\ networks \in SUBSET Networks
    /\ deleted = {}
    /\ carried = {}
    /\ pc = [t \in Tools |-> "idle"]
    /\ wanted = [t \in Tools |-> {}]
    /\ agents = [t \in Tools |-> {}]
    /\ agent = [t \in Tools |-> NoAgent]
    /\ missing = [t \in Tools |-> {}]
    /\ faults = 0
    /\ skipped = [t \in Tools |-> {}]

-----------------------------------------------------------------------------
(* The users of Neutron                                                     *)

CreateNetwork(n) ==
    /\ n \notin networks \union deleted
    /\ networks' = networks \union {n}
    /\ UNCHANGED <<deleted, carried, run, faults, skipped>>

DeleteNetwork(n) ==
    /\ n \in networks
    /\ networks' = networks \ {n}
    /\ deleted' = deleted \union {n}
    /\ carried' = {p \in carried : p[1] # n}
    /\ UNCHANGED <<run, faults, skipped>>

-----------------------------------------------------------------------------
(* replicate_dhcp                                                           *)

Goto(t, here, there) ==
    /\ pc[t] = here
    /\ pc' = [pc EXCEPT ![t] = there]

\* cron starts the next run when the last one is over.
Start(t) ==
    /\ pc[t] \in {"idle", "done", "failed"}
    /\ pc' = [pc EXCEPT ![t] = "networks"]
    /\ skipped' = [skipped EXCEPT ![t] = {}]
    /\ UNCHANGED <<server, wanted, agents, agent, missing, faults>>

\* mutant: the networks of the first run are remembered
ListNetworksOnce(t) ==
    /\ Goto(t, "networks", "agents")
    /\ wanted' = [wanted EXCEPT ![t] = IF @ = {} THEN networks ELSE @]
    /\ UNCHANGED <<server, agents, agent, missing, faults, skipped>>

ListNetworks(t) ==
    /\ Goto(t, "networks", "agents")
    /\ wanted' = [wanted EXCEPT ![t] = networks]
    /\ UNCHANGED <<server, agents, agent, missing, faults, skipped>>

ListAgents(t) ==
    /\ Goto(t, "agents", "listAgent")
    /\ agents' = [agents EXCEPT ![t] = DhcpAgents]
    /\ UNCHANGED <<server, wanted, agent, missing, faults, skipped>>

OnAgent(a) == {n \in networks : <<n, a>> \in carried}     \* network_id_on_agent

\* mutant: the networks an agent carries are still to be added
ListAgentHas(t, a) ==
    /\ a \in agents[t]
    /\ Goto(t, "listAgent", "add")
    /\ agents' = [agents EXCEPT ![t] = @ \ {a}]
    /\ agent' = [agent EXCEPT ![t] = a]
    /\ missing' = [missing EXCEPT ![t] = wanted[t] \intersect OnAgent(a)]
    /\ UNCHANGED <<server, wanted, faults, skipped>>

ListAgent(t, a) ==
    /\ a \in agents[t]
    /\ Goto(t, "listAgent", "add")
    /\ agents' = [agents EXCEPT ![t] = @ \ {a}]
    /\ agent' = [agent EXCEPT ![t] = a]
    /\ missing' = [missing EXCEPT ![t] = wanted[t] \ OnAgent(a)]
    /\ UNCHANGED <<server, wanted, faults, skipped>>

Fault == faults < MaxFaults /\ faults' = faults + 1

\* A list call raises, outside of the try: the script exits with 1.
ListFails(t) ==
    /\ pc[t] \in {"networks", "agents", "listAgent"}
    /\ pc[t] = "listAgent" => agents[t] # {}
    /\ Fault
    /\ pc' = [pc EXCEPT ![t] = "failed"]
    /\ UNCHANGED <<server, wanted, agents, agent, missing, skipped>>

\* The next network of the loop, added or not.
Take(t, n) ==
    /\ pc[t] = "add"
    /\ n \in missing[t]
    /\ missing' = [missing EXCEPT ![t] = @ \ {n}]
    /\ UNCHANGED <<networks, deleted, pc, wanted, agents, agent>>

Addable(t, n) == n \in networks /\ <<n, agent[t]>> \notin carried

\* mutant: agent and network are given in the wrong order
AddNetworkSwapped(t, n) ==
    /\ Addable(t, n)
    /\ Take(t, n)
    /\ carried' = carried \union {<<agent[t], n>>}
    /\ UNCHANGED <<faults, skipped>>

AddNetwork(t, n) ==
    /\ Addable(t, n)
    /\ Take(t, n)
    /\ carried' = carried \union {<<n, agent[t]>>}
    /\ UNCHANGED <<faults, skipped>>

\* mutant: a refusal ends the loop
AddRefusedBreaks(t, n) ==
    /\ ~ Addable(t, n)
    /\ pc[t] = "add"
    /\ n \in missing[t]
    /\ missing' = [missing EXCEPT ![t] = {}]
    /\ UNCHANGED <<server, pc, wanted, agents, agent, faults, skipped>>

\* Neutron refuses: the network was deleted, or another run was faster.  The
\* exception is logged, and the loop goes on.
AddRefused(t, n) ==
    /\ ~ Addable(t, n)
    /\ Take(t, n)
    /\ UNCHANGED <<carried, faults, skipped>>

\* The call raises, before or after its effect.
AddFails(t, n) ==
    /\ Addable(t, n)
    /\ Take(t, n)
    /\ Fault
    /\ \/ /\ skipped' = [skipped EXCEPT ![t] = @ \union {<<n, agent[t]>>}]
          /\ UNCHANGED carried
       \/ /\ carried' = carried \union {<<n, agent[t]>>}
          /\ UNCHANGED skipped

AgentDone(t) ==
    /\ missing[t] = {}
    /\ Goto(t, "add", "listAgent")
    /\ agent' = [agent EXCEPT ![t] = NoAgent]
    /\ UNCHANGED <<server, wanted, agents, missing, faults, skipped>>

End(t) ==
    /\ agents[t] = {}
    /\ Goto(t, "listAgent", "done")
    /\ UNCHANGED <<server, wanted, agents, agent, missing, faults, skipped>>

-----------------------------------------------------------------------------
Step(t) ==
    \/ Start(t) \/ ListNetworks(t) \/ ListAgents(t)
    \/ \E a \in DhcpAgents : ListAgent(t, a)
    \/ \E n \in Networks : AddNetwork(t, n) \/ AddRefused(t, n) \/ AddFails(t, n)
    \/ AgentDone(t) \/ End(t)

Next ==
    \/ \E t \in Tools : Step(t) \/ ListFails(t)
    \/ \E n \in Networks : CreateNetwork(n) \/ DeleteNetwork(n)

Spec == Init /\ [][Next]_vars

\* cron starts its jobs and the server answers; no call has to fail.
FairSpec == Spec /\ \A t \in Tools : WF_vars(Step(t))

-----------------------------------------------------------------------------
(* Properties                                                               *)

\* A run that came to its end has left every network of its list that is still
\* there on every agent, but for what it failed to add, although other runs add
\* the same networks and users delete some (the two loops of replicate_dhcp).
ReplicatedUnlessSkipped ==
    \A t \in Tools : pc[t] = "done" =>
        \A n \in wanted[t] \intersect networks, a \in DhcpAgents :
            <<n, a>> \in carried \/ <<n, a>> \in skipped[t]

\* In the end every network is on every agent: what one run missed, failed to add
\* or did not come to, a later one adds.
EventuallyReplicated == <>[](\A n \in networks, a \in DhcpAgents : <<n, a>> \in carried)
=============================================================================
