------------------------ MODULE DhcpReplicationProofs -----------------------
(***************************************************************************)
(* Proofs about DhcpReplication, for any controllers, agents and networks. *)
(*                                                                         *)
(* LoopInv says what the two loops have achieved so far: an agent that a   *)
(* run is done with has every listed network that is still there, unless   *)
(* the run failed to add it, and the agent it is at lacks at most the      *)
(* networks still to be added.  No step of another run or of a user can    *)
(* undo that: runs only add, and a deletion takes the network away too.    *)
(***************************************************************************)
EXTENDS DhcpReplication, TLAPS

-----------------------------------------------------------------------------
(* Type correctness                                                         *)

\* Where the loops are: a run that adds is at an agent, one that is done is done
\* with all of them, and what it listed was there.
PlaceInv ==
    \A t \in Tools :
        /\ pc[t] = "add" => agent[t] \in DhcpAgents
        /\ pc[t] = "done" => agents[t] = {}
        /\ wanted[t] \subseteq networks \union deleted

LEMMA TypeInit == Init => TypeOK /\ PlaceInv
  BY MaxFaultsAssumption DEF MaxFaultsAssumption, Init, TypeOK, PlaceInv, Pc

LEMMA TypeStep == TypeOK /\ PlaceInv /\ [Next]_vars => TypeOK'
<1> SUFFICES ASSUME TypeOK, PlaceInv, [Next]_vars PROVE TypeOK'
  OBVIOUS
<1> USE DEF TypeOK, Pc, server, run, Goto, Take
<1>1. CASE UNCHANGED vars
  BY <1>1 DEF vars
<1>2. ASSUME NEW n \in Networks, CreateNetwork(n) \/ DeleteNetwork(n) PROVE TypeOK'
  BY <1>2 DEF CreateNetwork, DeleteNetwork
<1>3. ASSUME Fault PROVE faults' \in 0..MaxFaults
  BY <1>3, MaxFaultsAssumption DEF Fault, MaxFaultsAssumption
<1>4. ASSUME NEW t \in Tools, Start(t) PROVE TypeOK'
  BY <1>4 DEF Start
<1>5. ASSUME NEW t \in Tools, ListNetworks(t) \/ ListAgents(t) PROVE TypeOK'
  BY <1>5 DEF ListNetworks, ListAgents
<1>6. ASSUME NEW t \in Tools, NEW a \in DhcpAgents, ListAgent(t, a) PROVE TypeOK'
  BY <1>6 DEF ListAgent
<1>7. ASSUME NEW t \in Tools, ListFails(t) PROVE TypeOK'
  BY <1>3, <1>7 DEF ListFails
<1>8. ASSUME NEW t \in Tools, NEW n \in Networks, AddRefused(t, n) PROVE TypeOK'
  BY <1>8 DEF AddRefused
<1>9. ASSUME NEW t \in Tools, NEW n \in Networks, agent[t] \in DhcpAgents,
             AddNetwork(t, n) \/ AddFails(t, n)
      PROVE  TypeOK'
  <2>1. <<n, agent[t]>> \in Networks \X DhcpAgents
    BY <1>9
  <2>2. CASE AddNetwork(t, n)
    BY <2>1, <2>2 DEF AddNetwork
  <2>3. CASE AddFails(t, n)
    BY <1>3, <2>1, <2>3 DEF AddFails
  <2> QED
    BY <1>9, <2>2, <2>3
<1>10. ASSUME NEW t \in Tools, AgentDone(t) \/ End(t) PROVE TypeOK'
  BY <1>10 DEF AgentDone, End
<1>11. ASSUME NEW t \in Tools, NEW n \in Networks, AddNetwork(t, n) \/ AddFails(t, n)
       PROVE  agent[t] \in DhcpAgents
  BY <1>11 DEF AddNetwork, AddFails, PlaceInv
<1> QED
  BY <1>1, <1>2, <1>4, <1>5, <1>6, <1>7, <1>8, <1>9, <1>10, <1>11 DEF Next, Step

LEMMA PlaceStep == TypeOK /\ PlaceInv /\ [Next]_vars => PlaceInv'
<1> SUFFICES ASSUME TypeOK, PlaceInv, [Next]_vars PROVE PlaceInv'
  OBVIOUS
<1> USE DEF TypeOK, PlaceInv, server, run, Goto, Take
<1>1. CASE UNCHANGED vars
  BY <1>1 DEF vars
<1>2. ASSUME NEW n \in Networks, CreateNetwork(n) \/ DeleteNetwork(n) PROVE PlaceInv'
  BY <1>2 DEF CreateNetwork, DeleteNetwork
<1>3. ASSUME NEW t \in Tools, Start(t) \/ ListFails(t) PROVE PlaceInv'
  BY <1>3 DEF Start, ListFails
<1>4. ASSUME NEW t \in Tools, ListNetworks(t) \/ ListAgents(t) PROVE PlaceInv'
  BY <1>4 DEF ListNetworks, ListAgents
<1>5. ASSUME NEW t \in Tools, NEW a \in DhcpAgents, ListAgent(t, a) PROVE PlaceInv'
  BY <1>5 DEF ListAgent
<1>6. ASSUME NEW t \in Tools, NEW n \in Networks,
             AddNetwork(t, n) \/ AddRefused(t, n) \/ AddFails(t, n)
      PROVE  PlaceInv'
  BY <1>6 DEF AddNetwork, AddRefused, AddFails
<1>7. ASSUME NEW t \in Tools, AgentDone(t) \/ End(t) PROVE PlaceInv'
  BY <1>7 DEF AgentDone, End
<1> QED
  BY <1>1, <1>2, <1>3, <1>4, <1>5, <1>6, <1>7 DEF Next, Step

\* The types of the runs' state (TypeOK), for any controllers, agents and networks.
THEOREM TypeCorrect == Spec => []TypeOK
  BY TypeInit, TypeStep, PlaceStep, PTL DEF Spec

-----------------------------------------------------------------------------
(* Replication                                                              *)

Settled(t, n, a) == <<n, a>> \in carried \/ <<n, a>> \in skipped[t]
ToDo(t, n, a) == pc[t] = "add" /\ a = agent[t] /\ n \in missing[t]

LoopInvOf(t) ==
    pc[t] \in {"listAgent", "add", "done"} =>
        \A n \in wanted[t] \intersect networks, a \in DhcpAgents \ agents[t] :
            Settled(t, n, a) \/ ToDo(t, n, a)

LoopInv == \A t \in Tools : LoopInvOf(t)

\* What others do: nothing in the run changes, pairs only go with their network,
\* and no network of the list appears.
LEMMA LoopKept ==
    ASSUME NEW t \in Tools, LoopInvOf(t),
           /\ pc'[t] = pc[t] /\ agent'[t] = agent[t] /\ missing'[t] = missing[t]
           /\ wanted'[t] = wanted[t] /\ agents'[t] = agents[t] /\ skipped'[t] = skipped[t],
           wanted[t] \intersect networks' \subseteq networks,
           \A n \in networks', a \in DhcpAgents : <<n, a>> \in carried => <<n, a>> \in carried'
    PROVE  LoopInvOf(t)'
  BY DEF LoopInvOf, Settled, ToDo

LEMMA LoopServer ==
    ASSUME TypeOK, PlaceInv, LoopInv, NEW n \in Networks,
           CreateNetwork(n) \/ DeleteNetwork(n)
    PROVE  LoopInv'
<1>1. SUFFICES ASSUME NEW t \in Tools PROVE LoopInvOf(t)'
  BY DEF LoopInv
<1>2. UNCHANGED <<pc, wanted, agents, agent, missing, skipped>>
  BY DEF CreateNetwork, DeleteNetwork, run
<1>3. wanted[t] \intersect networks' \subseteq networks
  BY DEF CreateNetwork, DeleteNetwork, PlaceInv
<1>4. \A m \in networks', a \in DhcpAgents : <<m, a>> \in carried => <<m, a>> \in carried'
  BY DEF CreateNetwork, DeleteNetwork
<1> QED
  BY <1>2, <1>3, <1>4, LoopKept DEF LoopInv

\* A run's step is none of another's business: it only adds.
LEMMA LoopOthers ==
    ASSUME TypeOK, LoopInv, NEW t \in Tools, Step(t) \/ ListFails(t),
           NEW u \in Tools \ {t}
    PROVE  LoopInvOf(u)'
<1> USE DEF server, Goto, Take
<1>1. networks' = networks /\ carried \subseteq carried'
  BY DEF Step, Start, ListNetworks, ListAgents, ListAgent, ListFails, AddNetwork, AddRefused,
         AddFails, AgentDone, End
<1>2. pc'[u] = pc[u] /\ missing'[u] = missing[u]
  BY DEF Step, Start, ListNetworks, ListAgents, ListAgent, ListFails, AddNetwork, AddRefused,
         AddFails, AgentDone, End, TypeOK
<1>3. agent'[u] = agent[u] /\ wanted'[u] = wanted[u]
  BY DEF Step, Start, ListNetworks, ListAgents, ListAgent, ListFails, AddNetwork, AddRefused,
         AddFails, AgentDone, End, TypeOK
<1>4. agents'[u] = agents[u] /\ skipped'[u] = skipped[u]
  BY DEF Step, Start, ListNetworks, ListAgents, ListAgent, ListFails, AddNetwork, AddRefused,
         AddFails, AgentDone, End, TypeOK
<1> QED
  BY <1>1, <1>2, <1>3, <1>4, LoopKept DEF LoopInv

LEMMA LoopOwn ==
    ASSUME TypeOK, PlaceInv, LoopInv, NEW t \in Tools, Step(t) \/ ListFails(t)
    PROVE  LoopInvOf(t)'
<1> USE DEF LoopInv, LoopInvOf, Settled, ToDo, TypeOK, server, Goto
<1>1. CASE Start(t) \/ ListNetworks(t) \/ ListFails(t)
  BY <1>1 DEF Start, ListNetworks, ListFails
<1>2. CASE ListAgents(t)
  BY <1>2 DEF ListAgents
<1>3. ASSUME NEW a \in DhcpAgents, ListAgent(t, a) PROVE LoopInvOf(t)'
  BY <1>3 DEF ListAgent, OnAgent
<1>4. ASSUME NEW n \in Networks, AddNetwork(t, n) PROVE LoopInvOf(t)'
  BY <1>4 DEF AddNetwork, Take
<1>5. ASSUME NEW n \in Networks, AddRefused(t, n) PROVE LoopInvOf(t)'
  BY <1>5 DEF AddRefused, Take, Addable
<1>6. ASSUME NEW n \in Networks, AddFails(t, n) PROVE LoopInvOf(t)'
  <2>1. /\ pc[t] = "add" /\ pc' = pc /\ wanted' = wanted /\ agents' = agents /\ agent' = agent
        /\ networks' = networks /\ missing'[t] = missing[t] \ {n} /\ n \in missing[t]
        /\ carried \subseteq carried'
    BY <1>6 DEF AddFails, Take
  <2>2. /\ skipped[t] \subseteq skipped'[t]
        /\ <<n, agent[t]>> \in carried' \/ <<n, agent[t]>> \in skipped'[t]
    BY <1>6 DEF AddFails
  <2>3. ASSUME NEW m \in wanted[t] \intersect networks, NEW a \in DhcpAgents \ agents[t]
        PROVE  Settled(t, m, a)' \/ ToDo(t, m, a)'
    <3>1. Settled(t, m, a) \/ ToDo(t, m, a)
      BY <2>1, <2>3
    <3>2. CASE m = n /\ a = agent[t]
      BY <2>2, <3>2
    <3>3. CASE ~ (m = n /\ a = agent[t])
      BY <2>1, <2>2, <3>1, <3>3
    <3> QED
      BY <3>2, <3>3
  <2> QED
    BY <2>1, <2>3
<1>7. CASE AgentDone(t)
  BY <1>7 DEF AgentDone
<1>8. CASE End(t)
  BY <1>8 DEF End
<1> QED
  BY <1>1, <1>2, <1>3, <1>4, <1>5, <1>6, <1>7, <1>8 DEF Step

LEMMA LoopStep == TypeOK /\ PlaceInv /\ LoopInv /\ [Next]_vars => LoopInv'
<1> SUFFICES ASSUME TypeOK, PlaceInv, LoopInv, [Next]_vars PROVE LoopInv'
  OBVIOUS
<1>1. CASE UNCHANGED vars
  BY <1>1 DEF vars, server, run, LoopInv, LoopInvOf, Settled, ToDo
<1>2. ASSUME NEW t \in Tools, Step(t) \/ ListFails(t) PROVE LoopInv'
  BY <1>2, LoopOthers, LoopOwn DEF LoopInv
<1> QED
  BY <1>1, <1>2, LoopServer DEF Next

\* A run that ended has replicated its networks but for what it failed to add
\* (ReplicatedUnlessSkipped), whatever other runs and users did meanwhile.
THEOREM Replicated == Spec => []ReplicatedUnlessSkipped
<1>1. Init => LoopInv
  BY DEF Init, LoopInv, LoopInvOf
<1>2. PlaceInv /\ LoopInv => ReplicatedUnlessSkipped
  BY DEF PlaceInv, LoopInv, LoopInvOf, Settled, ToDo, ReplicatedUnlessSkipped
<1> QED
  BY TypeInit, TypeStep, PlaceStep, LoopStep, <1>1, <1>2, PTL DEF Spec
=============================================================================
