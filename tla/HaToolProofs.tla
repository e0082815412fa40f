---------------------------- MODULE HaToolProofs ----------------------------
(***************************************************************************)
(* Proofs about HaTool, for any runs, agents and routers and any number of *)
(* faults.                                                                 *)
(*                                                                         *)
(* The types need one fact about the loop over the pairs, that i never     *)
(* exceeds the turns taken, so that both indices stay inside of the list.  *)
(* That no router is forgotten is inductive with the types: a router that  *)
(* loses its host is at that moment in the hands of the run that took it,  *)
(* and that run lets go of it only when it has a host or is counted lost.  *)
(* That a migration leaves no router on an offline agent follows from what *)
(* is still on the lists of each run: every router on an offline agent is. *)
(* That a rebalancing evens its pairs follows from counts and lists that   *)
(* are true inside of a turn, and from the turns' being of separate pairs  *)
(* but for the two of one pair, of which one finds nothing to move.        *)
(***************************************************************************)
EXTENDS HaTool, FiniteSetTheorems, TLAPS

-----------------------------------------------------------------------------
(* Type correctness                                                         *)

\* i is incremented in no more turns than there were.
PosInv == \A t \in Tools : pos[t] <= turn[t]

\* Inside of migrate_router there is a router in hand, and an agent to give it to.
HandInv ==
    \A t \in Tools :
        /\ pc[t] \in InMigrateRouter => router[t] \in Routers
        /\ pc[t] \in InMigrateRouter \union {"pick"} => target[t] \in Agents

TInv == TypeOK /\ PosInv /\ HandInv

LEMMA TypeInit == Init => TInv
<1> SUFFICES ASSUME Init PROVE TInv
  OBVIOUS
<1>1. faults \in 0..MaxFaults /\ flaps \in 0..MaxFlaps /\ polls \in [Tools -> 0..Delay]
  BY BoundsAssumption DEF BoundsAssumption, Init
<1>2. /\ alive \in [Agents -> BOOLEAN]
      /\ host \in [Routers -> Agents \union {NoAgent}]
      /\ start \in [Routers -> Agents]
      /\ lost \in SUBSET Routers
  BY DEF Init
<1>3. /\ pc \in [Tools -> Pc]
      /\ stage \in [Tools -> 0..3]
      /\ dead \in [Tools -> SUBSET Agents]
      /\ live \in [Tools -> SUBSET Agents]
      /\ agents \in [Tools -> SUBSET Agents]
      /\ todo \in [Tools -> SUBSET Routers]
  BY DEF Init, Pc
<1>4. /\ source \in [Tools -> Agents \union {NoAgent}]
      /\ target \in [Tools -> Agents \union {NoAgent}]
      /\ router \in [Tools -> Routers \union {NoRouter}]
      /\ snap \in [Tools -> [Agents -> SUBSET Routers]]
  BY DEF Init, NoSnap
<1>5. /\ turn \in [Tools -> Nat] /\ pos \in [Tools -> Nat]
      /\ low \in [Tools -> Int] /\ high \in [Tools -> Int]
      /\ PosInv
  BY DEF Init, PosInv
<1>6. order \in [Tools -> Seq(Agents)]
  BY DEF Init
<1>7. HandInv
  BY DEF Init, HandInv, InMigrateRouter
<1> QED
  BY <1>1, <1>2, <1>3, <1>4, <1>5, <1>6, <1>7 DEF TInv, TypeOK

\* What the steps before the rebalancing leave alone.
LEMMA TypeKept ==
    ASSUME TInv, UNCHANGED <<rebalance, start>>,
           /\ alive' \in [Agents -> BOOLEAN]
           /\ host' \in [Routers -> Agents \union {NoAgent}]
           /\ pc' \in [Tools -> Pc]
           /\ stage' \in [Tools -> 0..3]
           /\ dead' \in [Tools -> SUBSET Agents]
           /\ live' \in [Tools -> SUBSET Agents]
           /\ polls' \in [Tools -> 0..Delay]
           /\ agents' \in [Tools -> SUBSET Agents]
           /\ todo' \in [Tools -> SUBSET Routers]
           /\ source' \in [Tools -> Agents \union {NoAgent}]
           /\ target' \in [Tools -> Agents \union {NoAgent}]
           /\ router' \in [Tools -> Routers \union {NoRouter}]
           /\ low' \in [Tools -> Int]
           /\ high' \in [Tools -> Int]
           /\ faults' \in 0..MaxFaults
           /\ flaps' \in 0..MaxFlaps
           /\ lost' \in SUBSET Routers
           /\ HandInv'
    PROVE  TInv'
  BY DEF TInv, TypeOK, PosInv, rebalance

\* The steps of run, the check and the migration, and what happens to a run.
LEMMA TypeStages ==
    ASSUME TInv, NEW t \in Tools,
           Start(t) \/ RunStep(t) \/ ReadFails(t) \/ CheckStep(t) \/ MigrateStep(t)
    PROVE  TInv'
<1> USE DEF TInv, TypeOK, HandInv, neutron, migration, loop, hand, rebalance, counts, counters,
            Pc, Ended, Reading, InMigrateRouter, Goto
<1>1. CASE Start(t)
  BY <1>1, TypeKept DEF Start
<1>2. ASSUME NEW k \in 1..3, NextStage(t, k) PROVE TInv'
  <2>1. Entry[k] \in Pc \ (InMigrateRouter \union {"pick"})
    BY DEF Entry
  <2>2. pc' \in [Tools -> Pc] /\ stage' \in [Tools -> 0..3]
    BY <1>2, <2>1 DEF NextStage
  <2>3. HandInv'
    BY <1>2, <2>1 DEF NextStage
  <2> QED
    BY <1>2, <2>2, <2>3, TypeKept DEF NextStage
<1>3. CASE NoMoreStages(t)
  BY <1>3, TypeKept DEF NoMoreStages
<1>4. CASE ReadFails(t)
  <2>1. faults' \in 0..MaxFaults
    BY <1>4, BoundsAssumption DEF ReadFails, Fault, BoundsAssumption
  <2>2. HandInv' /\ pc' \in [Tools -> Pc]
    BY <1>4 DEF ReadFails
  <2> QED
    BY <1>4, <2>1, <2>2, TypeKept DEF ReadFails
<1>5. CASE CheckList(t)
  BY <1>5, TypeKept DEF CheckList, DeadNow
<1>6. ASSUME NEW a \in agents[t], CheckAgent(t, a) PROVE TInv'
  BY <1>6, TypeKept DEF CheckAgent, On
<1>7. CASE CheckEnds(t)
  BY <1>7, TypeKept DEF CheckEnds
<1>8. CASE MigrateList(t)
  <2>1. polls' \in [Tools -> 0..Delay]
    BY <1>8, BoundsAssumption DEF MigrateList, BoundsAssumption
  <2>2. pc' \in [Tools -> Pc]
    BY <1>8 DEF MigrateList
  <2>3. /\ dead' \in [Tools -> SUBSET Agents]
        /\ live' \in [Tools -> SUBSET Agents]
        /\ agents' \in [Tools -> SUBSET Agents]
    BY <1>8 DEF MigrateList, DeadNow, AliveNow
  <2> QED
    BY <1>8, <2>1, <2>2, <2>3, TypeKept DEF MigrateList
<1>9. CASE Poll(t)
  <2>1. polls' \in [Tools -> 0..Delay]
    BY <1>9, BoundsAssumption DEF Poll, BoundsAssumption
  <2>2. HandInv' /\ pc' \in [Tools -> Pc]
    BY <1>9 DEF Poll
  <2> QED
    BY <1>9, <2>1, <2>2, TypeKept DEF Poll
<1>10. CASE DelayOver(t)
  BY <1>10, TypeKept DEF DelayOver
<1>11. ASSUME NEW a \in agents[t], TakeAgent(t, a) PROVE TInv'
  BY <1>11, TypeKept DEF TakeAgent, On
<1>12. CASE AgentsDone(t)
  BY <1>12, TypeKept DEF AgentsDone
<1>13. ASSUME NEW r \in todo[t], NEW a \in live[t], TakeRouter(t, r, a) PROVE TInv'
  BY <1>13, TypeKept DEF TakeRouter
<1>14. CASE NoneAlive(t)
  BY <1>14, TypeKept DEF NoneAlive
<1>15. CASE RoutersDone(t)
  BY <1>15, TypeKept DEF RoutersDone
<1> QED
  BY <1>1, <1>2, <1>3, <1>4, <1>5, <1>6, <1>7, <1>8, <1>9, <1>10, <1>11, <1>12, <1>13,
     <1>14, <1>15 DEF RunStep, CheckStep, MigrateStep

\* The calls of migrate_router, and a kill among them.
LEMMA TypeMigrateRouter ==
    ASSUME TInv, NEW t \in Tools, MigrateRouter(t) \/ Kill(t)
    PROVE  TInv'
<1> USE DEF TInv, TypeOK, HandInv, neutron, migration, loop, hand, rebalance, counts, counters,
            Pc, Ended, Reading, InMigrateRouter
<1>1. /\ pc[t] \in {"remove", "verify", "add", "confirm"} \/ Kill(t)
      /\ Caller(t) \in Pc
  BY DEF MigrateRouter, RemoveRouter, RemoveRefused, RemoveFails, VerifyRemoved, VerifyFails,
         AddRouter, AddRefused, AddFails, Confirm, ConfirmFails, Caller
<1>2. ASSUME Fault PROVE faults' \in 0..MaxFaults
  BY <1>2, BoundsAssumption DEF Fault, BoundsAssumption
<1>3. [host EXCEPT ![router[t]] = NoAgent] \in [Routers -> Agents \union {NoAgent}]
  OBVIOUS
<1>4. [host EXCEPT ![router[t]] = target[t]] \in [Routers -> Agents \union {NoAgent}]
  OBVIOUS
<1>5. lost \union ({router[t]} \intersect Unhosted) \in SUBSET Routers
  BY DEF Unhosted
<1>6. CASE Kill(t)
  BY <1>2, <1>5, <1>6, TypeKept DEF Kill
<1>7. CASE RemoveRouter(t)
  <2>1. pc' \in [Tools -> Pc] /\ HandInv'
    BY <1>7 DEF RemoveRouter, Proceed
  <2> QED
    BY <1>3, <1>7, <2>1, TypeKept DEF RemoveRouter, Unhost, Proceed
<1>8. CASE RemoveRefused(t)
  BY <1>1, <1>8, TypeKept DEF RemoveRefused, Raise, Caller
<1>9. CASE RemoveFails(t)
  <2>1. CASE Proceed(t, "verify") /\ UNCHANGED host
    BY <1>2, <1>9, <2>1, TypeKept DEF RemoveFails, Proceed
  <2>2. CASE Raise(t) /\ UNCHANGED <<host, lost>>
    BY <1>1, <1>2, <1>9, <2>2, TypeKept DEF RemoveFails, Raise, Caller
  <2>3. CASE Raise(t) /\ Unhost(t) /\ lost' = lost \union {router[t]}
    <3>1. lost' \in SUBSET Routers
      BY <1>9, <2>3 DEF RemoveFails
    <3> QED
      BY <1>1, <1>2, <1>3, <1>9, <2>3, <3>1, TypeKept DEF RemoveFails, Raise, Unhost, Caller
  <2> QED
    BY <1>9, <2>1, <2>2, <2>3 DEF RemoveFails
<1>10. CASE VerifyRemoved(t)
  BY <1>10, TypeKept DEF VerifyRemoved, Proceed
<1>11. CASE VerifyFails(t)
  BY <1>1, <1>2, <1>5, <1>11, TypeKept DEF VerifyFails, Raise, Caller
<1>12. CASE AddRouter(t)
  BY <1>4, <1>12, TypeKept DEF AddRouter, Rehost, Proceed
<1>13. CASE AddRefused(t)
  BY <1>1, <1>13, TypeKept DEF AddRefused, Raise, Caller
<1>14. CASE AddFails(t)
  <2>1. lost \union {router[t]} \in SUBSET Routers
    BY <1>14 DEF AddFails
  <2>2. CASE pc' = [pc EXCEPT ![t] = "confirm"]
    BY <1>2, <1>14, <2>1, <2>2, TypeKept DEF AddFails, Raise, Caller
  <2>3. CASE Raise(t) /\ lost' = lost \union {router[t]} /\ UNCHANGED host
    BY <1>1, <1>2, <1>14, <2>1, <2>3, TypeKept DEF AddFails, Raise, Caller
  <2>4. CASE Raise(t) /\ Rehost(t) /\ UNCHANGED lost
    BY <1>1, <1>2, <1>4, <1>14, <2>4, TypeKept DEF AddFails, Raise, Rehost, Caller
  <2> QED
    BY <1>14, <2>2, <2>3, <2>4 DEF AddFails
<1>15. CASE Confirm(t)
  <2>1. low' \in [Tools -> Int] /\ high' \in [Tools -> Int]
    BY <1>15 DEF Confirm
  <2> QED
    BY <1>1, <1>15, <2>1, TypeKept DEF Confirm, Caller
<1>16. CASE ConfirmFails(t)
  BY <1>1, <1>2, <1>16, TypeKept DEF ConfirmFails, Raise, Caller
<1> QED
  BY <1>6, <1>7, <1>8, <1>9, <1>10, <1>11, <1>12, <1>13, <1>14, <1>15, <1>16 DEF MigrateRouter

-----------------------------------------------------------------------------
(* Rebalancing                                                              *)

\* What the steps of the rebalancing leave alone.
LEMMA TypeRebalanceKept ==
    ASSUME TInv,
           UNCHANGED <<neutron, stage, migration, counters>>,
           /\ pc' \in [Tools -> Pc]
           /\ agents' \in [Tools -> SUBSET Agents]
           /\ todo' \in [Tools -> SUBSET Routers]
           /\ source' \in [Tools -> Agents \union {NoAgent}]
           /\ target' \in [Tools -> Agents \union {NoAgent}]
           /\ router' \in [Tools -> Routers \union {NoRouter}]
           /\ snap' \in [Tools -> [Agents -> SUBSET Routers]]
           /\ order' \in [Tools -> Seq(Agents)]
           /\ turn' \in [Tools -> Nat]
           /\ pos' \in [Tools -> Nat]
           /\ low' \in [Tools -> Int]
           /\ high' \in [Tools -> Int]
           /\ PosInv'
           /\ HandInv'
    PROVE  TInv'
  BY DEF TInv, TypeOK, neutron, migration, counters

\* Any arrangement of the agents is a sequence of agents.
LEMMA OrdersAreSequences == Orders \subseteq Seq(Agents)
<1>1. Cardinality(Agents) \in Nat
  BY BoundsAssumption, FS_CardinalityType DEF BoundsAssumption
<1> QED
  BY <1>1 DEF Orders

\* Both ends of a pair are agents: i has not left the list.
LEMMA PairsAreAgents ==
    ASSUME TInv, NEW t \in Tools, MorePairs(t)
    PROVE  LowAgent(t) \in Agents /\ HighAgent(t) \in Agents
<1>1. order[t] \in Seq(Agents) /\ pos[t] \in Nat /\ turn[t] \in Nat /\ pos[t] <= turn[t]
  BY DEF TInv, TypeOK, PosInv
<1>2. Len(order[t]) \in Nat /\ turn[t] < Len(order[t])
  BY <1>1 DEF MorePairs
<1>3. pos[t] + 1 \in 1..Len(order[t]) /\ Len(order[t]) - pos[t] \in 1..Len(order[t])
  BY <1>1, <1>2
<1> QED
  BY <1>1, <1>3 DEF LowAgent, HighAgent

LEMMA TypeTakePair ==
    ASSUME TInv, NEW t \in Tools, TakePair(t)
    PROVE  TInv'
<1>1. LowAgent(t) \in Agents /\ HighAgent(t) \in Agents
  BY PairsAreAgents DEF TakePair
<1>2. snap[t] \in [Agents -> SUBSET Routers]
  BY DEF TInv, TypeOK
<1>3. \A a \in Agents : snap[t][a] \in SUBSET Routers
  BY <1>2
<1>4. \A a \in Agents : Cardinality(snap[t][a]) \in Int
  <2>1. SUFFICES ASSUME NEW a \in Agents PROVE Cardinality(snap[t][a]) \in Int
    OBVIOUS
  <2>2. IsFiniteSet(snap[t][a])
    BY <1>3, BoundsAssumption, FS_Subset DEF BoundsAssumption
  <2> QED
    BY <2>2, FS_CardinalityType
<1>5. low' \in [Tools -> Int] /\ high' \in [Tools -> Int]
  BY <1>1, <1>4 DEF TakePair, TInv, TypeOK
<1>6. todo' \in [Tools -> SUBSET Routers]
  BY <1>1, <1>3 DEF TakePair, TInv, TypeOK
<1>7. /\ source' \in [Tools -> Agents \union {NoAgent}]
      /\ target' \in [Tools -> Agents \union {NoAgent}]
  BY <1>1 DEF TakePair, TInv, TypeOK
<1>8. pc' \in [Tools -> Pc] /\ HandInv'
  BY <1>1 DEF TakePair, Goto, TInv, TypeOK, HandInv, Pc, InMigrateRouter
<1>9. PosInv'
  BY DEF TakePair, TInv, PosInv, rebalance
<1> QED
  BY <1>5, <1>6, <1>7, <1>8, <1>9, TypeRebalanceKept DEF TakePair, TInv, TypeOK, rebalance

\* The other steps of the rebalancing.
LEMMA TypeRebalance ==
    ASSUME TInv, NEW t \in Tools, RebalanceStep(t)
    PROVE  TInv'
<1> USE DEF TInv, TypeOK, HandInv, PosInv, loop, hand, rebalance, counts, Pc, InMigrateRouter, Goto
<1>1. CASE RebalanceList(t)
  <2>1. pc' \in [Tools -> Pc] /\ HandInv'
    BY <1>1 DEF RebalanceList, Reading
  <2>2. agents' \in [Tools -> SUBSET Agents] /\ start' \in [Routers -> Agents \union {NoAgent}]
    BY <1>1 DEF RebalanceList
  <2> QED
    BY <1>1, <2>1, <2>2 DEF RebalanceList, neutron, migration, counters
<1>2. ASSUME NEW a \in agents[t], SnapAgent(t, a) PROVE TInv'
  <2>1. snap' \in [Tools -> [Agents -> SUBSET Routers]]
    <3>1. [snap[t] EXCEPT ![a] = On(a)] \in [Agents -> SUBSET Routers]
      BY DEF On
    <3>2. snap' = [snap EXCEPT ![t] = [snap[t] EXCEPT ![a] = On(a)]]
      BY <1>2 DEF SnapAgent
    <3> QED
      BY <3>1, <3>2
  <2> QED
    BY <1>2, <2>1, TypeRebalanceKept DEF SnapAgent
<1>3. ASSUME NEW p \in Orders, Arrange(t, p) PROVE TInv'
  <2>1. order' \in [Tools -> Seq(Agents)]
    BY <1>3, OrdersAreSequences DEF Arrange
  <2>2. turn' \in [Tools -> Nat] /\ pos' \in [Tools -> Nat] /\ PosInv'
    BY <1>3 DEF Arrange
  <2>3. pc' \in [Tools -> Pc] /\ HandInv'
    BY <1>3 DEF Arrange
  <2> QED
    BY <1>3, <2>1, <2>2, <2>3, TypeRebalanceKept DEF Arrange
<1>4. CASE TakePair(t)
  BY <1>4, TypeTakePair
<1>5. CASE SamePair(t)
  <2>1. turn' \in [Tools -> Nat] /\ PosInv'
    BY <1>5 DEF SamePair
  <2> QED
    BY <1>5, <2>1, TypeRebalanceKept DEF SamePair
<1>6. CASE PairsDone(t)
  BY <1>6, TypeRebalanceKept DEF PairsDone
<1>7. ASSUME NEW r \in todo[t], PickRouter(t, r) PROVE TInv'
  <2>1. low' \in [Tools -> Int] /\ high' \in [Tools -> Int]
    BY <1>7 DEF PickRouter
  <2>2. router' \in [Tools -> Routers \union {NoRouter}] /\ pc' \in [Tools -> Pc] /\ HandInv'
    BY <1>7 DEF PickRouter
  <2> QED
    BY <1>7, <2>1, <2>2, TypeRebalanceKept DEF PickRouter
<1>8. CASE PairDone(t)
  <2>1. turn' \in [Tools -> Nat] /\ pos' \in [Tools -> Nat] /\ PosInv'
    BY <1>8 DEF PairDone
  <2> QED
    BY <1>8, <2>1, TypeRebalanceKept DEF PairDone
<1> QED
  BY <1>1, <1>2, <1>3, <1>4, <1>5, <1>6, <1>7, <1>8 DEF RebalanceStep

LEMMA TypeStep == TInv /\ [Next]_vars => TInv'
<1> SUFFICES ASSUME TInv, [Next]_vars PROVE TInv'
  OBVIOUS
<1>1. CASE UNCHANGED vars
  BY <1>1 DEF vars, neutron, migration, loop, hand, rebalance, counts, counters, TInv, TypeOK,
              PosInv, HandInv
<1>2. ASSUME NEW a \in Agents, Flap(a) PROVE TInv'
  <2>1. flaps' \in 0..MaxFlaps
    BY <1>2, BoundsAssumption DEF Flap, BoundsAssumption, TInv, TypeOK
  <2>2. alive' \in [Agents -> BOOLEAN]
    BY <1>2 DEF Flap, TInv, TypeOK
  <2> QED
    BY <1>2, <2>1, <2>2, TypeKept
       DEF Flap, migration, loop, hand, rebalance, counts, TInv, TypeOK, HandInv
<1> QED
  BY <1>1, <1>2, TypeStages, TypeMigrateRouter, TypeRebalance DEF Next, Step

\* The types of the tool's state (TypeOK), for any runs, agents and routers.
THEOREM TypeCorrect == Spec => []TypeOK
<1>1. TInv => TypeOK
  BY DEF TInv
<1> QED
  BY TypeInit, TypeStep, <1>1, PTL DEF Spec

-----------------------------------------------------------------------------
(* No router is forgotten                                                   *)

IsHeld(r) == \E t \in Tools : pc[t] \in {"verify", "add"} /\ router[t] = r

\* A router without a host is lost or held, and the lost ones have been paid for.
LostInv ==
    /\ \A r \in Routers : host[r] = NoAgent => r \in lost \/ IsHeld(r)
    /\ Cardinality(lost) <= faults

LEMMA LostInit == Init => LostInv
<1> SUFFICES ASSUME Init PROVE LostInv
  OBVIOUS
<1>1. Cardinality(lost) <= faults
  BY FS_EmptySet DEF Init
<1>2. \A r \in Routers : host[r] # NoAgent
  BY NoAgentAssumption DEF Init, NoAgentAssumption
<1> QED
  BY <1>1, <1>2 DEF LostInv

\* A failure may cost one router.
LEMMA LostGrows ==
    ASSUME TypeOK, LostInv, Fault
    PROVE  /\ Cardinality(lost) <= faults'
           /\ \A r : Cardinality(lost \union {r}) <= faults'
<1>1. lost \subseteq Routers /\ faults \in Nat
  BY DEF TypeOK
<1>2. IsFiniteSet(lost)
  BY <1>1, BoundsAssumption, FS_Subset DEF BoundsAssumption
<1>3. Cardinality(lost) \in Nat
  BY <1>2, FS_CardinalityType
<1>4. Cardinality(lost) <= faults /\ faults' = faults + 1
  BY DEF Fault, LostInv
<1>5. ASSUME NEW r PROVE Cardinality(lost \union {r}) <= faults'
  <2>1. Cardinality(lost \union {r}) <= Cardinality(lost) + 1
    BY <1>2, <1>3, FS_AddElement
  <2>2. Cardinality(lost \union {r}) \in Nat
    BY <1>2, FS_AddElement, FS_CardinalityType
  <2> QED
    BY <1>1, <1>3, <1>4, <2>1, <2>2
<1>6. Cardinality(lost) <= faults'
  BY <1>1, <1>3, <1>4
<1> QED
  BY <1>5, <1>6

\* Steps that move no router, and leave alone whoever holds one.
LEMMA LostKept ==
    ASSUME LostInv, TypeOK, UNCHANGED <<host, lost>>, faults' \in {faults, faults + 1},
           NEW t \in Tools, pc[t] \notin {"verify", "add"},
           \A u \in Tools \ {t} : pc'[u] = pc[u] /\ router'[u] = router[u]
    PROVE  LostInv'
<1>1. Cardinality(lost') <= faults'
  <2>1. faults \in Nat /\ Cardinality(lost) \in Nat
    BY BoundsAssumption, FS_Subset, FS_CardinalityType DEF BoundsAssumption, TypeOK
  <2> QED
    BY <2>1 DEF LostInv
<1>2. ASSUME NEW r \in Routers, host'[r] = NoAgent PROVE r \in lost' \/ IsHeld(r)'
  BY <1>2 DEF LostInv, IsHeld
<1> QED
  BY <1>1, <1>2 DEF LostInv

\* Every step outside of migrate_router's calls is such a step.
LEMMA LostOutside ==
    ASSUME TInv, LostInv, NEW t \in Tools,
           Start(t) \/ RunStep(t) \/ ReadFails(t) \/ CheckStep(t) \/ MigrateStep(t)
             \/ RebalanceStep(t)
    PROVE  LostInv'
<1> USE DEF neutron, hand, counters
<1>1. /\ UNCHANGED <<host, lost>>
      /\ faults' \in {faults, faults + 1}
  BY DEF Start, RunStep, ReadFails, CheckStep, MigrateStep, RebalanceStep, NextStage, NoMoreStages,
         Fault, CheckList, CheckAgent, CheckEnds, MigrateList, Poll, DelayOver, TakeAgent, AgentsDone,
         TakeRouter, NoneAlive, RoutersDone, RebalanceList, SnapAgent, Arrange, TakePair, SamePair,
         PairsDone, PickRouter, PairDone
<1>2. /\ pc[t] \notin {"verify", "add"}
      /\ \E x : pc' = [pc EXCEPT ![t] = x]
  BY DEF Start, RunStep, ReadFails, CheckStep, MigrateStep, RebalanceStep, NextStage, NoMoreStages,
         Reading, CheckList, CheckAgent, CheckEnds, MigrateList, Poll, DelayOver, TakeAgent, AgentsDone,
         TakeRouter, NoneAlive, RoutersDone, RebalanceList, SnapAgent, Arrange, TakePair, SamePair,
         PairsDone, PickRouter, PairDone, Goto
<1>3. router' = router \/ \E y : router' = [router EXCEPT ![t] = y]
  BY DEF Start, RunStep, ReadFails, CheckStep, MigrateStep, RebalanceStep, NextStage, NoMoreStages,
         CheckList, CheckAgent, CheckEnds, MigrateList, Poll, DelayOver, TakeAgent, AgentsDone,
         TakeRouter, NoneAlive, RoutersDone, RebalanceList, SnapAgent, Arrange, TakePair, SamePair,
         PairsDone, PickRouter, PairDone
<1>4. \A u \in Tools \ {t} : pc'[u] = pc[u] /\ router'[u] = router[u]
  BY <1>2, <1>3 DEF TInv, TypeOK
<1> QED
  BY <1>1, <1>2, <1>4, LostKept DEF TInv

\* A holder other than t holds on; so does t with its pc where it is held.
LEMMA HeldByOther ==
    ASSUME TypeOK, NEW t \in Tools, NEW r,
           \A u \in Tools \ {t} : pc'[u] = pc[u] /\ router'[u] = router[u],
           IsHeld(r), ~ IsHeld(r)'
    PROVE  pc[t] \in {"verify", "add"} /\ router[t] = r
  BY DEF IsHeld

\* Inside of migrate_router only run t moves a router, the one in its hand, and
\* when it lets that one go, it has a host or is lost.
LEMMA LostMigrateRouter ==
    ASSUME TInv, LostInv, NEW t \in Tools,
           \A u \in Tools \ {t} : pc'[u] = pc[u] /\ router'[u] = router[u],
           \A r \in Routers \ {router[t]} : host'[r] = host[r],
           lost \subseteq lost',
           \/ host'[router[t]] # NoAgent
           \/ router[t] \in lost'
           \/ pc'[t] \in {"verify", "add"} /\ router'[t] = router[t]
           \/ pc[t] \notin {"verify", "add"} /\ host'[router[t]] = host[router[t]],
           Cardinality(lost') <= faults'
    PROVE  LostInv'
<1>1. ASSUME NEW r \in Routers, host'[r] = NoAgent PROVE r \in lost' \/ IsHeld(r)'
  <2>1. CASE r # router[t]
    <3>1. host[r] = NoAgent
      BY <1>1, <2>1
    <3>2. r \in lost \/ IsHeld(r)
      BY <3>1 DEF LostInv
    <3> QED
      BY <2>1, <3>2, HeldByOther DEF TInv
  <2>2. CASE r = router[t] /\ pc'[t] \in {"verify", "add"} /\ router'[t] = router[t]
    BY <2>2 DEF IsHeld
  <2>3. CASE r = router[t] /\ pc[t] \notin {"verify", "add"} /\ host'[router[t]] = host[router[t]]
    <3>1. r \in lost \/ IsHeld(r)
      BY <1>1, <2>3 DEF LostInv
    <3> QED
      BY <2>3, <3>1, HeldByOther DEF TInv
  <2> QED
    BY <1>1, <2>1, <2>2, <2>3
<1> QED
  BY <1>1 DEF LostInv

LEMMA LostCalls ==
    ASSUME TInv, LostInv, NEW t \in Tools, MigrateRouter(t) \/ Kill(t)
    PROVE  LostInv'
<1> USE DEF neutron, hand, counters
<1>1. \A u \in Tools \ {t} : pc'[u] = pc[u] /\ router'[u] = router[u]
  <2>1. (\E x : pc' = [pc EXCEPT ![t] = x]) /\ (\E y : router' = [router EXCEPT ![t] = y] \/ router' = router)
    BY DEF MigrateRouter, RemoveRouter, RemoveRefused, RemoveFails, VerifyRemoved, VerifyFails,
           AddRouter, AddRefused, AddFails, Confirm, ConfirmFails, Kill, Raise, Proceed
  <2> QED
    BY <2>1 DEF TInv, TypeOK
<1>2. \A r \in Routers \ {router[t]} : host'[r] = host[r]
  <2>1. host' = host \/ \E a : host' = [host EXCEPT ![router[t]] = a]
    BY DEF MigrateRouter, RemoveRouter, RemoveRefused, RemoveFails, VerifyRemoved, VerifyFails,
           AddRouter, AddRefused, AddFails, Confirm, ConfirmFails, Kill, Unhost, Rehost
  <2> QED
    BY <2>1 DEF TInv, TypeOK
<1>3. faults \in Nat /\ (UNCHANGED <<lost, faults>> => Cardinality(lost') <= faults')
  BY DEF TInv, TypeOK, LostInv
<1>4. Fault /\ lost' \in {lost, lost \union {router[t]}} => Cardinality(lost') <= faults'
  <2> SUFFICES ASSUME Fault, lost' \in {lost, lost \union {router[t]}}
               PROVE  Cardinality(lost') <= faults'
    OBVIOUS
  <2>1. TypeOK
    BY DEF TInv
  <2>2. Cardinality(lost) <= faults' /\ Cardinality(lost \union {router[t]}) <= faults'
    BY <2>1, LostGrows
  <2> QED
    BY <2>2
<1>5. lost \union ({router[t]} \intersect Unhosted) \in {lost, lost \union {router[t]}}
  OBVIOUS
<1>6. pc[t] \in InMigrateRouter => router[t] \in Routers /\ target[t] \in Agents
  BY DEF TInv, HandInv
<1>7. \A r \in Routers : host[r] # NoAgent \/ r \in Unhosted
  BY DEF Unhosted
<1>8. pc \in [Tools -> Pc] /\ router \in [Tools -> Routers \union {NoRouter}]
      /\ host \in [Routers -> Agents \union {NoAgent}]
  BY DEF TInv, TypeOK
<1>9. CASE RemoveRouter(t)
  BY <1>1, <1>2, <1>3, <1>8, <1>9, LostMigrateRouter DEF RemoveRouter, Proceed
<1>10. CASE RemoveRefused(t)
  BY <1>1, <1>2, <1>3, <1>10, LostMigrateRouter DEF RemoveRefused, Raise
<1>11. CASE RemoveFails(t)
  <2>1. Cardinality(lost') <= faults'
    BY <1>4, <1>11 DEF RemoveFails, Proceed, Raise
  <2>2. CASE Proceed(t, "verify") /\ UNCHANGED host
    BY <1>1, <1>2, <1>8, <1>11, <2>1, <2>2, LostMigrateRouter DEF RemoveFails, Proceed
  <2>3. CASE Raise(t) /\ UNCHANGED <<host, lost>>
    BY <1>1, <1>2, <1>11, <2>1, <2>3, LostMigrateRouter DEF RemoveFails
  <2>4. CASE Raise(t) /\ Unhost(t) /\ lost' = lost \union {router[t]}
    BY <1>1, <1>2, <1>11, <2>1, <2>4, LostMigrateRouter DEF RemoveFails
  <2> QED
    BY <1>11, <2>2, <2>3, <2>4 DEF RemoveFails
<1>12. CASE VerifyRemoved(t)
  BY <1>1, <1>2, <1>3, <1>8, <1>12, LostMigrateRouter DEF VerifyRemoved, Proceed
<1>13. CASE VerifyFails(t)
  BY <1>1, <1>2, <1>4, <1>5, <1>6, <1>7, <1>13, LostMigrateRouter
     DEF VerifyFails, Raise, InMigrateRouter
<1>14. CASE AddRouter(t)
  <2>1. router[t] \in Routers /\ target[t] \in Agents
    BY <1>6, <1>14 DEF AddRouter, InMigrateRouter
  <2>2. host'[router[t]] = target[t]
    BY <1>8, <1>14, <2>1 DEF AddRouter, Rehost
  <2> QED
    BY <1>1, <1>2, <1>3, <1>14, <2>1, <2>2, NoAgentAssumption, LostMigrateRouter
       DEF AddRouter, Proceed, NoAgentAssumption
<1>15. CASE AddRefused(t)
  <2>1. UNCHANGED <<host, lost, faults>> /\ host[router[t]] # NoAgent
    BY <1>15 DEF AddRefused, Raise
  <2> QED
    BY <1>1, <1>2, <1>3, <2>1, LostMigrateRouter
<1>16. CASE AddFails(t)
  <2>1. Cardinality(lost') <= faults'
    BY <1>4, <1>16 DEF AddFails
  <2>2. CASE lost' = lost \union {router[t]}
    BY <1>1, <1>2, <2>1, <2>2, LostMigrateRouter
  <2>3. CASE Raise(t) /\ Rehost(t) /\ UNCHANGED lost
    <3>1. router[t] \in Routers /\ target[t] \in Agents
      BY <1>6, <1>16 DEF AddFails, InMigrateRouter
    <3>2. host'[router[t]] = target[t] /\ target[t] # NoAgent
      BY <1>8, <2>3, <3>1, NoAgentAssumption DEF Rehost, NoAgentAssumption
    <3> QED
      BY <1>1, <1>2, <2>1, <2>3, <3>2, LostMigrateRouter
  <2> QED
    BY <1>16, <2>2, <2>3 DEF AddFails
<1>17. CASE Confirm(t) \/ ConfirmFails(t)
  <2>1. UNCHANGED <<host, lost>> /\ pc[t] \notin {"verify", "add"}
    BY <1>17 DEF Confirm, ConfirmFails, Raise
  <2>2. Cardinality(lost') <= faults'
    BY <1>3, <1>4, <1>17 DEF Confirm, ConfirmFails, Raise
  <2> QED
    BY <1>1, <1>2, <2>1, <2>2, LostMigrateRouter
<1>18. CASE Kill(t)
  <2>1. UNCHANGED host /\ Fault /\ lost' = lost \union ({router[t]} \intersect Unhosted)
    BY <1>18 DEF Kill
  <2>2. Cardinality(lost') <= faults'
    BY <1>4, <1>5, <2>1
  <2>3. CASE router[t] \in Routers
    <3>1. host'[router[t]] # NoAgent \/ router[t] \in lost'
      BY <1>7, <2>1, <2>3
    <3> QED
      BY <1>1, <1>2, <2>1, <2>2, <3>1, LostMigrateRouter
  <2>4. CASE router[t] \notin Routers
    <3>1. pc[t] \notin {"verify", "add"}
      BY <1>6, <2>4 DEF InMigrateRouter
    <3> QED
      BY <1>1, <1>2, <2>1, <2>2, <3>1, LostMigrateRouter
  <2> QED
    BY <2>3, <2>4
<1> QED
  BY <1>9, <1>10, <1>11, <1>12, <1>13, <1>14, <1>15, <1>16, <1>17, <1>18 DEF MigrateRouter

LEMMA LostStep == TInv /\ LostInv /\ [Next]_vars => LostInv'
<1> SUFFICES ASSUME TInv, LostInv, [Next]_vars PROVE LostInv'
  OBVIOUS
<1>1. CASE UNCHANGED vars
  BY <1>1 DEF vars, neutron, hand, counters, LostInv, IsHeld
<1>2. ASSUME NEW a \in Agents, Flap(a) PROVE LostInv'
  BY <1>2 DEF Flap, hand, LostInv, IsHeld
<1> QED
  BY <1>1, <1>2, LostOutside, LostCalls DEF Next, Step

\* Whatever fails and however the runs interleave, a router without a host is in a
\* run's hands or lost to a failure, one router for each (NoRouterForgotten).
THEOREM RoutersAccounted == Spec => []NoRouterForgotten
<1>1. TInv /\ LostInv => NoRouterForgotten
  BY DEF LostInv, IsHeld, NoRouterForgotten, Unhosted, InHand
<1> QED
  BY TypeInit, TypeStep, LostInit, LostStep, <1>1, PTL DEF Spec
-----------------------------------------------------------------------------
(* A migration leaves no router on an offline agent                         *)

\* Each part of the script belongs to one stage, and --noop never calls migrate_router.
StageInv ==
    \A t \in Tools :
        /\ pc[t] = "idle" => stage[t] = 0
        /\ pc[t] \in {"check", "checkAgents"} => stage[t] = 1
        /\ pc[t] \in {"list", "wait", "agents", "routers"} => stage[t] = 2
        /\ pc[t] \in {"snap", "snapAgents", "pairs", "pick"} => stage[t] = 3
        /\ pc[t] \in InMigrateRouter => stage[t] \in {2, 3} /\ t \notin Noop

\* Nothing has failed and no run has come to its rebalancing.
Before == Quiet /\ \A t \in Writers : stage[t] <= 2

Searching == {"wait", "agents", "routers", "next", "done"} \union InMigrateRouter

\* Run t has still to come to the router r: to its agent, or to the router itself.
Pending(t, r) ==
    \/ host[r] \in agents[t]
    \/ /\ pc[t] \in {"routers"} \union InMigrateRouter
       /\ source[t] = host[r]
       /\ r \in todo[t] \/ (pc[t] = "remove" /\ router[t] = r)

\* What a run knows of the agents is true as long as none goes or comes, so that what
\* is on an offline agent is on the run's lists.
EvacAt(t) ==
    stage[t] = 2 /\ pc[t] \in Searching =>
        /\ \A r \in Routers : host[r] \in DeadNow => Pending(t, r)
        /\ pc[t] \in {"wait", "agents", "routers"} \union InMigrateRouter => live[t] \subseteq AliveNow
        /\ pc[t] \in InMigrateRouter => target[t] \in AliveNow
        /\ pc[t] \in {"next", "done"} => agents[t] = {}

EvacInv == Before => \A t \in Writers : EvacAt(t)

LEMMA StageInit == Init => StageInv
  BY DEF Init, StageInv, InMigrateRouter

\* A run changes its own state only, and only the calls of migrate_router move a router.
LEMMA OwnState ==
    ASSUME TInv, NEW t \in Tools, Start(t) \/ Step(t)
    PROVE  /\ UNCHANGED <<alive, flaps>>
           /\ \A u \in Tools \ {t} :
                 /\ pc'[u] = pc[u] /\ stage'[u] = stage[u] /\ agents'[u] = agents[u]
                 /\ todo'[u] = todo[u] /\ source'[u] = source[u] /\ target'[u] = target[u]
                 /\ router'[u] = router[u] /\ live'[u] = live[u]
<1> USE DEF neutron, migration, loop, hand, rebalance, counts, counters
<1>1. UNCHANGED <<alive, flaps>>
  BY DEF Start, Step, RunStep, CheckStep, MigrateStep, MigrateRouter, RebalanceStep,
         NextStage, NoMoreStages, CheckList, CheckAgent, CheckEnds, MigrateList, Poll, DelayOver,
         TakeAgent, AgentsDone, TakeRouter, NoneAlive, RoutersDone, RemoveRouter, RemoveRefused,
         RemoveFails, VerifyRemoved, VerifyFails, AddRouter, AddRefused, AddFails, Confirm,
         ConfirmFails, Raise, Proceed, RebalanceList, SnapAgent, Arrange, TakePair, SamePair,
         PairsDone, PickRouter, PairDone
<1> DEFINE Own(f, g) == g = f \/ \E x : g = [f EXCEPT ![t] = x]
<1>2. /\ Own(pc, pc') /\ Own(stage, stage') /\ Own(agents, agents') /\ Own(todo, todo')
      /\ Own(source, source') /\ Own(target, target') /\ Own(router, router')
      /\ Own(live, live')
  BY DEF Start, Step, RunStep, CheckStep, MigrateStep, MigrateRouter, RebalanceStep, Goto,
         NextStage, NoMoreStages, CheckList, CheckAgent, CheckEnds, MigrateList, Poll, DelayOver,
         TakeAgent, AgentsDone, TakeRouter, NoneAlive, RoutersDone, RemoveRouter, RemoveRefused,
         RemoveFails, VerifyRemoved, VerifyFails, AddRouter, AddRefused, AddFails, Confirm,
         ConfirmFails, Raise, Proceed, RebalanceList, SnapAgent, Arrange, TakePair, SamePair,
         PairsDone, PickRouter, PairDone
<1> QED
  BY <1>1, <1>2, SMTT(20) DEF TInv, TypeOK

\* The stage that a run is in when it comes to a part of the script.
StageAt(t, p, k) ==
    /\ p = "idle" => k = 0
    /\ p \in {"check", "checkAgents"} => k = 1
    /\ p \in {"list", "wait", "agents", "routers"} => k = 2
    /\ p \in {"snap", "snapAgents", "pairs", "pick"} => k = 3
    /\ p \in InMigrateRouter => k \in {2, 3} /\ t \notin Noop

LEMMA StageOwn ==
    ASSUME TInv, StageInv, NEW t \in Tools, Start(t) \/ Step(t)
    PROVE  StageAt(t, pc[t], stage[t])'
<1> USE DEF TInv, TypeOK, StageAt, InMigrateRouter, Goto
<1>0. StageAt(t, pc[t], stage[t])
  BY DEF StageInv
<1>1. ASSUME NEW k \in 1..3, NextStage(t, k) PROVE StageAt(t, pc[t], stage[t])'
  BY <1>1 DEF NextStage, Entry
<1>2. CASE Start(t) \/ NoMoreStages(t) \/ CheckStep(t)
  BY <1>0, <1>2, SMTT(20) DEF Start, NoMoreStages, CheckStep, CheckList, CheckAgent, CheckEnds
<1>3. CASE MigrateStep(t)
  BY <1>0, <1>3, SMTT(20) DEF MigrateStep, MigrateList, Poll, DelayOver, TakeAgent, AgentsDone, TakeRouter,
                    NoneAlive, RoutersDone
<1>4. CASE MigrateRouter(t)
  <2>1. stage[t] \in {2, 3} /\ t \notin Noop /\ UNCHANGED stage
    BY <1>0, <1>4 DEF MigrateRouter, RemoveRouter, RemoveRefused, RemoveFails, VerifyRemoved,
         VerifyFails, AddRouter, AddRefused, AddFails, Confirm, ConfirmFails, Raise, Proceed
  <2>2. pc'[t] \in InMigrateRouter \union {Caller(t)}
    BY <1>4 DEF MigrateRouter, RemoveRouter, RemoveRefused, RemoveFails, VerifyRemoved,
         VerifyFails, AddRouter, AddRefused, AddFails, Confirm, ConfirmFails, Raise, Proceed
  <2> QED
    BY <2>1, <2>2 DEF Caller
<1>5. CASE RebalanceStep(t)
  BY <1>0, <1>5 DEF RebalanceStep, RebalanceList, SnapAgent, Arrange, TakePair, SamePair,
                    PairsDone, PickRouter, PairDone, rebalance
<1> QED
  BY <1>1, <1>2, <1>3, <1>4, <1>5 DEF Step, RunStep

LEMMA StageStep == TInv /\ StageInv /\ [Next]_vars => StageInv'
<1> SUFFICES ASSUME TInv, StageInv, [Next]_vars PROVE StageInv'
  OBVIOUS
<1>1. CASE UNCHANGED vars
  BY <1>1 DEF vars, StageInv, InMigrateRouter
<1>2. ASSUME NEW a \in Agents, Flap(a) PROVE StageInv'
  BY <1>2 DEF Flap, StageInv
<1>3. ASSUME NEW t \in Tools, ReadFails(t) \/ Kill(t) PROVE StageInv'
  BY <1>3, SMTT(20) DEF ReadFails, Kill, StageInv, InMigrateRouter, TInv, TypeOK,
              neutron, migration, loop, hand, rebalance, counts
<1>4. ASSUME NEW t \in Tools, Start(t) \/ Step(t) PROVE StageInv'
  <2>1. StageAt(t, pc[t], stage[t])'
    BY <1>4, StageOwn
  <2>2. \A u \in Tools \ {t} : pc'[u] = pc[u] /\ stage'[u] = stage[u]
    BY <1>4, OwnState
  <2> QED
    BY <2>1, <2>2 DEF StageAt, StageInv
<1> QED
  BY <1>1, <1>2, <1>3, <1>4 DEF Next

\* A step of another run leaves the lists of run u true, if it moves routers only to
\* agents that are online.
LEMMA EvacOther ==
    ASSUME TypeOK, NEW t \in Tools, NEW u \in Tools \ {t}, EvacAt(u), UNCHANGED alive,
           /\ pc'[u] = pc[u] /\ stage'[u] = stage[u] /\ agents'[u] = agents[u]
           /\ todo'[u] = todo[u] /\ source'[u] = source[u] /\ target'[u] = target[u]
           /\ router'[u] = router[u] /\ live'[u] = live[u],
           \A r \in Routers : host'[r] = host[r] \/ host'[r] \notin DeadNow
    PROVE  EvacAt(u)'
<1>1. DeadNow' = DeadNow /\ AliveNow' = AliveNow
  BY DEF DeadNow, AliveNow
<1> SUFFICES ASSUME stage[u] = 2, pc[u] \in Searching
             PROVE  /\ \A r \in Routers : host'[r] \in DeadNow => Pending(u, r)'
                    /\ pc[u] \in {"wait", "agents", "routers"} \union InMigrateRouter
                          => live[u] \subseteq AliveNow
                    /\ pc[u] \in InMigrateRouter => target[u] \in AliveNow
                    /\ pc[u] \in {"next", "done"} => agents[u] = {}
  BY <1>1 DEF EvacAt
<1>2. ASSUME NEW r \in Routers, host'[r] \in DeadNow PROVE Pending(u, r)'
  <2>1. host'[r] = host[r]
    BY <1>2
  <2>2. Pending(u, r)
    BY <1>2, <2>1 DEF EvacAt
  <2> QED
    BY <2>1, <2>2 DEF Pending
<1> QED
  BY <1>2 DEF EvacAt

\* The calls of migrate_router move the router in hand, and to an agent that is online.
LEMMA EvacMoves ==
    ASSUME TInv, StageInv, NEW t \in Writers, stage[t] # 3, EvacAt(t), Start(t) \/ Step(t)
    PROVE  \A r \in Routers : host'[r] = host[r] \/ host'[r] \notin DeadNow
<1>1. pc[t] \in InMigrateRouter => target[t] \in AliveNow /\ router[t] \in Routers
  BY DEF StageInv, EvacAt, Searching, TInv, HandInv, Writers
<1>2. host \in [Routers -> Agents \union {NoAgent}] /\ NoAgent \notin DeadNow
  BY NoAgentAssumption DEF NoAgentAssumption, TInv, TypeOK, DeadNow
<1>3. CASE MigrateRouter(t)
  <2>1. pc[t] \in InMigrateRouter
    BY <1>3 DEF MigrateRouter, RemoveRouter, RemoveRefused, RemoveFails, VerifyRemoved, VerifyFails,
         AddRouter, AddRefused, AddFails, Confirm, ConfirmFails, InMigrateRouter
  <2>2. UNCHANGED host \/ Unhost(t) \/ Rehost(t)
    BY <1>3 DEF MigrateRouter, RemoveRouter, RemoveRefused, RemoveFails, VerifyRemoved, VerifyFails,
         AddRouter, AddRefused, AddFails, Confirm, ConfirmFails, neutron
  <2>3. target[t] \notin DeadNow
    BY <1>1, <2>1 DEF AliveNow
  <2> QED
    BY <1>1, <1>2, <2>1, <2>2, <2>3 DEF Unhost, Rehost
<1>4. CASE ~ MigrateRouter(t)
  BY <1>4 DEF Start, Step, RunStep, CheckStep, MigrateStep, RebalanceStep, neutron,
       NextStage, NoMoreStages, CheckList, CheckAgent, CheckEnds, MigrateList, Poll, DelayOver,
       TakeAgent, AgentsDone, TakeRouter, NoneAlive, RoutersDone, RebalanceList, SnapAgent, Arrange,
       TakePair, SamePair, PairsDone, PickRouter, PairDone
<1> QED
  BY <1>3, <1>4

\* A step of the run itself keeps its lists complete.
LEMMA EvacOwn ==
    ASSUME TInv, StageInv, NEW t \in Writers, stage[t] # 3, stage'[t] = 2, EvacAt(t),
           Start(t) \/ Step(t), faults' = 0
    PROVE  EvacAt(t)'
<1> USE DEF TInv, TypeOK, Goto, InMigrateRouter, Searching, neutron, hand, loop, migration
<1>1. UNCHANGED alive /\ DeadNow' = DeadNow /\ AliveNow' = AliveNow
  BY OwnState DEF DeadNow, AliveNow, Writers
<1>2. \A r \in Routers : host'[r] = host[r] \/ host'[r] \notin DeadNow
  BY EvacMoves
<1>3. t \in Tools /\ t \notin Noop
  BY DEF Writers
<1>4. SUFFICES ASSUME pc'[t] \in Searching
               PROVE  /\ \A r \in Routers : host'[r] \in DeadNow => Pending(t, r)'
                      /\ pc'[t] \in {"wait", "agents", "routers"} \union InMigrateRouter
                            => live'[t] \subseteq AliveNow
                      /\ pc'[t] \in InMigrateRouter => target'[t] \in AliveNow
                      /\ pc'[t] \in {"next", "done"} => agents'[t] = {}
  BY <1>1 DEF EvacAt
<1>5. ~ Fault
  BY DEF Fault
<1>6. stage[t] = 2 /\ pc[t] \in Searching
      => /\ \A r \in Routers : host[r] \in DeadNow => Pending(t, r)
         /\ pc[t] \in {"wait", "agents", "routers"} \union InMigrateRouter
               => live[t] \subseteq AliveNow
         /\ pc[t] \in InMigrateRouter => target[t] \in AliveNow
         /\ pc[t] \in {"next", "done"} => agents[t] = {}
  BY DEF EvacAt
<1> HIDE DEF Searching
<1>7. CASE Start(t)
  BY <1>3, <1>7 DEF Start, StageInv
<1>8. CASE RunStep(t) \/ CheckStep(t)
  <2>1. ASSUME NEW k \in 1..3, NextStage(t, k) PROVE FALSE
    BY <1>3, <1>4, <2>1 DEF NextStage, Entry, Searching
  <2>2. CASE NoMoreStages(t)
    BY <1>1, <1>3, <1>6, <2>2 DEF NoMoreStages, Pending, Searching
  <2>3. ~ CheckStep(t)
    BY <1>3 DEF CheckStep, CheckList, CheckAgent, CheckEnds, StageInv
  <2> QED
    BY <1>8, <2>1, <2>2, <2>3 DEF RunStep
<1>9. CASE MigrateList(t)
  <2>1. agents'[t] = DeadNow /\ live'[t] = AliveNow
    BY <1>3, <1>9 DEF MigrateList
  <2>2. pc'[t] \in {"next", "agents", "wait"} /\ (pc'[t] = "next" => DeadNow = {})
    BY <1>3, <1>9 DEF MigrateList
  <2> QED
    BY <2>1, <2>2 DEF Pending
<1>10. CASE Poll(t) \/ DelayOver(t)
  <2>1. pc[t] = "wait" /\ pc'[t] \in {"wait", "agents", "skipped"} /\ UNCHANGED <<host, stage, loop, live>>
    BY <1>3, <1>10 DEF Poll, DelayOver
  <2> QED
    BY <1>1, <1>4, <1>6, <2>1 DEF Pending, Searching
<1>11. ASSUME NEW a \in agents[t], TakeAgent(t, a)
       PROVE  /\ \A r \in Routers : host'[r] \in DeadNow => Pending(t, r)'
              /\ pc'[t] = "routers" /\ live'[t] \subseteq AliveNow
  <2>1. /\ pc[t] = "agents" /\ pc'[t] = "routers" /\ UNCHANGED <<host, stage, live>>
        /\ agents'[t] = agents[t] \ {a} /\ source'[t] = a /\ todo'[t] = On(a)
    BY <1>3, <1>11 DEF TakeAgent
  <2>2. \A r \in Routers : host[r] \in DeadNow => host[r] \in agents[t]
    BY <1>6, <2>1 DEF Pending, Searching
  <2> QED
    BY <1>6, <2>1, <2>2 DEF Pending, On, Searching
<1>12. CASE AgentsDone(t)
  BY <1>3, <1>6, <1>12 DEF AgentsDone, Pending, Searching
<1>13. ASSUME NEW r \in todo[t], NEW a \in live[t], TakeRouter(t, r, a)
       PROVE  /\ \A q \in Routers : host'[q] \in DeadNow => Pending(t, q)'
              /\ pc'[t] = "remove" /\ live'[t] \subseteq AliveNow /\ target'[t] \in AliveNow
  <2>1. /\ pc[t] = "routers" /\ pc'[t] = "remove" /\ UNCHANGED <<host, stage, live, agents, source>>
        /\ todo'[t] = todo[t] \ {r} /\ router'[t] = r /\ target'[t] = a
    BY <1>3, <1>13 DEF TakeRouter
  <2>2. stage[t] = 2
    BY <1>3, <2>1 DEF StageInv
  <2> QED
    BY <1>6, <2>1, <2>2 DEF Pending, Searching
<1>14. CASE NoneAlive(t)
  BY <1>3, <1>4, <1>14 DEF NoneAlive, Searching
<1>15. CASE RoutersDone(t)
  BY <1>3, <1>6, <1>15 DEF RoutersDone, Pending, Searching
<1>16. CASE MigrateRouter(t)
  <2>1. /\ pc[t] \in InMigrateRouter /\ stage[t] = 2 /\ router[t] \in Routers
        /\ UNCHANGED <<agents, todo, source, target, live, stage>>
    BY <1>3, <1>16 DEF StageInv, HandInv, MigrateRouter, RemoveRouter, RemoveRefused, RemoveFails,
         VerifyRemoved, VerifyFails, AddRouter, AddRefused, AddFails, Confirm, ConfirmFails,
         Raise, Proceed
  <2>2. pc'[t] \in InMigrateRouter \union {"routers"} /\ live[t] \subseteq AliveNow /\ target[t] \in AliveNow
    BY <1>3, <1>6, <1>16, <2>1 DEF Searching, Caller, MigrateRouter, RemoveRouter, RemoveRefused, RemoveFails,
         VerifyRemoved, VerifyFails, AddRouter, AddRefused, AddFails, Confirm, ConfirmFails,
         Raise, Proceed
  <2>3. pc[t] = "remove" => host'[router[t]] = NoAgent \/ host'[router[t]] # source[t]
    BY <1>3, <1>5, <1>16, <2>1 DEF MigrateRouter, RemoveRouter, RemoveRefused, RemoveFails, Unhost,
         VerifyRemoved, VerifyFails, AddRouter, AddRefused, AddFails, Confirm, ConfirmFails
  <2>4. NoAgent \notin DeadNow
    BY NoAgentAssumption DEF NoAgentAssumption, DeadNow
  <2>5. ASSUME NEW r \in Routers, host'[r] \in DeadNow PROVE Pending(t, r)'
    <3>1. host'[r] = host[r]
      BY <1>2, <2>5
    <3>2. \/ host[r] \in agents[t]
          \/ source[t] = host[r] /\ (r \in todo[t] \/ (pc[t] = "remove" /\ router[t] = r))
      BY <1>6, <2>1, <2>5, <3>1 DEF Pending, Searching
    <3> QED
      BY <2>1, <2>2, <2>3, <2>4, <2>5, <3>1, <3>2 DEF Pending
  <2> QED
    BY <2>1, <2>2, <2>5
<1>17. CASE RebalanceStep(t)
  <2>1. pc[t] \in {"snap", "snapAgents", "pairs", "pick"}
    BY <1>17 DEF RebalanceStep, RebalanceList, SnapAgent, Arrange, TakePair, SamePair, PairsDone,
         PickRouter, PairDone
  <2> QED
    BY <1>3, <2>1 DEF StageInv
<1>18. CASE MigrateStep(t)
  BY <1>9, <1>10, <1>11, <1>12, <1>13, <1>14, <1>15, <1>18 DEF MigrateStep
<1> QED
  BY <1>7, <1>8, <1>16, <1>17, <1>18 DEF Step

\* Stages follow in their order, and the failures are counted.
LEMMA Forward ==
    ASSUME TInv, NEW t \in Tools, Start(t) \/ Step(t)
    PROVE  faults' \in {faults, faults + 1} /\ stage[t] <= stage'[t]
<1> USE DEF TInv, TypeOK, counters
<1>1. faults' \in {faults, faults + 1}
  BY DEF Start, Step, RunStep, CheckStep, MigrateStep, MigrateRouter, RebalanceStep, Fault,
         NextStage, NoMoreStages, CheckList, CheckAgent, CheckEnds, MigrateList, Poll, DelayOver,
         TakeAgent, AgentsDone, TakeRouter, NoneAlive, RoutersDone, RemoveRouter, RemoveRefused,
         RemoveFails, VerifyRemoved, VerifyFails, AddRouter, AddRefused, AddFails, Confirm,
         ConfirmFails, RebalanceList, SnapAgent, Arrange, TakePair, SamePair,
         PairsDone, PickRouter, PairDone
<1>2. UNCHANGED stage \/ \E k \in 1..3 : NextStage(t, k)
  BY DEF Start, Step, RunStep, CheckStep, MigrateStep, MigrateRouter, RebalanceStep,
         NoMoreStages, CheckList, CheckAgent, CheckEnds, MigrateList, Poll, DelayOver,
         TakeAgent, AgentsDone, TakeRouter, NoneAlive, RoutersDone, RemoveRouter, RemoveRefused,
         RemoveFails, VerifyRemoved, VerifyFails, AddRouter, AddRefused, AddFails, Confirm,
         ConfirmFails, Raise, Proceed, RebalanceList, SnapAgent, Arrange, TakePair, SamePair,
         PairsDone, PickRouter, PairDone
<1>3. stage[t] <= stage'[t]
  <2>1. stage[t] \in 0..3 /\ (UNCHANGED stage => stage'[t] = stage[t])
    OBVIOUS
  <2>2. ASSUME NEW k \in 1..3, NextStage(t, k) PROVE stage'[t] = k /\ stage[t] < k
    BY <2>2 DEF NextStage
  <2> QED
    BY <1>2, <2>1, <2>2
<1> QED
  BY <1>1, <1>3

\* A run with --noop moves no router.
LEMMA NoopMovesNone ==
    ASSUME TInv, StageInv, NEW t \in Tools, t \in Noop, Start(t) \/ Step(t)
    PROVE  UNCHANGED host
<1>1. ~ MigrateRouter(t)
  BY DEF StageInv, InMigrateRouter, MigrateRouter, RemoveRouter, RemoveRefused, RemoveFails,
         VerifyRemoved, VerifyFails, AddRouter, AddRefused, AddFails, Confirm, ConfirmFails
<1> QED
  BY <1>1 DEF Start, Step, RunStep, CheckStep, MigrateStep, RebalanceStep, neutron,
       NextStage, NoMoreStages, CheckList, CheckAgent, CheckEnds, MigrateList, Poll, DelayOver,
       TakeAgent, AgentsDone, TakeRouter, NoneAlive, RoutersDone, RebalanceList, SnapAgent, Arrange,
       TakePair, SamePair, PairsDone, PickRouter, PairDone

LEMMA EvacStep == TInv /\ StageInv /\ EvacInv /\ [Next]_vars => EvacInv'
<1> SUFFICES ASSUME TInv, StageInv, EvacInv, [Next]_vars, Before' PROVE \A u \in Writers : EvacAt(u)'
  BY DEF EvacInv, Writers
<1>1. faults \in Nat /\ flaps \in Nat /\ faults' = 0 /\ flaps' = 0
  BY DEF TInv, TypeOK, Before, Quiet
<1>2. CASE UNCHANGED vars
  <2>1. Before
    BY <1>2 DEF Before, Quiet, Writers, vars, counters
  <2> QED
    BY <1>2, <2>1 DEF EvacInv, EvacAt, Pending, DeadNow, AliveNow, Writers, InMigrateRouter, Searching,
       vars, neutron, migration, loop, hand
<1>3. ASSUME NEW a \in Agents, Flap(a) PROVE FALSE
  BY <1>1, <1>3 DEF Flap
<1>4. ASSUME NEW t \in Tools, ReadFails(t) \/ Kill(t) PROVE FALSE
  BY <1>1, <1>4 DEF ReadFails, Kill, Fault
<1>5. ASSUME NEW t \in Tools, Start(t) \/ Step(t) PROVE \A u \in Writers : EvacAt(u)'
  <2>1. /\ UNCHANGED <<alive, flaps>>
        /\ \A u \in Tools \ {t} :
              /\ pc'[u] = pc[u] /\ stage'[u] = stage[u] /\ agents'[u] = agents[u]
              /\ todo'[u] = todo[u] /\ source'[u] = source[u] /\ target'[u] = target[u]
              /\ router'[u] = router[u] /\ live'[u] = live[u]
    BY <1>5, OwnState
  <2>2. faults = 0 /\ stage[t] <= stage'[t]
    BY <1>1, <1>5, Forward
  <2>3. Before /\ \A u \in Writers : stage[u] <= 2
    <3>1. flaps = 0
      BY <1>1, <2>1
    <3>2. TInv'
      BY TypeStep
    <3>3. ASSUME NEW u \in Writers PROVE stage[u] <= 2
      <4>1. stage'[u] <= 2 /\ u \in Tools
        BY DEF Before, Writers
      <4>2. stage[u] \in 0..3 /\ stage'[u] \in 0..3
        BY <3>2, <4>1 DEF TInv, TypeOK
      <4>3. stage'[u] = stage[u] \/ u = t
        BY <2>1, <4>1
      <4> QED
        BY <2>2, <4>1, <4>2, <4>3
    <3> QED
      BY <2>2, <3>1, <3>3 DEF Before, Quiet
  <2>4. \A r \in Routers : host'[r] = host[r] \/ host'[r] \notin DeadNow
    <3>1. CASE t \in Writers
      BY <1>5, <2>3, <3>1, EvacMoves DEF EvacInv
    <3>2. CASE t \in Noop
      BY <1>5, <3>2, NoopMovesNone
    <3> QED
      BY <3>1, <3>2 DEF Writers
  <2>5. ASSUME NEW u \in Writers, u # t PROVE EvacAt(u)'
    <3>1. EvacAt(u) /\ u \in Tools \ {t}
      BY <2>3, <2>5 DEF EvacInv, Writers
    <3> QED
      BY <2>1, <2>4, <3>1, EvacOther DEF TInv
  <2>6. ASSUME t \in Writers PROVE EvacAt(t)'
    <3>1. CASE stage'[t] = 2
      BY <1>1, <1>5, <2>3, <2>6, <3>1, EvacOwn DEF EvacInv
    <3>2. CASE stage'[t] # 2
      BY <3>2 DEF EvacAt
    <3> QED
      BY <3>1, <3>2
  <2> QED
    BY <2>5, <2>6
<1> QED
  BY <1>2, <1>3, <1>4, <1>5 DEF Next

\* However many migrations run at the same time, if nothing fails and the agents stay as
\* they are, every router is on an agent that is online when they are over (Evacuated).
THEOREM EvacuationComplete == Spec => []Evacuated
<1>1. Init => EvacInv
  BY DEF Init, EvacInv, EvacAt, Writers
<1>2. TInv /\ LostInv /\ StageInv /\ EvacInv => Evacuated
  <2> SUFFICES ASSUME TInv, LostInv, StageInv, EvacInv, Quiet,
                      \A t \in Writers : AtRest(t) /\ stage[t] <= 2,
                      NEW t \in Writers, Migrated(t), NEW r \in Routers
               PROVE  host[r] \in AliveNow
    BY DEF Evacuated
  <2>1. \A u \in Tools : pc[u] \notin InMigrateRouter
    BY DEF StageInv, AtRest, Ended, InMigrateRouter, Writers
  <2>2. lost = {}
    <3>1. IsFiniteSet(lost)
      BY BoundsAssumption, FS_Subset DEF BoundsAssumption, TInv, TypeOK
    <3>2. Cardinality(lost) \in Nat /\ Cardinality(lost) <= 0
      BY <3>1, FS_CardinalityType DEF LostInv, Quiet
    <3> QED
      BY <3>1, <3>2, FS_EmptySet
  <2>3. host[r] # NoAgent
    BY <2>1, <2>2 DEF LostInv, IsHeld, InMigrateRouter
  <2>4. host[r] \notin DeadNow
    <3>1. EvacAt(t) /\ stage[t] = 2 /\ pc[t] \in {"next", "done"}
      BY DEF EvacInv, Before, Migrated
    <3>2. agents[t] = {} /\ (host[r] \in DeadNow => host[r] \in agents[t])
      BY <3>1 DEF EvacAt, Searching, Pending, InMigrateRouter
    <3> QED
      BY <3>1, <3>2
  <2> QED
    BY <2>3, <2>4 DEF TInv, TypeOK, AliveNow
<1> QED
  BY TypeInit, TypeStep, LostInit, LostStep, StageInit, StageStep, EvacStep, <1>1, <1>2, PTL DEF Spec
-----------------------------------------------------------------------------
(* A rebalancing on its own                                                 *)

\* Nothing fails, no agent goes or comes, and no other run moves routers.
Solo(t) == Quiet /\ Alone(t)

Size == Cardinality(Agents)
Mirror(k) == Size + 1 - k
Had(a) == {r \in Routers : start[r] = a}
Same(a) == On(a) = Had(a)

\* Agent a had fewer routers than b, and is to get some of them.
Short(a, b) == Load(start, a) < Load(start, b)

Even(a, b) ==
    /\ Load(host, a) + Load(host, b) = Load(start, a) + Load(start, b)
    /\ Load(host, b) <= Load(host, a) /\ Load(host, a) <= Load(host, b) + 1

\* Of the two turns of a pair only the one that finds the emptier agent first moves anything.
PairAt(t, k) ==
    LET a == order[t][k]
        b == order[t][Mirror(k)]
    IN  /\ Short(a, b) /\ k <= pos[t] => Even(a, b)
        /\ Short(a, b) /\ k > pos[t] => Same(a) /\ Same(b)
        /\ ~ Short(a, b) /\ ~ Short(b, a) => Same(a)

\* The lists were made when all routers were still where they had been.
Arranged(t) ==
    /\ order[t] \in Orders
    /\ \A a \in Agents : snap[t][a] = Had(a)
    /\ turn[t] <= Size
    /\ Size % 2 = 0 => pos[t] = turn[t]

\* Inside of a turn: the counts and the list are those of the two agents, but for the
\* router in hand.
Counted(t, l, h) ==
    /\ l = Load(host, target[t])
    /\ h = Cardinality(todo[t])
    /\ On(source[t]) = todo[t]

Moving(t) ==
    /\ low[t] + high[t] = Load(start, target[t]) + Load(start, source[t])
    /\ pc[t] = "pick" => low[t] <= high[t] + 1 /\ Counted(t, low[t], high[t])
    /\ pc[t] \in InMigrateRouter => low[t] < high[t] /\ router[t] \in Routers
    /\ pc[t] = "remove" =>
          /\ low[t] = Load(host, target[t])
          /\ high[t] = Cardinality(todo[t]) + 1
          /\ router[t] \notin todo[t] /\ On(source[t]) = todo[t] \union {router[t]}
    /\ pc[t] \in {"verify", "add"} =>
          Counted(t, low[t], high[t] - 1) /\ host[router[t]] = NoAgent
    /\ pc[t] = "confirm" => Counted(t, low[t] + 1, high[t] - 1)

InTurn(t) ==
    /\ turn[t] < Size
    /\ target[t] = LowAgent(t) /\ source[t] = HighAgent(t) /\ target[t] # source[t]
    /\ Short(target[t], source[t]) => Moving(t)
    /\ ~ Short(target[t], source[t]) => pc[t] = "pick" /\ low[t] >= high[t]
    /\ \A k \in 1..Size : k # pos[t] + 1 \/ ~ Short(target[t], source[t]) => PairAt(t, k)

Balanced(t) ==
    \/ Size <= 1 /\ start = host
    \/ Arranged(t) /\ turn[t] = Size /\ \A k \in 1..Size : PairAt(t, k)

SpreadAt(t) ==
    stage[t] = 3 =>
        /\ pc[t] = "snapAgents" => start = host /\ \A a \in Agents \ agents[t] : snap[t][a] = Had(a)
        /\ pc[t] \in {"pairs", "pick"} \union InMigrateRouter => Arranged(t)
        /\ pc[t] = "pairs" => \A k \in 1..Size : PairAt(t, k)
        /\ pc[t] \in {"pick"} \union InMigrateRouter => InTurn(t)
        /\ pc[t] \in {"next", "done"} => Balanced(t)

SpreadInv == \A t \in Tools : Solo(t) => SpreadAt(t)

LEMMA SizeIsNat == Size \in Nat
  BY BoundsAssumption, FS_CardinalityType DEF BoundsAssumption, Size

\* The loads are the numbers of the routers that were and are on an agent.
LEMMA LoadFacts ==
    ASSUME NEW a
    PROVE  /\ Load(host, a) = Cardinality(On(a)) /\ Load(start, a) = Cardinality(Had(a))
           /\ Load(host, a) \in Nat /\ Load(start, a) \in Nat
           /\ IsFiniteSet(On(a))
<1>1. IsFiniteSet(On(a)) /\ IsFiniteSet(Had(a))
  BY BoundsAssumption, FS_Subset DEF BoundsAssumption, On, Had
<1>2. Load(host, a) = Cardinality(On(a)) /\ Load(start, a) = Cardinality(Had(a))
  BY DEF Load, On, Had
<1> QED
  BY <1>1, <1>2, FS_CardinalityType

\* An order of the agents has each of them once.
LEMMA OrderFacts ==
    ASSUME NEW p \in Orders
    PROVE  /\ p \in [1..Size -> Agents] /\ Len(p) = Size
           /\ \A j, k \in 1..Size : p[j] = p[k] => j = k
           /\ \A a \in Agents : \E k \in 1..Size : p[k] = a
<1>1. p \in [1..Size -> Agents] /\ {p[k] : k \in 1..Size} = Agents
  BY DEF Orders, Size
<1>2. \A a \in Agents : \E k \in 1..Size : p[k] = a
  BY <1>1
<1>3. Len(p) = Size
  BY <1>1, SizeIsNat
<1>4. IsFiniteSet(1..Size) /\ Cardinality(1..Size) = Size
  BY SizeIsNat, FS_Interval
<1>5. p \in Surjection(1..Size, Agents)
  BY <1>1, <1>2 DEF Surjection
<1>6. p \in Injection(1..Size, Agents)
  BY <1>4, <1>5, BoundsAssumption, FS_SurjSameCardinalityImpliesInj DEF BoundsAssumption, Size
<1>7. \A j, k \in 1..Size : p[j] = p[k] => j = k
  BY <1>1, <1>6 DEF Injection, IsInjective
<1> QED
  BY <1>1, <1>2, <1>3, <1>7

LEMMA MirrorFacts ==
    ASSUME NEW k \in 1..Size
    PROVE  Mirror(k) \in 1..Size /\ Mirror(Mirror(k)) = k
  BY SizeIsNat DEF Mirror

\* A pair whose routers stay is afterwards what its places in the list make of it.
LEMMA PairThen ==
    ASSUME NEW t \in Tools, NEW k \in 1..Size,
           order'[t] = order[t], start' = start,
           On(order[t][k])' = On(order[t][k]),
           On(order[t][Mirror(k)])' = On(order[t][Mirror(k)]),
           Short(order[t][k], order[t][Mirror(k)]) /\ k <= pos'[t] => Even(order[t][k], order[t][Mirror(k)]),
           Short(order[t][k], order[t][Mirror(k)]) /\ k > pos'[t]
              => Same(order[t][k]) /\ Same(order[t][Mirror(k)]),
           ~ Short(order[t][k], order[t][Mirror(k)]) /\ ~ Short(order[t][Mirror(k)], order[t][k])
              => Same(order[t][k])
    PROVE  PairAt(t, k)'
<1> DEFINE a == order[t][k]
           b == order[t][Mirror(k)]
<1>1. /\ a' = a /\ b' = b
      /\ Had(a)' = Had(a) /\ Had(b)' = Had(b)
      /\ (Short(a, b)' <=> Short(a, b)) /\ (Short(b, a)' <=> Short(b, a))
  BY DEF Had, Short, Load, Mirror
<1>2. Load(host, a)' = Load(host, a) /\ Load(host, b)' = Load(host, b)
  BY <1>1 DEF Load, On
<1>3. (Same(a)' <=> Same(a)) /\ (Same(b)' <=> Same(b))
  BY <1>1 DEF Same
<1>4. Even(a, b)' <=> Even(a, b)
  <2>1. Load(start, a)' = Load(start, a) /\ Load(start, b)' = Load(start, b)
    BY <1>1 DEF Load
  <2> QED
    BY <1>2, <2>1 DEF Even
<1> HIDE DEF a, b
<1>5. /\ Short(a, b) /\ k <= pos'[t] => Even(a, b)
      /\ Short(a, b) /\ k > pos'[t] => Same(a) /\ Same(b)
      /\ ~ Short(a, b) /\ ~ Short(b, a) => Same(a)
  BY DEF a, b
<1>6. /\ Short(a, b)' /\ k <= pos'[t] => Even(a, b)'
      /\ Short(a, b)' /\ k > pos'[t] => Same(a)' /\ Same(b)'
      /\ ~ Short(a, b)' /\ ~ Short(b, a)' => Same(a)'
  BY <1>1, <1>3, <1>4, <1>5
<1> QED
  BY <1>1, <1>6 DEF PairAt, a, b

\* What happens to the routers of other agents does not matter to a pair.
LEMMA PairKept ==
    ASSUME NEW t \in Tools, NEW k \in 1..Size, PairAt(t, k),
           order'[t] = order[t], start' = start, k <= pos'[t] <=> k <= pos[t], k > pos'[t] <=> k > pos[t],
           On(order[t][k])' = On(order[t][k]),
           On(order[t][Mirror(k)])' = On(order[t][Mirror(k)])
    PROVE  PairAt(t, k)'
  BY PairThen DEF PairAt

\* A run changes its own part of the rebalancing's state only; start with its list.
LEMMA OwnRebalance ==
    ASSUME TInv, NEW t \in Tools, Start(t) \/ Step(t)
    PROVE  /\ start' = start \/ (RebalanceList(t) /\ t \notin Noop)
           /\ \A u \in Tools \ {t} :
                 /\ snap'[u] = snap[u] /\ order'[u] = order[u] /\ turn'[u] = turn[u]
                 /\ pos'[u] = pos[u] /\ low'[u] = low[u] /\ high'[u] = high[u]
<1> USE DEF neutron, migration, loop, hand, rebalance, counts, counters
<1>1. start' = start \/ (RebalanceList(t) /\ t \notin Noop)
  BY DEF Start, Step, RunStep, CheckStep, MigrateStep, MigrateRouter, RebalanceStep,
         NextStage, NoMoreStages, CheckList, CheckAgent, CheckEnds, MigrateList, Poll, DelayOver,
         TakeAgent, AgentsDone, TakeRouter, NoneAlive, RoutersDone, RemoveRouter, RemoveRefused,
         RemoveFails, VerifyRemoved, VerifyFails, AddRouter, AddRefused, AddFails, Confirm,
         ConfirmFails, Raise, Proceed, RebalanceList, SnapAgent, Arrange, TakePair, SamePair,
         PairsDone, PickRouter, PairDone
<1> DEFINE Own(f, g) == g = f \/ \E x : g = [f EXCEPT ![t] = x]
<1>2. /\ Own(snap, snap') /\ Own(order, order') /\ Own(turn, turn') /\ Own(pos, pos')
      /\ Own(low, low') /\ Own(high, high')
  <2>1. CASE \E a \in agents[t] : SnapAgent(t, a)
    <3>1. PICK a \in agents[t] : SnapAgent(t, a)
      BY <2>1
    <3>2. snap' = [snap EXCEPT ![t] = [snap[t] EXCEPT ![a] = On(a)]]
      BY <3>1 DEF SnapAgent
    <3> QED
      BY <3>1, <3>2 DEF SnapAgent
  <2>2. CASE ~ \E a \in agents[t] : SnapAgent(t, a)
    BY <2>2 DEF Start, Step, RunStep, CheckStep, MigrateStep, MigrateRouter, RebalanceStep, Goto,
         NextStage, NoMoreStages, CheckList, CheckAgent, CheckEnds, MigrateList, Poll, DelayOver,
         TakeAgent, AgentsDone, TakeRouter, NoneAlive, RoutersDone, RemoveRouter, RemoveRefused,
         RemoveFails, VerifyRemoved, VerifyFails, AddRouter, AddRefused, AddFails, Confirm,
         ConfirmFails, Raise, Proceed, RebalanceList, Arrange, TakePair, SamePair,
         PairsDone, PickRouter, PairDone
  <2> QED
    BY <2>1, <2>2
<1> QED
  BY <1>1, <1>2, SMTT(20) DEF TInv, TypeOK

LEMMA BalancedKept ==
    ASSUME NEW t \in Tools, Balanced(t), host' = host, start' = start,
           snap'[t] = snap[t], order'[t] = order[t], turn'[t] = turn[t], pos'[t] = pos[t]
    PROVE  Balanced(t)'
<1>1. \A a : On(a)' = On(a) /\ Had(a)' = Had(a)
  BY DEF On, Had
<1>2. \A k \in 1..Size : PairAt(t, k) => PairAt(t, k)'
  BY <1>1, PairKept
<1>3. Arranged(t) => Arranged(t)'
  BY <1>1 DEF Arranged
<1> QED
  BY <1>2, <1>3 DEF Balanced

\* As long as the routers stay, and a run's own state, so does what is known of it.
LEMMA SpreadKept ==
    ASSUME NEW t \in Tools, SpreadAt(t), host' = host, start' = start,
           pc'[t] = pc[t], stage'[t] = stage[t], agents'[t] = agents[t], todo'[t] = todo[t],
           source'[t] = source[t], target'[t] = target[t], router'[t] = router[t],
           snap'[t] = snap[t], order'[t] = order[t], turn'[t] = turn[t], pos'[t] = pos[t],
           low'[t] = low[t], high'[t] = high[t]
    PROVE  SpreadAt(t)'
<1>1. \A k \in 1..Size : PairAt(t, k) => PairAt(t, k)'
  <2>1. SUFFICES ASSUME NEW k \in 1..Size, PairAt(t, k) PROVE PairAt(t, k)'
    OBVIOUS
  <2>2. \A a : On(a)' = On(a)
    BY DEF On
  <2> QED
    BY <2>1, <2>2, PairKept
<1>2. \A a : Load(host, a)' = Load(host, a) /\ Load(start, a)' = Load(start, a)
             /\ On(a)' = On(a) /\ Had(a)' = Had(a)
  BY DEF Load, On, Had
<1>3. Arranged(t) => Arranged(t)'
  BY <1>2 DEF Arranged
<1>4. Moving(t) => Moving(t)'
  BY <1>2 DEF Moving, Counted
<1>5. \A a, b : Short(a, b)' <=> Short(a, b)
  BY <1>2 DEF Short
<1>6. InTurn(t) => InTurn(t)'
  BY <1>1, <1>4, <1>5 DEF InTurn, LowAgent, HighAgent
<1>7. Balanced(t) => Balanced(t)'
  BY BalancedKept
<1> QED
  BY <1>1, <1>2, <1>3, <1>6, <1>7 DEF SpreadAt

\* A step inside of a turn that moves no router but between the two agents.
LEMMA TurnKept ==
    ASSUME TInv, NEW t \in Tools, Arranged(t), InTurn(t), Short(target[t], source[t]),
           start' = start, order'[t] = order[t], snap'[t] = snap[t], turn'[t] = turn[t],
           pos'[t] = pos[t], source'[t] = source[t], target'[t] = target[t],
           \A a \in Agents : a \notin {source[t], target[t]} => On(a)' = On(a),
           Moving(t)'
    PROVE  Arranged(t)' /\ InTurn(t)'
<1>1. Arranged(t)'
  BY DEF Arranged, Had
<1>2. \A a, b : Short(a, b)' <=> Short(a, b)
  BY DEF Short, Load
<1>3. order[t] \in Orders
  BY DEF Arranged
<1>4. order[t] \in [1..Size -> Agents] /\ Len(order[t]) = Size
  BY <1>3, OrderFacts
<1>5. pos[t] \in Nat /\ pos[t] <= turn[t] /\ turn[t] \in Nat /\ turn[t] < Size
  BY DEF TInv, TypeOK, PosInv, InTurn
<1> DEFINE j == pos[t] + 1
<1>6. j \in 1..Size /\ Mirror(j) \in 1..Size /\ Mirror(Mirror(j)) = j
  BY <1>5, SizeIsNat, MirrorFacts
<1>7. target[t] = order[t][j] /\ source[t] = order[t][Mirror(j)]
  BY <1>4, <1>5, SizeIsNat DEF InTurn, LowAgent, HighAgent, Mirror
<1>8. ASSUME NEW k \in 1..Size, k # j PROVE PairAt(t, k)'
  <2>1. PairAt(t, k)
    BY <1>8 DEF InTurn
  <2>2. CASE k = Mirror(j)
    <3>1. order'[t][k] = source[t] /\ order'[t][Mirror(k)'] = target[t]
      BY <1>6, <1>7, <2>2 DEF Mirror
    <3>2. Short(target[t], source[t])' /\ ~ Short(source[t], target[t])'
      <4>1. ~ Short(source[t], target[t])
        BY LoadFacts DEF Short
      <4> QED
        BY <1>2, <4>1 DEF Short, Load
    <3> QED
      BY <3>1, <3>2 DEF PairAt, Mirror, Short, Load
  <2>3. CASE k # Mirror(j)
    <3>1. Mirror(k) \in 1..Size /\ Mirror(k) # j /\ Mirror(k) # Mirror(j)
      BY <1>6, <1>8, <2>3, MirrorFacts
    <3>2. order[t][k] \in Agents \ {source[t], target[t]}
          /\ order[t][Mirror(k)] \in Agents \ {source[t], target[t]}
      <4>1. \A m, n \in 1..Size : order[t][m] = order[t][n] => m = n
        BY <1>3, OrderFacts
      <4>2. order[t][k] \in Agents /\ order[t][Mirror(k)] \in Agents
        BY <1>4, <3>1
      <4> QED
        BY <1>6, <1>7, <1>8, <2>3, <3>1, <4>1, <4>2
    <3> QED
      BY <2>1, <3>2, PairKept
  <2> QED
    BY <2>2, <2>3
<1>9. /\ turn'[t] < Size
      /\ target'[t] = LowAgent(t)' /\ source'[t] = HighAgent(t)' /\ target'[t] # source'[t]
  BY DEF InTurn, LowAgent, HighAgent
<1>10. Short(target[t], source[t])'
  BY <1>2 DEF Short, Load
<1> QED
  BY <1>1, <1>8, <1>9, <1>10 DEF InTurn, Size

\* The lists of the rebalancing are made while nothing is moved.
LEMMA SpreadLists ==
    ASSUME TInv, StageInv, NEW t \in Tools, t \notin Noop, SpreadAt(t),
           \/ RebalanceList(t)
           \/ \E a \in agents[t] : SnapAgent(t, a)
           \/ \E p \in Orders : Arrange(t, p)
    PROVE  SpreadAt(t)'
<1> USE DEF TInv, TypeOK, Goto, InMigrateRouter
<1>1. CASE RebalanceList(t)
  <2>1. start' = host' /\ agents'[t] = Agents /\ stage'[t] = stage[t]
    BY <1>1 DEF RebalanceList, neutron
  <2>2. pc'[t] = "snapAgents" \/ (pc'[t] = "next" /\ Cardinality(Agents) <= 1)
    BY <1>1 DEF RebalanceList
  <2>3. Balanced(t)' \/ pc'[t] = "snapAgents"
    BY <2>1, <2>2 DEF Balanced, Size
  <2> QED
    BY <2>1, <2>2, <2>3 DEF SpreadAt
<1>2. ASSUME NEW b \in agents[t], SnapAgent(t, b) PROVE SpreadAt(t)'
  <2>1. /\ pc[t] = "snapAgents" /\ pc'[t] = "snapAgents" /\ stage'[t] = stage[t]
        /\ host' = host /\ start' = start
        /\ agents'[t] = agents[t] \ {b}
        /\ snap'[t] = [snap[t] EXCEPT ![b] = On(b)]
    <3>1. snap' = [snap EXCEPT ![t] = [snap[t] EXCEPT ![b] = On(b)]]
      BY <1>2 DEF SnapAgent
    <3> QED
      BY <1>2, <3>1 DEF SnapAgent, neutron, counters
  <2>2. start = host /\ \A a \in Agents \ agents[t] : snap[t][a] = Had(a)
    BY <2>1 DEF SpreadAt, StageInv
  <2>3. ASSUME NEW a \in Agents \ agents'[t] PROVE snap'[t][a] = Had(a)'
    <3>1. On(a) = Had(a) /\ Had(a)' = Had(a)
      BY <2>1, <2>2 DEF On, Had
    <3>2. CASE a = b
      BY <2>1, <3>1, <3>2
    <3>3. CASE a # b
      BY <2>1, <2>2, <3>1, <3>3
    <3> QED
      BY <3>2, <3>3
  <2> QED
    BY <2>1, <2>2, <2>3 DEF SpreadAt
<1>3. ASSUME NEW p \in Orders, Arrange(t, p) PROVE SpreadAt(t)'
  <2>1. /\ pc[t] = "snapAgents" /\ agents[t] = {} /\ pc'[t] = "pairs" /\ stage'[t] = stage[t]
        /\ host' = host /\ start' = start /\ snap'[t] = snap[t]
        /\ order'[t] = p /\ turn'[t] = 0 /\ pos'[t] = 0
    BY <1>3 DEF Arrange, neutron, counters
  <2>2. start = host /\ \A a \in Agents : snap[t][a] = Had(a)
    BY <2>1 DEF SpreadAt, StageInv
  <2>3. Arranged(t)'
    BY <2>1, <2>2, SizeIsNat DEF Arranged, Had, Size, Orders
  <2>4. \A a : Same(a)'
    BY <2>1, <2>2 DEF Same, On, Had
  <2>5. ASSUME NEW k \in 1..Size PROVE PairAt(t, k)'
    BY <2>1, <2>4 DEF PairAt
  <2> QED
    BY <2>1, <2>3, <2>5 DEF SpreadAt, Size
<1> QED
  BY <1>1, <1>2, <1>3

\* Where a turn is: the two agents, and their places in the list.
LEMMA TurnFacts ==
    ASSUME TInv, NEW t \in Tools, Arranged(t), MorePairs(t)
    PROVE  /\ pos[t] + 1 \in 1..Size /\ turn[t] \in Nat /\ turn[t] < Size
           /\ pos[t] \in Nat /\ turn[t] + 1 <= Size
           /\ LowAgent(t) = order[t][pos[t] + 1]
           /\ HighAgent(t) = order[t][Mirror(pos[t] + 1)]
           /\ LowAgent(t) \in Agents /\ HighAgent(t) \in Agents
<1>1. Len(order[t]) = Size
  BY OrderFacts DEF Arranged
<1>2. pos[t] \in Nat /\ turn[t] \in Nat /\ pos[t] <= turn[t] /\ turn[t] < Size
  BY <1>1 DEF TInv, TypeOK, PosInv, MorePairs
<1>3. Size - pos[t] = Mirror(pos[t] + 1)
  BY <1>2, SizeIsNat DEF Mirror
<1> QED
  BY <1>1, <1>2, <1>3, SizeIsNat, PairsAreAgents DEF LowAgent, HighAgent

LEMMA SpreadTakePair ==
    ASSUME TInv, StageInv, NEW t \in Tools, SpreadAt(t), TakePair(t)
    PROVE  SpreadAt(t)'
<1> DEFINE a == LowAgent(t)
           b == HighAgent(t)
           j == pos[t] + 1
<1>1. /\ pc[t] = "pairs" /\ pc'[t] = "pick" /\ stage[t] = 3 /\ stage'[t] = 3
      /\ host' = host /\ start' = start
      /\ order' = order /\ snap' = snap /\ turn' = turn /\ pos' = pos
      /\ target'[t] = a /\ source'[t] = b /\ a # b
      /\ low'[t] = Cardinality(snap[t][a]) /\ high'[t] = Cardinality(snap[t][b])
      /\ todo'[t] = snap[t][b]
  BY DEF TakePair, Goto, StageInv, TInv, TypeOK, neutron, counters, rebalance
<1>2. Arranged(t) /\ \A k \in 1..Size : PairAt(t, k)
  BY <1>1 DEF SpreadAt
<1>3. /\ j \in 1..Size /\ turn[t] < Size /\ a \in Agents /\ b \in Agents /\ pos[t] \in Nat
      /\ a = order[t][j] /\ b = order[t][Mirror(j)]
  BY <1>2, TurnFacts DEF TakePair
<1>4. /\ low'[t] = Load(start, a) /\ high'[t] = Load(start, b) /\ todo'[t] = Had(b)
  BY <1>1, <1>2, <1>3, LoadFacts DEF Arranged
<1>5. \A c : /\ On(c)' = On(c) /\ Had(c)' = Had(c)
             /\ Load(host, c)' = Load(host, c) /\ Load(start, c)' = Load(start, c)
  BY <1>1 DEF On, Had, Load
<1>6. Arranged(t)'
  BY <1>1, <1>2, <1>5 DEF Arranged
<1>7. \A k \in 1..Size : PairAt(t, k)'
  BY <1>1, <1>2, <1>5, PairKept
<1>8. Short(target[t], source[t])' <=> Short(a, b)
  BY <1>1, <1>5 DEF Short
<1>9. ASSUME Short(a, b) PROVE Moving(t)'
  <2>1. Same(a) /\ Same(b)
    BY <1>2, <1>3, <1>9 DEF PairAt
  <2>2. Load(host, a) = Load(start, a) /\ On(b) = Had(b)
    BY <2>1, LoadFacts DEF Same
  <2>3. low'[t] < high'[t] /\ low'[t] \in Nat /\ high'[t] \in Nat
    BY <1>4, <1>9, LoadFacts DEF Short
  <2>4. Counted(t, low[t], high[t])'
    BY <1>1, <1>4, <1>5, <2>2, LoadFacts DEF Counted
  <2>5. low'[t] + high'[t] = Load(start, target[t])' + Load(start, source[t])'
    BY <1>1, <1>4, <1>5
  <2> QED
    BY <1>1, <2>3, <2>4, <2>5 DEF Moving, InMigrateRouter
<1>10. ~ Short(a, b) => low'[t] >= high'[t]
  BY <1>4, LoadFacts DEF Short
<1>11. target'[t] = LowAgent(t)' /\ source'[t] = HighAgent(t)'
  BY <1>1 DEF LowAgent, HighAgent
<1>12. InTurn(t)'
  BY <1>1, <1>3, <1>7, <1>8, <1>9, <1>10, <1>11 DEF InTurn, Size
<1> QED
  BY <1>1, <1>6, <1>12 DEF SpreadAt, InMigrateRouter

LEMMA SpreadSamePair ==
    ASSUME TInv, StageInv, NEW t \in Tools, SpreadAt(t), SamePair(t)
    PROVE  SpreadAt(t)'
<1>1. /\ pc[t] = "pairs" /\ pc'[t] = "pairs" /\ stage[t] = 3 /\ stage'[t] = 3
      /\ host' = host /\ start' = start
      /\ order' = order /\ snap' = snap /\ turn'[t] = turn[t] + 1 /\ pos' = pos
  BY DEF SamePair, Goto, StageInv, TInv, TypeOK, neutron, counters
<1>2. Arranged(t) /\ \A k \in 1..Size : PairAt(t, k)
  BY <1>1 DEF SpreadAt
<1>3. /\ pos[t] + 1 \in 1..Size /\ pos[t] \in Nat /\ turn[t] + 1 <= Size
      /\ order[t][pos[t] + 1] = order[t][Mirror(pos[t] + 1)]
  BY <1>2, TurnFacts DEF SamePair
<1>4. Mirror(pos[t] + 1) = pos[t] + 1
  BY <1>2, <1>3, OrderFacts, MirrorFacts DEF Arranged
<1>5. Size % 2 # 0
  <2>1. Size = 2 * pos[t] + 1
    BY <1>3, <1>4, SizeIsNat DEF Mirror
  <2> QED
    BY <1>3, <2>1
<1>6. \A c : On(c)' = On(c) /\ Had(c)' = Had(c)
  BY <1>1 DEF On, Had
<1>7. Arranged(t)'
  BY <1>1, <1>2, <1>3, <1>5, <1>6 DEF Arranged, Size
<1>8. \A k \in 1..Size : PairAt(t, k)'
  BY <1>1, <1>2, <1>6, PairKept
<1> QED
  BY <1>1, <1>7, <1>8 DEF SpreadAt, InMigrateRouter, Size

LEMMA SpreadPairsDone ==
    ASSUME TInv, StageInv, NEW t \in Tools, SpreadAt(t), PairsDone(t)
    PROVE  SpreadAt(t)'
<1>1. /\ pc[t] = "pairs" /\ pc'[t] = "next" /\ stage[t] = 3 /\ stage'[t] = 3
      /\ host' = host /\ start' = start
      /\ order' = order /\ snap' = snap /\ turn' = turn /\ pos' = pos
  BY DEF PairsDone, Goto, StageInv, TInv, TypeOK, neutron, counters, rebalance
<1>2. Arranged(t) /\ \A k \in 1..Size : PairAt(t, k)
  BY <1>1 DEF SpreadAt
<1>3. turn[t] = Size
  <2>1. Len(order[t]) = Size /\ ~ turn[t] < Len(order[t]) /\ turn[t] \in Nat /\ turn[t] <= Size
    BY <1>2, OrderFacts DEF Arranged, PairsDone, MorePairs, TInv, TypeOK
  <2> QED
    BY <2>1, SizeIsNat
<1>4. \A c : On(c)' = On(c) /\ Had(c)' = Had(c)
  BY <1>1 DEF On, Had
<1>5. Arranged(t)' /\ \A k \in 1..Size : PairAt(t, k)'
  BY <1>1, <1>2, <1>4, PairKept DEF Arranged
<1>6. Balanced(t)'
  BY <1>1, <1>3, <1>5 DEF Balanced, Size
<1> QED
  BY <1>1, <1>6 DEF SpreadAt, InMigrateRouter

\* A set without one of its members has one less.
LEMMA OneLess ==
    ASSUME NEW S \in SUBSET Routers, NEW r \in S
    PROVE  Cardinality(S \ {r}) \in Nat /\ Cardinality(S) = Cardinality(S \ {r}) + 1
<1>1. IsFiniteSet(S)
  BY BoundsAssumption, FS_Subset DEF BoundsAssumption
<1>2. IsFiniteSet(S \ {r}) /\ Cardinality(S \ {r}) = Cardinality(S) - 1
  BY <1>1, FS_RemoveElement
<1> QED
  BY <1>1, <1>2, FS_CardinalityType

\* Where a turn begins and ends, and what is known inside of it.
LEMMA InTurnFacts ==
    ASSUME TInv, NEW t \in Tools, Arranged(t), InTurn(t)
    PROVE  /\ pos[t] \in Nat /\ pos[t] + 1 \in 1..Size /\ turn[t] + 1 <= Size
           /\ target[t] = order[t][pos[t] + 1] /\ source[t] = order[t][Mirror(pos[t] + 1)]
           /\ target[t] \in Agents /\ source[t] \in Agents /\ target[t] # source[t]
<1>1. MorePairs(t)
  <2>1. Len(order[t]) = Size
    BY OrderFacts DEF Arranged
  <2> QED
    BY <2>1 DEF InTurn, MorePairs
<1> QED
  BY <1>1, TurnFacts DEF InTurn

LEMMA SpreadPickRouter ==
    ASSUME TInv, StageInv, NEW t \in Tools, t \notin Noop, SpreadAt(t),
           NEW r \in todo[t], PickRouter(t, r)
    PROVE  SpreadAt(t)'
<1>1. /\ pc[t] = "pick" /\ pc'[t] = "remove" /\ stage[t] = 3 /\ stage'[t] = 3
      /\ host' = host /\ start' = start
      /\ order' = order /\ snap' = snap /\ turn' = turn /\ pos' = pos
      /\ target' = target /\ source' = source
      /\ low'[t] = low[t] /\ high'[t] = high[t] /\ low[t] < high[t]
      /\ todo'[t] = todo[t] \ {r} /\ router'[t] = r /\ todo[t] \subseteq Routers /\ r \in Routers
      /\ low[t] \in Int /\ high[t] \in Int
  BY DEF PickRouter, Goto, StageInv, TInv, TypeOK, neutron, counters, rebalance
<1>2. Arranged(t) /\ InTurn(t)
  BY <1>1 DEF SpreadAt
<1>3. Short(target[t], source[t]) /\ Moving(t)
  BY <1>1, <1>2 DEF InTurn
<1>4. \A a : On(a)' = On(a) /\ Load(host, a)' = Load(host, a) /\ Load(start, a)' = Load(start, a)
  BY <1>1 DEF On, Load
<1>5. Moving(t)'
  <2>1. Counted(t, low[t], high[t]) /\ low[t] + high[t] = Load(start, target[t]) + Load(start, source[t])
    BY <1>1, <1>3 DEF Moving
  <2>2. high[t] = Cardinality(todo[t] \ {r}) + 1 /\ todo[t] = (todo[t] \ {r}) \union {r}
    BY <1>1, <2>1, OneLess DEF Counted
  <2>3. /\ low'[t] = Load(host, target[t])'
        /\ high'[t] = Cardinality(todo'[t]) + 1
        /\ router'[t] \notin todo'[t] /\ On(source[t])' = todo'[t] \union {router'[t]}
    BY <1>1, <1>4, <2>1, <2>2 DEF Counted
  <2>4. low'[t] + high'[t] = Load(start, target[t])' + Load(start, source[t])'
    BY <1>1, <1>4, <2>1
  <2> QED
    BY <1>1, <2>3, <2>4 DEF Moving, InMigrateRouter
<1>6. Arranged(t)' /\ InTurn(t)'
  BY <1>1, <1>2, <1>3, <1>4, <1>5, TurnKept
<1> QED
  BY <1>1, <1>6 DEF SpreadAt, InMigrateRouter

LEMMA SpreadPairDone ==
    ASSUME TInv, StageInv, NEW t \in Tools, SpreadAt(t), PairDone(t)
    PROVE  SpreadAt(t)'
<1> DEFINE j == pos[t] + 1
           a == target[t]
           b == source[t]
<1>1. /\ pc[t] = "pick" /\ pc'[t] = "pairs" /\ stage[t] = 3 /\ stage'[t] = 3
      /\ host' = host /\ start' = start
      /\ order' = order /\ snap' = snap /\ turn'[t] = turn[t] + 1 /\ pos'[t] = j
      /\ low[t] \in Int /\ high[t] \in Int
      /\ todo[t] = {} \/ low[t] >= high[t]
  BY DEF PairDone, Goto, StageInv, TInv, TypeOK, neutron, counters
<1>2. Arranged(t) /\ InTurn(t)
  BY <1>1 DEF SpreadAt
<1>3. /\ pos[t] \in Nat /\ j \in 1..Size /\ turn[t] + 1 <= Size
      /\ a = order[t][j] /\ b = order[t][Mirror(j)]
  BY <1>2, InTurnFacts
<1>4. \A c : /\ On(c)' = On(c) /\ Had(c)' = Had(c)
             /\ Load(host, c)' = Load(host, c) /\ Load(start, c)' = Load(start, c)
  BY <1>1 DEF On, Had, Load
<1>5. Arranged(t)'
  <2>1. Size % 2 = 0 => pos'[t] = turn'[t]
    BY <1>1, <1>2 DEF Arranged
  <2> QED
    BY <1>1, <1>2, <1>3, <1>4, <2>1 DEF Arranged, Size
<1>6. ASSUME NEW k \in 1..Size, k # j PROVE PairAt(t, k)'
  <2>1. PairAt(t, k)
    BY <1>2, <1>6 DEF InTurn
  <2>2. (k <= pos'[t] <=> k <= pos[t]) /\ (k > pos'[t] <=> k > pos[t])
    BY <1>1, <1>3, <1>6, SizeIsNat
  <2> QED
    BY <1>1, <1>4, <2>1, <2>2, PairKept
<1>7. ASSUME NEW k \in 1..Size, k = j PROVE PairAt(t, k)'
  <2>1. order[t][k] = a /\ order[t][Mirror(k)] = b /\ k <= pos'[t] /\ ~ k > pos'[t]
    BY <1>1, <1>3, <1>7, SizeIsNat
  <2>2. ASSUME Short(a, b) PROVE Even(a, b)
    <3>1. Moving(t)
      BY <1>2, <2>2 DEF InTurn
    <3>2. /\ low[t] = Load(host, a) /\ On(b) = todo[t] /\ high[t] = Cardinality(todo[t])
          /\ low[t] <= high[t] + 1 /\ low[t] + high[t] = Load(start, a) + Load(start, b)
      BY <1>1, <3>1 DEF Moving, Counted
    <3>3. high[t] = Load(host, b) /\ low[t] \in Nat /\ high[t] \in Nat
      BY <3>2, LoadFacts
    <3>4. high[t] <= low[t]
      <4>1. todo[t] = {} => high[t] = 0
        BY <3>2, FS_EmptySet
      <4> QED
        BY <1>1, <3>3, <4>1
    <3> QED
      BY <3>2, <3>3, <3>4 DEF Even
  <2>3. ASSUME ~ Short(a, b), ~ Short(b, a) PROVE Same(a)
    <3>1. PairAt(t, j)
      BY <1>2, <1>3, <2>3 DEF InTurn
    <3> QED
      BY <1>3, <2>3, <3>1 DEF PairAt
  <2> QED
    BY <1>1, <1>4, <2>1, <2>2, <2>3, PairThen
<1>8. \A k \in 1..Size : PairAt(t, k)'
  BY <1>6, <1>7
<1> QED
  BY <1>1, <1>5, <1>8 DEF SpreadAt, InMigrateRouter, Size

\* The calls of migrate_router, none of which fails, take a router from the one agent to
\* the other and are counted when it is there.
LEMMA SpreadMoves ==
    ASSUME TInv, StageInv, NEW t \in Tools, SpreadAt(t), stage[t] = 3, faults' = faults,
           MigrateRouter(t)
    PROVE  SpreadAt(t)'
<1> USE DEF InMigrateRouter
<1> DEFINE a == target[t]
           b == source[t]
           r == router[t]
<1>1. /\ pc[t] \in InMigrateRouter
      /\ faults \in Nat /\ ~ Fault
  <2>1. faults \in Nat
    BY DEF TInv, TypeOK
  <2>2. ~ Fault
    BY <2>1 DEF Fault
  <2> QED
    BY <2>1, <2>2 DEF MigrateRouter, RemoveRouter, RemoveRefused, RemoveFails, VerifyRemoved,
       VerifyFails, AddRouter, AddRefused, AddFails, Confirm, ConfirmFails
<1>2. Arranged(t) /\ InTurn(t)
  BY <1>1 DEF SpreadAt
<1>3. Short(a, b) /\ Moving(t)
  BY <1>1, <1>2 DEF InTurn
<1>4. /\ a \in Agents /\ b \in Agents /\ a # b /\ a # NoAgent /\ b # NoAgent
      /\ r \in Routers /\ low[t] < high[t] /\ low[t] \in Int /\ high[t] \in Int
      /\ low[t] + high[t] = Load(start, a) + Load(start, b)
  <2>1. a \in Agents /\ b \in Agents /\ a # b
    BY <1>2, InTurnFacts
  <2>2. /\ r \in Routers /\ low[t] < high[t]
        /\ low[t] + high[t] = Load(start, a) + Load(start, b)
    BY <1>1, <1>3 DEF Moving
  <2>3. low[t] \in Int /\ high[t] \in Int
    BY DEF TInv, TypeOK
  <2> QED
    BY <2>1, <2>2, <2>3, NoAgentAssumption DEF NoAgentAssumption
<1>5. host \in [Routers -> Agents \union {NoAgent}]
  BY DEF TInv, TypeOK
<1>6. ASSUME start' = start, order'[t] = order[t], snap'[t] = snap[t], turn'[t] = turn[t],
             pos'[t] = pos[t], source'[t] = b, target'[t] = a, stage'[t] = 3,
             pc'[t] \in {"pick"} \union InMigrateRouter,
             \A c \in Agents : c \notin {a, b} => On(c)' = On(c),
             Moving(t)'
      PROVE  SpreadAt(t)'
  <2>1. Arranged(t)' /\ InTurn(t)'
    BY <1>2, <1>3, <1>6, TurnKept
  <2> QED
    BY <1>6, <2>1 DEF SpreadAt
<1>7. ASSUME start' = start PROVE \A c : Load(start, c)' = Load(start, c)
  BY <1>7 DEF Load
<1>8. Load(host, target[t])' = Cardinality(On(target[t])') /\ Load(host, a) = Cardinality(On(a))
  BY LoadFacts DEF Load, On
<1>9. CASE RemoveRouter(t)
  <2>1. /\ pc[t] = "remove" /\ pc'[t] = "verify" /\ stage'[t] = 3 /\ start' = start
        /\ order' = order /\ snap' = snap /\ turn' = turn /\ pos' = pos
        /\ source' = source /\ target' = target /\ router' = router /\ todo' = todo
        /\ low' = low /\ high' = high
        /\ host[r] = b /\ host' = [host EXCEPT ![r] = NoAgent]
    BY <1>9 DEF RemoveRouter, Unhost, Proceed, rebalance, hand, counts, loop, TInv, TypeOK
  <2>2. \A c \in Agents : On(c)' = IF c = b THEN On(c) \ {r} ELSE On(c)
    BY <1>4, <1>5, <2>1, NoAgentAssumption DEF On, NoAgentAssumption
  <2>3. low[t] = Load(host, a) /\ high[t] = Cardinality(todo[t]) + 1
        /\ r \notin todo[t] /\ On(b) = todo[t] \union {r}
    BY <1>3, <2>1 DEF Moving
  <2>4. On(b)' = todo[t] /\ On(a)' = On(a)
    <3>1. a' = a /\ b' = b
      BY <2>1
    <3> HIDE DEF a, b, r
    <3>2. On(a)' = On(a) /\ On(b)' = On(b) \ {r}
      BY <1>4, <2>2, <3>1
    <3> QED
      BY <2>3, <3>2
  <2>5. Counted(t, low[t], high[t] - 1)'
    <3>1. Cardinality(todo[t]) = high[t] - 1
      <4>1. Cardinality(todo[t]) \in Nat
        BY BoundsAssumption, FS_Subset, FS_CardinalityType DEF BoundsAssumption, TInv, TypeOK
      <4> QED
        BY <1>4, <2>3, <4>1
    <3>2. On(target[t])' = On(a) /\ On(source[t])' = todo[t]
      BY <2>1, <2>4 DEF On
    <3> QED
      BY <1>8, <2>1, <2>3, <3>1, <3>2 DEF Counted
  <2>6. host'[router'[t]] = NoAgent
    BY <1>4, <1>5, <2>1
  <2>7. low'[t] + high'[t] = Load(start, target[t])' + Load(start, source[t])'
    BY <1>4, <1>7, <2>1
  <2>8. Moving(t)'
    BY <1>4, <2>1, <2>5, <2>6, <2>7 DEF Moving
  <2> QED
    BY <1>6, <2>1, <2>2, <2>8
<1>10. CASE RemoveRefused(t)
  <2>1. On(b) = todo[t] \union {r} /\ host[r] # b
    BY <1>3, <1>10 DEF RemoveRefused, Moving
  <2> QED
    BY <2>1 DEF On
<1>11. CASE VerifyRemoved(t)
  <2>1. /\ pc[t] = "verify" /\ pc'[t] = "add" /\ stage'[t] = 3 /\ start' = start
        /\ order' = order /\ snap' = snap /\ turn' = turn /\ pos' = pos
        /\ source' = source /\ target' = target /\ router' = router /\ todo' = todo
        /\ low' = low /\ high' = high /\ host' = host
    BY <1>11 DEF VerifyRemoved, Proceed, rebalance, hand, counts, loop, TInv, TypeOK
  <2>2. \A c : On(c)' = On(c)
    BY <2>1 DEF On
  <2>3. Counted(t, low[t], high[t] - 1) /\ host[r] = NoAgent
    BY <1>3, <2>1 DEF Moving
  <2>4. Counted(t, low[t], high[t] - 1)'
    BY <1>8, <2>1, <2>2, <2>3 DEF Counted
  <2>5. low'[t] + high'[t] = Load(start, target[t])' + Load(start, source[t])'
    BY <1>4, <1>7, <2>1
  <2>6. Moving(t)'
    BY <1>4, <2>1, <2>3, <2>4, <2>5 DEF Moving
  <2> QED
    BY <1>6, <2>1, <2>2, <2>6
<1>12. CASE AddRouter(t)
  <2>1. /\ pc[t] = "add" /\ pc'[t] = "confirm" /\ stage'[t] = 3 /\ start' = start
        /\ order' = order /\ snap' = snap /\ turn' = turn /\ pos' = pos
        /\ source' = source /\ target' = target /\ router' = router /\ todo' = todo
        /\ low' = low /\ high' = high
        /\ host[r] = NoAgent /\ host' = [host EXCEPT ![r] = a]
    BY <1>12 DEF AddRouter, Rehost, Proceed, rebalance, hand, counts, loop, TInv, TypeOK
  <2>2. \A c \in Agents : On(c)' = IF c = a THEN On(c) \union {r} ELSE On(c)
    BY <1>4, <1>5, <2>1, NoAgentAssumption DEF On, NoAgentAssumption
  <2>3. Counted(t, low[t], high[t] - 1)
    BY <1>3, <2>1 DEF Moving
  <2>4. On(b)' = On(b) /\ On(a)' = On(a) \union {r} /\ r \notin On(a)
    <3>1. r \notin On(a)
      BY <1>4, <2>1 DEF On
    <3>2. a' = a /\ b' = b
      BY <2>1
    <3> HIDE DEF a, b, r
    <3> QED
      BY <1>4, <2>2, <3>1, <3>2
  <2>5. Cardinality(On(a) \union {r}) = Load(host, a) + 1
    <3>1. IsFiniteSet(On(a)) /\ r \notin On(a)
      BY <2>4, LoadFacts
    <3>2. Cardinality(On(a) \union {r}) = Cardinality(On(a)) + 1
      BY <3>1, FS_AddElement
    <3> QED
      BY <1>8, <3>2
  <2>6. Counted(t, low[t] + 1, high[t] - 1)'
    <3>1. On(target[t])' = On(a) \union {r} /\ On(source[t])' = On(b)
      BY <2>1, <2>4 DEF On
    <3> QED
      BY <1>8, <2>1, <2>3, <2>5, <3>1 DEF Counted
  <2>7. low'[t] + high'[t] = Load(start, target[t])' + Load(start, source[t])'
    BY <1>4, <1>7, <2>1
  <2>8. Moving(t)'
    BY <1>4, <2>1, <2>6, <2>7 DEF Moving
  <2> QED
    BY <1>6, <2>1, <2>2, <2>8
<1>13. CASE AddRefused(t)
  BY <1>3, <1>13 DEF AddRefused, Moving
<1>14. CASE Confirm(t)
  <2>1. /\ pc[t] = "confirm" /\ pc'[t] = "pick" /\ stage'[t] = 3 /\ start' = start
        /\ order' = order /\ snap' = snap /\ turn' = turn /\ pos' = pos
        /\ source' = source /\ target' = target /\ todo' = todo /\ host' = host
        /\ low'[t] = low[t] + 1 /\ high'[t] = high[t] - 1
    BY <1>14 DEF Confirm, Caller, neutron, counters, rebalance, loop, TInv, TypeOK
  <2>2. \A c : On(c)' = On(c)
    BY <2>1 DEF On
  <2>3. Counted(t, low[t] + 1, high[t] - 1)
    BY <1>3, <2>1 DEF Moving
  <2>4. Counted(t, low[t], high[t])'
    BY <1>8, <2>1, <2>2, <2>3 DEF Counted
  <2>5. low'[t] + high'[t] = Load(start, target[t])' + Load(start, source[t])'
    <3>1. Load(start, target[t])' = Load(start, a) /\ Load(start, source[t])' = Load(start, b)
      BY <1>7, <2>1
    <3>2. Load(start, a) \in Nat /\ Load(start, b) \in Nat
      BY LoadFacts
    <3> QED
      BY <1>4, <2>1, <3>1, <3>2
  <2>6. low'[t] <= high'[t] + 1
    BY <1>4, <2>1
  <2>7. Moving(t)'
    BY <2>1, <2>4, <2>5, <2>6 DEF Moving
  <2> QED
    BY <1>6, <2>1, <2>2, <2>7
<1> QED
  BY <1>1, <1>9, <1>10, <1>11, <1>12, <1>13, <1>14
     DEF MigrateRouter, RemoveFails, VerifyFails, AddFails, ConfirmFails

LEMMA SpreadOwn ==
    ASSUME TInv, StageInv, NEW t \in Tools, t \notin Noop, SpreadAt(t), faults' = faults,
           Start(t) \/ Step(t)
    PROVE  SpreadAt(t)'
<1>1. CASE MigrateRouter(t)
  <2>1. stage' = stage
    BY <1>1 DEF MigrateRouter, RemoveRouter, RemoveRefused, RemoveFails, VerifyRemoved,
         VerifyFails, AddRouter, AddRefused, AddFails, Confirm, ConfirmFails, Raise, Proceed
  <2>2. CASE stage[t] = 3
    BY <1>1, <2>2, SpreadMoves
  <2>3. CASE stage[t] # 3
    BY <2>1, <2>3 DEF SpreadAt
  <2> QED
    BY <2>2, <2>3
<1>2. CASE RebalanceStep(t)
  BY <1>2, SpreadLists, SpreadTakePair, SpreadSamePair, SpreadPairsDone, SpreadPickRouter,
     SpreadPairDone DEF RebalanceStep
<1>3. CASE Start(t) \/ CheckStep(t) \/ MigrateStep(t)
  <2>1. stage' = stage /\ stage[t] # 3
    BY <1>3, SMTT(20) DEF Start, CheckStep, MigrateStep, Goto, StageInv, CheckList, CheckAgent, CheckEnds,
         MigrateList, Poll, DelayOver, TakeAgent, AgentsDone, TakeRouter, NoneAlive, RoutersDone
  <2> QED
    BY <2>1 DEF SpreadAt
<1>4. ASSUME NEW k \in 1..3, NextStage(t, k) PROVE SpreadAt(t)'
  <2>1. stage'[t] = k /\ pc'[t] = Entry[k]
    BY <1>4 DEF NextStage, Goto, TInv, TypeOK
  <2>2. k = 3 => pc'[t] = "snap"
    BY <2>1 DEF Entry
  <2> QED
    BY <2>1, <2>2 DEF SpreadAt, InMigrateRouter
<1>5. CASE NoMoreStages(t)
  <2>1. pc[t] = "next" /\ pc'[t] = "done" /\ stage' = stage
    BY <1>5 DEF NoMoreStages, Goto, TInv, TypeOK
  <2>2. Balanced(t) => Balanced(t)'
    BY <1>5, BalancedKept DEF NoMoreStages, neutron, rebalance, counters
  <2> QED
    BY <2>1, <2>2 DEF SpreadAt, InMigrateRouter
<1> QED
  BY <1>1, <1>2, <1>3, <1>4, <1>5 DEF Step, RunStep

\* A run that has come to its check and no further moves nothing.
LEMMA CheckMovesNone ==
    ASSUME TInv, StageInv, NEW t \in Tools, stage'[t] <= 1, Start(t) \/ Step(t)
    PROVE  host' = host /\ start' = start
<1>1. stage[t] \in Nat /\ stage'[t] \in Nat /\ stage[t] <= stage'[t]
  <2>1. TInv'
    BY TypeStep DEF Next
  <2>2. stage \in [Tools -> 0..3] /\ stage' \in [Tools -> 0..3]
    BY <2>1 DEF TInv, TypeOK
  <2> QED
    BY <2>2, Forward
<1>2. stage[t] <= 1
  BY <1>1
<1>3. CASE Start(t) \/ NoMoreStages(t) \/ CheckStep(t) \/ \E k \in 1..3 : NextStage(t, k)
  BY <1>3 DEF Start, NoMoreStages, CheckStep, CheckList, CheckAgent, CheckEnds, NextStage,
              neutron, counters
<1>4. CASE MigrateStep(t)
  BY <1>2, <1>4 DEF StageInv, MigrateStep, MigrateList, Poll, DelayOver, TakeAgent, AgentsDone,
                    TakeRouter, NoneAlive, RoutersDone, Goto
<1>5. CASE MigrateRouter(t)
  BY <1>2, <1>5 DEF StageInv, InMigrateRouter, MigrateRouter, RemoveRouter, RemoveRefused,
       RemoveFails, VerifyRemoved, VerifyFails, AddRouter, AddRefused, AddFails, Confirm, ConfirmFails,
       Raise, Goto
<1>6. CASE RebalanceStep(t)
  BY <1>2, <1>6 DEF StageInv, RebalanceStep, RebalanceList, SnapAgent, Arrange, TakePair, SamePair,
       PairsDone, PickRouter, PairDone, Goto
<1> QED
  BY <1>3, <1>4, <1>5, <1>6 DEF Step, RunStep

LEMMA SpreadStep == TInv /\ StageInv /\ SpreadInv /\ [Next]_vars => SpreadInv'
<1> SUFFICES ASSUME TInv, StageInv, SpreadInv, [Next]_vars, NEW t \in Tools, Solo(t)'
             PROVE  SpreadAt(t)'
  BY DEF SpreadInv
<1>1. faults \in Nat /\ flaps \in Nat /\ faults' = 0 /\ flaps' = 0 /\ t \notin Noop
  BY DEF TInv, TypeOK, Solo, Quiet, Alone, Writers
<1>2. faults = 0 /\ flaps = 0 /\ Alone(t) => SpreadAt(t)
  BY <1>1 DEF SpreadInv, Solo, Quiet
<1>3. CASE UNCHANGED vars
  <2>1. Alone(t)
    BY <1>3 DEF Solo, Alone, Writers, vars
  <2> QED
    BY <1>1, <1>2, <1>3, <2>1, SpreadKept DEF vars, neutron, loop, hand, rebalance, counts, counters
<1>4. ASSUME NEW a \in Agents, Flap(a) PROVE FALSE
  BY <1>1, <1>4 DEF Flap
<1>5. ASSUME NEW u \in Tools, ReadFails(u) \/ Kill(u) PROVE FALSE
  BY <1>1, <1>5 DEF ReadFails, Kill, Fault
<1>6. ASSUME NEW u \in Tools, Start(u) \/ Step(u) PROVE SpreadAt(t)'
  <2>1. UNCHANGED flaps /\ faults = 0
    BY <1>1, <1>6, OwnState, Forward
  <2>0. \A v \in Tools : stage[v] \in Nat /\ stage'[v] \in Nat /\ stage[v] <= stage'[v]
    <3>1. stage \in [Tools -> 0..3] /\ stage' \in [Tools -> 0..3]
      <4>1. TInv'
        BY TypeStep
      <4> QED
        BY <4>1 DEF TInv, TypeOK
    <3>2. stage[u] <= stage'[u] /\ \A v \in Tools \ {u} : stage'[v] = stage[v]
      BY <1>6, OwnState, Forward
    <3> QED
      BY <3>1, <3>2
  <2>2. SpreadAt(t)
    <3>1. ASSUME NEW v \in Writers \ {t} PROVE stage[v] <= 1
      <4>1. stage'[v] <= 1 /\ v \in Tools
        BY <3>1 DEF Solo, Alone, Writers
      <4> QED
        BY <2>0, <4>1
    <3>2. Alone(t)
      BY <3>1 DEF Solo, Alone, Writers
    <3> QED
      BY <1>1, <1>2, <2>1, <3>2
  <2>3. CASE u = t
    BY <1>1, <1>6, <2>1, <2>2, <2>3, SpreadOwn
  <2>4. CASE u # t
    <3>1. t \in Tools \ {u} /\ (u \in Noop \/ stage'[u] <= 1)
      BY <2>4 DEF Solo, Alone, Writers
    <3>2. host' = host /\ start' = start
      BY <1>6, <3>1, NoopMovesNone, CheckMovesNone, OwnRebalance
    <3>3. /\ pc'[t] = pc[t] /\ stage'[t] = stage[t] /\ agents'[t] = agents[t]
          /\ todo'[t] = todo[t] /\ source'[t] = source[t] /\ target'[t] = target[t]
          /\ router'[t] = router[t]
      BY <1>6, <3>1, OwnState
    <3>4. /\ snap'[t] = snap[t] /\ order'[t] = order[t] /\ turn'[t] = turn[t]
          /\ pos'[t] = pos[t] /\ low'[t] = low[t] /\ high'[t] = high[t]
      BY <1>6, <3>1, OwnRebalance
    <3> QED
      BY <2>2, <3>2, <3>3, <3>4, SpreadKept
  <2> QED
    BY <2>3, <2>4
<1> QED
  BY <1>3, <1>4, <1>5, <1>6 DEF Next

LEMMA SpreadInvariant == Spec => [](TInv /\ SpreadInv)
<1>1. Init => SpreadInv
  BY DEF Init, SpreadInv, SpreadAt
<1> QED
  BY TypeInit, TypeStep, StageInit, StageStep, SpreadStep, <1>1, PTL DEF Spec

\* What a pair has at the end of its turns.
LEMMA PairEnds ==
    ASSUME NEW t \in Tools, Arranged(t), \A k \in 1..Size : PairAt(t, k), NEW k \in 1..Size,
           NEW a, NEW b, a = order[t][k], b = order[t][Mirror(k)]
    PROVE  /\ Short(a, b) /\ k <= pos[t] => Even(a, b)
           /\ Short(b, a) /\ Mirror(k) <= pos[t] => Even(b, a)
           /\ Short(a, b) /\ k > pos[t] => Same(a)
           /\ Short(b, a) /\ Mirror(k) > pos[t] => Same(a)
           /\ ~ Short(a, b) /\ ~ Short(b, a) => Same(a) /\ Same(b)
<1>1. Mirror(k) \in 1..Size /\ Mirror(Mirror(k)) = k
  BY MirrorFacts
<1>2. PairAt(t, k) /\ PairAt(t, Mirror(k))
  BY <1>1
<1> QED
  BY <1>1, <1>2 DEF PairAt

\* However many agents and routers there are, the two agents of a pair end with the same
\* number of routers or one more, if their number is even (PairsEven).
THEOREM PairsEvenCorrect == Spec => []PairsEven
<1>1. TInv /\ SpreadInv => PairsEven
  <2> SUFFICES ASSUME TInv, SpreadInv, NEW t \in Tools, Rebalanced(t), Size % 2 = 0,
                      NEW k \in 1..Len(order[t])
               PROVE  Load(host, order[t][k]) <= Load(host, order[t][Len(order[t]) + 1 - k]) + 1
    BY DEF PairsEven, Size
  <2>1. Balanced(t)
    BY DEF SpreadInv, SpreadAt, Rebalanced, Solo
  <2>2. order[t][k] \in Agents
    BY DEF TInv, TypeOK
  <2>3. Size # 0
    BY <2>2, BoundsAssumption, FS_EmptySet DEF Size, BoundsAssumption
  <2>4. Arranged(t) /\ turn[t] = Size /\ \A m \in 1..Size : PairAt(t, m)
    <3>1. Size > 1
      BY <2>3, SizeIsNat
    <3> QED
      BY <2>1, <3>1, SizeIsNat DEF Balanced
  <2>5. /\ Len(order[t]) = Size /\ k \in 1..Size
        /\ Len(order[t]) + 1 - k = Mirror(k)
        /\ k <= pos[t] /\ Mirror(k) <= pos[t]
    <3>1. Len(order[t]) = Size /\ pos[t] = Size
      BY <2>4, OrderFacts DEF Arranged
    <3> QED
      BY <3>1, MirrorFacts, SizeIsNat DEF Mirror
  <2> DEFINE a == order[t][k]
             b == order[t][Mirror(k)]
  <2>6. /\ Load(host, a) \in Nat /\ Load(host, b) \in Nat
        /\ Load(start, a) \in Nat /\ Load(start, b) \in Nat
        /\ Same(a) => Load(host, a) = Load(start, a)
        /\ Same(b) => Load(host, b) = Load(start, b)
    BY LoadFacts DEF Same
  <2>7. /\ Short(a, b) => Even(a, b)
        /\ Short(b, a) => Even(b, a)
        /\ ~ Short(a, b) /\ ~ Short(b, a) => Same(a) /\ Same(b)
    BY <2>4, <2>5, PairEnds
  <2>8. Load(host, a) <= Load(host, b) + 1
    <3> HIDE DEF a, b
    <3> QED
      BY <2>6, <2>7 DEF Short, Even
  <2> QED
    BY <2>5, <2>8
<1> QED
  BY SpreadInvariant, <1>1, PTL

\* However many agents and routers there are, a rebalancing on its own makes no agent
\* fuller than the fullest was, and none emptier than the emptiest (SpreadNotWorse).
THEOREM SpreadCorrect == Spec => []SpreadNotWorse
<1>1. TInv /\ SpreadInv => SpreadNotWorse
  <2> SUFFICES ASSUME TInv, SpreadInv, NEW t \in Tools, Rebalanced(t), NEW a \in Agents
               PROVE  \E b, c \in Agents :
                         Load(start, b) <= Load(host, a) /\ Load(host, a) <= Load(start, c)
    BY DEF SpreadNotWorse
  <2>1. Balanced(t)
    BY DEF SpreadInv, SpreadAt, Rebalanced, Solo
  <2>2. Load(host, a) \in Nat /\ Load(start, a) \in Nat
        /\ (Same(a) => Load(host, a) = Load(start, a))
    BY LoadFacts DEF Same
  <2>3. CASE start = host
    BY <2>2, <2>3
  <2>4. CASE Arranged(t) /\ \A k \in 1..Size : PairAt(t, k)
    <3>1. PICK k \in 1..Size : order[t][k] = a
      BY <2>4, OrderFacts DEF Arranged
    <3>2. PICK b \in Agents : b = order[t][Mirror(k)]
      <4>1. order[t] \in [1..Size -> Agents] /\ Mirror(k) \in 1..Size
        BY <2>4, MirrorFacts, OrderFacts DEF Arranged
      <4> QED
        BY <4>1
    <3>3. Same(a) \/ (Short(a, b) /\ Even(a, b)) \/ (Short(b, a) /\ Even(b, a))
      <4>1. (k <= pos[t] \/ k > pos[t]) /\ (Mirror(k) <= pos[t] \/ Mirror(k) > pos[t])
        BY MirrorFacts, SizeIsNat DEF TInv, TypeOK
      <4> QED
        BY <2>4, <3>1, <3>2, <4>1, PairEnds
    <3>4. Load(host, b) \in Nat /\ Load(start, b) \in Nat
      BY LoadFacts
    <3>5. CASE Same(a)
      BY <2>2, <3>5
    <3>6. CASE Short(a, b) /\ Even(a, b)
      <4>1. Load(start, a) <= Load(host, a) /\ Load(host, a) <= Load(start, b)
        BY <2>2, <3>4, <3>6 DEF Short, Even
      <4> QED
        BY <4>1
    <3>7. CASE Short(b, a) /\ Even(b, a)
      <4>1. Load(start, b) <= Load(host, a) /\ Load(host, a) <= Load(start, a)
        BY <2>2, <3>4, <3>7 DEF Short, Even
      <4> QED
        BY <4>1
    <3> QED
      BY <3>3, <3>5, <3>6, <3>7
  <2> QED
    BY <2>1, <2>3, <2>4 DEF Balanced
<1> QED
  BY SpreadInvariant, <1>1, PTL
=============================================================================
