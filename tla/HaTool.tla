------------------------------- MODULE HaTool -------------------------------
(***************************************************************************)
(* neutron-ha-tool.py on the routers of the L3 agents: the check for       *)
(* offline agents, the migration of their routers and the rebalancing of   *)
(* the agents, run one after the other as the arguments ask.  The tool is  *)
(* started by hand or by cron on the controllers, so several may work on   *)
(* one Neutron server; every call of its API is a step of its own, and     *)
(* agents go and come back between them.                                   *)
(***************************************************************************)
EXTENDS Integers, Sequences, FiniteSets

CONSTANTS
    Tools,      \* runs of the script
    Args,       \* Args[t]: the stages that run t was asked for
    Noop,       \* the runs with --noop
    Now,        \* the runs with --now
    Agents,     \* L3 agents
    Routers,
    Delay,      \* TAKEOVER_DELAY, in polls
    MaxFaults,  \* bound on API calls that fail and runs that are killed
    MaxFlaps,   \* bound on agents going offline or coming back
    NoAgent,    \* a router that no agent hosts
    NoRouter    \* a run with no router in hand

Stages == <<"check", "migrate", "rebalance">>

ASSUME ArgsAssumption == Args \in [Tools -> SUBSET {Stages[k] : k \in 1..3}]
ASSUME NoAgentAssumption == NoAgent \notin Agents
ASSUME NoRouterAssumption == NoRouter \notin Routers
ASSUME BoundsAssumption ==
    /\ Delay \in Nat /\ MaxFaults \in Nat /\ MaxFlaps \in Nat
    /\ IsFiniteSet(Agents) /\ IsFiniteSet(Routers)

VARIABLES
    alive,    \* the alive flag of each agent
    host,     \* the agent that hosts each router
    pc,       \* where each run is
    stage,    \* the stage it is in: an index into Stages, 0 before the first
    dead,     \* agent_dead_list
    live,     \* agent_alive_list
    polls,    \* timeout
    agents,   \* the agents its loop has still to look at
    todo,     \* the routers its inner loop has still to look at
    source,   \* migrate_router's agent_id
    target,   \* migrate_router's target_id
    router,   \* the router in hand
    snap,     \* l3_agent_dict
    order,    \* ordered_l3_agent_list
    turn,     \* turns of the loop over the pairs
    pos,      \* i
    low,      \* low_agent_router_count
    high,     \* hgh_agent_router_count
    faults,   \* API failures and kills so far
    flaps,    \* agents gone or come back so far
    lost,     \* history: routers left without a host by a failure
    start     \* history: the hosts before the last rebalancing that moves routers

neutron == <<alive, host>>
migration == <<dead, live, polls>>
loop == <<agents, todo>>
hand == <<source, target, router>>
rebalance == <<snap, order, turn, pos>>
counts == <<low, high>>
counters == <<faults, flaps, lost, start>>
vars == <<neutron, pc, stage, migration, loop, hand, rebalance, counts, counters>>

Ended == {"done", "found", "skipped", "failed", "killed"}
Reading == {"check", "checkAgents", "list", "wait", "agents", "snap", "snapAgents"}
InMigrateRouter == {"remove", "verify", "add", "confirm"}
Pc == {"idle", "next", "routers", "pairs", "pick"} \union Ended \union Reading \union InMigrateRouter

TypeOK ==
    /\ alive \in [Agents -> BOOLEAN]
    /\ host \in [Routers -> Agents \union {NoAgent}]
    /\ pc \in [Tools -> Pc]
    /\ stage \in [Tools -> 0..3]
    /\ dead \in [Tools -> SUBSET Agents]
    /\ live \in [Tools -> SUBSET Agents]
    /\ polls \in [Tools -> 0..Delay]
    /\ agents \in [Tools -> SUBSET Agents]
    /\ todo \in [Tools -> SUBSET Routers]
    /\ source \in [Tools -> Agents \union {NoAgent}]
    /\ target \in [Tools -> Agents \union {NoAgent}]
    /\ router \in [Tools -> Routers \union {NoRouter}]
    /\ snap \in [Tools -> [Agents -> SUBSET Routers]]
    /\ order \in [Tools -> Seq(Agents)]
    /\ turn \in [Tools -> Nat]
    /\ pos \in [Tools -> Nat]
    /\ low \in [Tools -> Int]
    /\ high \in [Tools -> Int]
    /\ faults \in 0..MaxFaults
    /\ flaps \in 0..MaxFlaps
    /\ lost \in SUBSET Routers
    /\ start \in [Routers -> Agents \union {NoAgent}]

NoSnap == [a \in Agents |-> {}]

Init ==
    /\ alive \in [Agents -> BOOLEAN]
    /\ start \in [Routers -> Agents]
    /\ host = start
    /\ pc = [t \in Tools |-> "idle"]
    /\ stage = [t \in Tools |-> 0]
    /\ dead = [t \in Tools |-> {}]
    /\ live = [t \in Tools |-> {}]
    /\ polls = [t \in Tools |-> 0]
    /\ agents = [t \in Tools |-> {}]
    /\ todo = [t \in Tools |-> {}]
    /\ source = [t \in Tools |-> NoAgent]
    /\ target = [t \in Tools |-> NoAgent]
    /\ router = [t \in Tools |-> NoRouter]
    /\ snap = [t \in Tools |-> NoSnap]
    /\ order = [t \in Tools |-> <<>>]
    /\ turn = [t \in Tools |-> 0]
    /\ pos = [t \in Tools |-> 0]
    /\ low = [t \in Tools |-> 0]
    /\ high = [t \in Tools |-> 0]
    /\ faults = 0
    /\ flaps = 0
    /\ lost = {}

-----------------------------------------------------------------------------
(* Neutron                                                                  *)

Goto(t, here, there) ==
    /\ pc[t] = here
    /\ pc' = [pc EXCEPT ![t] = there]

On(a) == {r \in Routers : host[r] = a}          \* list_routers_on_l3_agent
DeadNow == {a \in Agents : ~ alive[a]}          \* agent_dead_id_list(list_agents())
AliveNow == Agents \ DeadNow

Fault == faults < MaxFaults /\ faults' = faults + 1

\* An agent's heartbeat stops or is there again.
Flap(a) ==
    /\ flaps < MaxFlaps
    /\ flaps' = flaps + 1
    /\ alive' = [alive EXCEPT ![a] = ~ @]
    /\ UNCHANGED <<host, pc, stage, migration, loop, hand, rebalance, counts, faults, lost, start>>

-----------------------------------------------------------------------------
(* run                                                                      *)

Start(t) ==
    /\ Goto(t, "idle", "next")
    /\ UNCHANGED <<neutron, stage, migration, loop, hand, rebalance, counts, counters>>

Entry == <<"check", "list", "snap">>

\* On to the next stage asked for: the tests of run, in their order.
NextStage(t, k) ==
    /\ k > stage[t]
    /\ Stages[k] \in Args[t]
    /\ \A j \in (stage[t] + 1)..(k - 1) : Stages[j] \notin Args[t]
    /\ Goto(t, "next", Entry[k])
    /\ stage' = [stage EXCEPT ![t] = k]
    /\ UNCHANGED <<neutron, migration, loop, hand, rebalance, counts, counters>>

NoMoreStages(t) ==
    /\ \A j \in (stage[t] + 1)..3 : Stages[j] \notin Args[t]
    /\ Goto(t, "next", "done")
    /\ UNCHANGED <<neutron, stage, migration, loop, hand, rebalance, counts, counters>>

\* A list call outside of a try raises: the script logs it and exits with 1.
ReadFails(t) ==
    /\ pc[t] \in Reading
    /\ Fault
    /\ pc' = [pc EXCEPT ![t] = "failed"]
    /\ UNCHANGED <<neutron, stage, migration, loop, hand, rebalance, counts, flaps, lost, start>>

Unhosted == {r \in Routers : host[r] = NoAgent}

\* The process is killed, perhaps inside of migrate_router.
Kill(t) ==
    /\ pc[t] \notin Ended \union {"idle"}
    /\ Fault
    /\ pc' = [pc EXCEPT ![t] = "killed"]
    /\ lost' = lost \union ({router[t]} \intersect Unhosted)
    /\ router' = [router EXCEPT ![t] = NoRouter]
    /\ UNCHANGED <<neutron, stage, migration, loop, source, target, rebalance, counts, flaps, start>>

-----------------------------------------------------------------------------
(* l3_agent_check                                                           *)

CheckList(t) ==
    /\ Goto(t, "check", "checkAgents")
    /\ agents' = [agents EXCEPT ![t] = DeadNow]
    /\ todo' = [todo EXCEPT ![t] = {}]
    /\ UNCHANGED <<neutron, stage, migration, hand, rebalance, counts, counters>>

CheckAgent(t, a) ==
    /\ Goto(t, "checkAgents", "checkAgents")
    /\ a \in agents[t]
    /\ agents' = [agents EXCEPT ![t] = @ \ {a}]
    /\ todo' = [todo EXCEPT ![t] = @ \union On(a)]
    /\ UNCHANGED <<neutron, stage, migration, hand, rebalance, counts, counters>>

\* sys.exit(2) when there is something to migrate: the later stages are skipped.
CheckEnds(t) ==
    /\ agents[t] = {}
    /\ Goto(t, "checkAgents", IF todo[t] # {} THEN "found" ELSE "next")
    /\ todo' = [todo EXCEPT ![t] = {}]
    /\ UNCHANGED <<neutron, stage, migration, agents, hand, rebalance, counts, counters>>

-----------------------------------------------------------------------------
(* l3_agent_migrate                                                         *)

MigrateList(t) ==
    /\ Goto(t, "list", IF DeadNow = {} THEN "next" ELSE IF t \in Now THEN "agents" ELSE "wait")
    /\ dead' = [dead EXCEPT ![t] = DeadNow]
    /\ live' = [live EXCEPT ![t] = AliveNow]
    /\ polls' = [polls EXCEPT ![t] = 0]
    /\ agents' = [agents EXCEPT ![t] = DeadNow]
    /\ UNCHANGED <<neutron, stage, todo, hand, rebalance, counts, counters>>

\* The delay: the numbers of dead agents are compared, not the agents.
CameOnline(t) == Cardinality(DeadNow) < Cardinality(dead[t])

\* mutant: the tool waits on while agents are coming back
PollWaits(t) ==
    /\ Goto(t, "wait", "wait")
    /\ polls[t] < Delay
    /\ polls' = [polls EXCEPT ![t] = IF DeadNow # dead[t] THEN 0 ELSE @ + 1]
    /\ UNCHANGED <<neutron, stage, dead, live, loop, hand, rebalance, counts, counters>>

\* mutant: one poll too many
PollLate(t) ==
    /\ polls[t] <= Delay
    /\ Goto(t, "wait", IF CameOnline(t) THEN "skipped" ELSE "wait")
    /\ polls' = [polls EXCEPT ![t] = @ + 1]
    /\ UNCHANGED <<neutron, stage, dead, live, loop, hand, rebalance, counts, counters>>

Poll(t) ==
    /\ polls[t] < Delay
    /\ Goto(t, "wait", IF CameOnline(t) THEN "skipped" ELSE "wait")
    /\ polls' = [polls EXCEPT ![t] = @ + 1]
    /\ UNCHANGED <<neutron, stage, dead, live, loop, hand, rebalance, counts, counters>>

DelayOver(t) ==
    /\ polls[t] = Delay
    /\ Goto(t, "wait", "agents")
    /\ UNCHANGED <<neutron, stage, migration, loop, hand, rebalance, counts, counters>>

\* mutant: only one of the offline agents is looked at
TakeAgentOnly(t, a) ==
    /\ Goto(t, "agents", "routers")
    /\ a \in agents[t]
    /\ agents' = [agents EXCEPT ![t] = {}]
    /\ source' = [source EXCEPT ![t] = a]
    /\ todo' = [todo EXCEPT ![t] = On(a)]
    /\ UNCHANGED <<neutron, stage, migration, target, router, rebalance, counts, counters>>

TakeAgent(t, a) ==
    /\ Goto(t, "agents", "routers")
    /\ a \in agents[t]
    /\ agents' = [agents EXCEPT ![t] = @ \ {a}]
    /\ source' = [source EXCEPT ![t] = a]
    /\ todo' = [todo EXCEPT ![t] = On(a)]
    /\ UNCHANGED <<neutron, stage, migration, target, router, rebalance, counts, counters>>

AgentsDone(t) ==
    /\ agents[t] = {}
    /\ Goto(t, "agents", "next")
    /\ UNCHANGED <<neutron, stage, migration, loop, hand, rebalance, counts, counters>>

\* random.choice among the agents that were alive before the delay.
TakeRouter(t, r, a) ==
    /\ Goto(t, "routers", IF t \in Noop THEN "routers" ELSE "remove")
    /\ r \in todo[t]
    /\ a \in live[t]
    /\ todo' = [todo EXCEPT ![t] = @ \ {r}]
    /\ target' = [target EXCEPT ![t] = a]
    /\ router' = [router EXCEPT ![t] = IF t \in Noop THEN NoRouter ELSE r]
    /\ UNCHANGED <<neutron, stage, migration, agents, source, rebalance, counts, counters>>

\* random.choice of an empty list, outside of the try: IndexError.
NoneAlive(t) ==
    /\ todo[t] # {}
    /\ live[t] = {}
    /\ Goto(t, "routers", "failed")
    /\ UNCHANGED <<neutron, stage, migration, loop, hand, rebalance, counts, counters>>

RoutersDone(t) ==
    /\ todo[t] = {}
    /\ Goto(t, "routers", "agents")
    /\ UNCHANGED <<neutron, stage, migration, loop, hand, rebalance, counts, counters>>

-----------------------------------------------------------------------------
(* migrate_router: remove, look, add, look.  Neutron answers a call with    *)
(* success, with success and nothing done (the note in migrate_router), or  *)
(* with an error before or after the effect.                                *)

Caller(t) == IF stage[t] = 3 THEN "pick" ELSE "routers"

\* The exception is logged by the caller, which goes on with the next router.
Raise(t) ==
    /\ pc' = [pc EXCEPT ![t] = Caller(t)]
    /\ router' = [router EXCEPT ![t] = NoRouter]
    /\ UNCHANGED <<stage, migration, loop, source, target, rebalance, counts, alive, flaps, start>>

Proceed(t, there) ==
    /\ pc' = [pc EXCEPT ![t] = there]
    /\ UNCHANGED <<stage, migration, loop, hand, rebalance, counts, alive, flaps, start, lost>>

Unhost(t) == host' = [host EXCEPT ![router[t]] = NoAgent]
Rehost(t) == host' = [host EXCEPT ![router[t]] = target[t]]

RemoveRouter(t) ==
    /\ pc[t] = "remove"
    /\ host[router[t]] = source[t]
    /\ Unhost(t)
    /\ Proceed(t, "verify")
    /\ UNCHANGED faults

\* RouterNotHostedByL3Agent: another run was faster.
RemoveRefused(t) ==
    /\ pc[t] = "remove"
    /\ host[router[t]] # source[t]
    /\ Raise(t)
    /\ UNCHANGED <<host, faults, lost>>

RemoveFails(t) ==
    /\ pc[t] = "remove"
    /\ host[router[t]] = source[t]
    /\ Fault
    /\ \/ Proceed(t, "verify") /\ UNCHANGED host
       \/ Raise(t) /\ UNCHANGED <<host, lost>>
       \/ Raise(t) /\ Unhost(t) /\ lost' = lost \union {router[t]}

\* mutant: a router that is gone from the list needs no further work
VerifyReturns(t) ==
    /\ pc[t] = "verify"
    /\ IF host[router[t]] = source[t] THEN Proceed(t, "add") ELSE Raise(t) /\ UNCHANGED lost
    /\ UNCHANGED <<host, faults>>

\* A router that is still there is only logged.
VerifyRemoved(t) ==
    /\ pc[t] = "verify"
    /\ Proceed(t, "add")
    /\ UNCHANGED <<host, faults>>

VerifyFails(t) ==
    /\ pc[t] = "verify"
    /\ Fault
    /\ Raise(t)
    /\ lost' = lost \union ({router[t]} \intersect Unhosted)
    /\ UNCHANGED host

AddRouter(t) ==
    /\ pc[t] = "add"
    /\ host[router[t]] = NoAgent
    /\ Rehost(t)
    /\ Proceed(t, "confirm")
    /\ UNCHANGED faults

\* RouterHostedByL3Agent: the removal took no effect, or another run was faster.
AddRefused(t) ==
    /\ pc[t] = "add"
    /\ host[router[t]] # NoAgent
    /\ Raise(t)
    /\ UNCHANGED <<host, faults, lost>>

AddFails(t) ==
    /\ pc[t] = "add"
    /\ host[router[t]] = NoAgent
    /\ Fault
    /\ \/ /\ pc' = [pc EXCEPT ![t] = "confirm"]
          /\ lost' = lost \union {router[t]}
          /\ UNCHANGED <<host, stage, migration, loop, hand, rebalance, counts, alive, flaps, start>>
       \/ Raise(t) /\ lost' = lost \union {router[t]} /\ UNCHANGED host
       \/ Raise(t) /\ Rehost(t) /\ UNCHANGED lost

\* mutant: the high agent keeps its count
ConfirmLow(t) ==
    /\ pc[t] = "confirm"
    /\ pc' = [pc EXCEPT ![t] = Caller(t)]
    /\ router' = [router EXCEPT ![t] = NoRouter]
    /\ low' = [low EXCEPT ![t] = IF stage[t] = 3 THEN @ + 1 ELSE @]
    /\ UNCHANGED <<neutron, stage, migration, loop, source, target, rebalance, high, counters>>

\* A router that is not there is only logged; rebalancing counts it as moved.
Confirm(t) ==
    /\ pc[t] = "confirm"
    /\ pc' = [pc EXCEPT ![t] = Caller(t)]
    /\ router' = [router EXCEPT ![t] = NoRouter]
    /\ low' = [low EXCEPT ![t] = IF stage[t] = 3 THEN @ + 1 ELSE @]
    /\ high' = [high EXCEPT ![t] = IF stage[t] = 3 THEN @ - 1 ELSE @]
    /\ UNCHANGED <<neutron, stage, migration, loop, source, target, rebalance, counters>>

ConfirmFails(t) ==
    /\ pc[t] = "confirm"
    /\ Fault
    /\ Raise(t)
    /\ UNCHANGED <<host, lost>>

-----------------------------------------------------------------------------
(* l3_agent_rebalance                                                       *)

\* All agents, offline ones too.
RebalanceList(t) ==
    /\ Goto(t, "snap", IF Cardinality(Agents) <= 1 THEN "next" ELSE "snapAgents")
    /\ agents' = [agents EXCEPT ![t] = Agents]
    /\ start' = IF t \in Noop THEN start ELSE host
    /\ UNCHANGED <<neutron, stage, migration, todo, hand, rebalance, counts, faults, flaps, lost>>

SnapAgent(t, a) ==
    /\ Goto(t, "snapAgents", "snapAgents")
    /\ a \in agents[t]
    /\ agents' = [agents EXCEPT ![t] = @ \ {a}]
    /\ snap' = [snap EXCEPT ![t][a] = On(a)]
    /\ UNCHANGED <<neutron, stage, migration, todo, hand, order, turn, pos, counts, counters>>

\* The dict's items sorted by the length of the agent's id: ids are all of one
\* length, so this is any order.
Orders == {p \in [1..Cardinality(Agents) -> Agents] : {p[k] : k \in DOMAIN p} = Agents}

Arrange(t, p) ==
    /\ agents[t] = {}
    /\ Goto(t, "snapAgents", "pairs")
    /\ order' = [order EXCEPT ![t] = p]
    /\ turn' = [turn EXCEPT ![t] = 0]
    /\ pos' = [pos EXCEPT ![t] = 0]
    /\ UNCHANGED <<neutron, stage, migration, loop, hand, snap, counts, counters>>

LowAgent(t) == order[t][pos[t] + 1]
HighAgent(t) == order[t][Len(order[t]) - pos[t]]

\* num_agents-1/2 is num_agents: the loop goes over the whole list.
MorePairs(t) == turn[t] < Len(order[t])

\* The counts are those of the lists made at the start.
TakePair(t) ==
    /\ Goto(t, "pairs", "pick")
    /\ MorePairs(t)
    /\ LowAgent(t) # HighAgent(t)
    /\ target' = [target EXCEPT ![t] = LowAgent(t)]
    /\ source' = [source EXCEPT ![t] = HighAgent(t)]
    /\ low' = [low EXCEPT ![t] = Cardinality(snap[t][LowAgent(t)])]
    /\ high' = [high EXCEPT ![t] = Cardinality(snap[t][HighAgent(t)])]
    /\ todo' = [todo EXCEPT ![t] = snap[t][HighAgent(t)]]
    /\ UNCHANGED <<neutron, stage, migration, agents, router, rebalance, counters>>

\* continue: the turn is over and i is as before.
SamePair(t) ==
    /\ Goto(t, "pairs", "pairs")
    /\ MorePairs(t)
    /\ LowAgent(t) = HighAgent(t)
    /\ turn' = [turn EXCEPT ![t] = @ + 1]
    /\ UNCHANGED <<neutron, stage, migration, loop, hand, snap, order, pos, counts, counters>>

PairsDone(t) ==
    /\ ~ MorePairs(t)
    /\ Goto(t, "pairs", "next")
    /\ UNCHANGED <<neutron, stage, migration, loop, hand, rebalance, counts, counters>>

\* mutant: equal counts are no reason to stop
PickRouterEqual(t, r) ==
    /\ Goto(t, "pick", IF t \in Noop THEN "pick" ELSE "remove")
    /\ r \in todo[t]
    /\ low[t] <= high[t]
    /\ todo' = [todo EXCEPT ![t] = @ \ {r}]
    /\ router' = [router EXCEPT ![t] = IF t \in Noop THEN NoRouter ELSE r]
    /\ UNCHANGED <<neutron, stage, migration, agents, source, target, rebalance, counts, counters>>

PickRouter(t, r) ==
    /\ Goto(t, "pick", IF t \in Noop THEN "pick" ELSE "remove")
    /\ r \in todo[t]
    /\ low[t] < high[t]
    /\ todo' = [todo EXCEPT ![t] = @ \ {r}]
    /\ router' = [router EXCEPT ![t] = IF t \in Noop THEN NoRouter ELSE r]
    /\ low' = [low EXCEPT ![t] = IF t \in Noop THEN @ + 1 ELSE @]
    /\ high' = [high EXCEPT ![t] = IF t \in Noop THEN @ - 1 ELSE @]
    /\ UNCHANGED <<neutron, stage, migration, agents, source, target, rebalance, counters>>

PairDone(t) ==
    /\ todo[t] = {} \/ low[t] >= high[t]
    /\ Goto(t, "pick", "pairs")
    /\ pos' = [pos EXCEPT ![t] = @ + 1]
    /\ turn' = [turn EXCEPT ![t] = @ + 1]
    /\ UNCHANGED <<neutron, stage, migration, loop, hand, snap, order, counts, counters>>

-----------------------------------------------------------------------------
RunStep(t) ==
    \/ \E k \in 1..3 : NextStage(t, k)
    \/ NoMoreStages(t)

CheckStep(t) ==
    \/ CheckList(t)
    \/ \E a \in agents[t] : CheckAgent(t, a)
    \/ CheckEnds(t)

MigrateStep(t) ==
    \/ MigrateList(t) \/ Poll(t) \/ DelayOver(t)
    \/ \E a \in agents[t] : TakeAgent(t, a)
    \/ AgentsDone(t)
    \/ \E r \in todo[t], a \in live[t] : TakeRouter(t, r, a)
    \/ NoneAlive(t) \/ RoutersDone(t)

MigrateRouter(t) ==
    \/ RemoveRouter(t) \/ RemoveRefused(t) \/ RemoveFails(t)
    \/ VerifyRemoved(t) \/ VerifyFails(t)
    \/ AddRouter(t) \/ AddRefused(t) \/ AddFails(t)
    \/ Confirm(t) \/ ConfirmFails(t)

RebalanceStep(t) ==
    \/ RebalanceList(t)
    \/ \E a \in agents[t] : SnapAgent(t, a)
    \/ \E p \in Orders : Arrange(t, p)
    \/ TakePair(t) \/ SamePair(t) \/ PairsDone(t)
    \/ \E r \in todo[t] : PickRouter(t, r)
    \/ PairDone(t)

Step(t) ==
    RunStep(t) \/ CheckStep(t) \/ MigrateStep(t) \/ MigrateRouter(t) \/ RebalanceStep(t)

Next ==
    \/ \E t \in Tools : Start(t) \/ ReadFails(t) \/ Kill(t) \/ Step(t)
    \/ \E a \in Agents : Flap(a)

Spec == Init /\ [][Next]_vars

\* A started run is scheduled and the Neutron server answers it; no call has to fail
\* for the run to go on.
FairSpec == Spec /\ \A t \in Tools : WF_vars(Step(t))

-----------------------------------------------------------------------------
(* Properties                                                               *)

Quiet == faults = 0 /\ flaps = 0
Writers == Tools \ Noop

\* The routers a run has taken from their agent and is about to give another.
InHand == {router[t] : t \in {u \in Tools : pc[u] \in {"verify", "add"}}}

\* Runs that work on the same routers do not lose any between them: a router
\* without a host is in some run's hands or was lost to a failed call or a kill,
\* and each of these costs one router at most (migrate_router, the excepts around it).
NoRouterForgotten ==
    /\ Unhosted \subseteq lost \union InHand
    /\ Cardinality(lost) <= faults

\* If nothing fails and the agents stay as they are, a migration leaves every
\* router on an agent that is online, also when several migrate at the same time
\* (the two loops of l3_agent_migrate); a rebalancing may undo that.
AtRest(t) == pc[t] \in Ended \union {"idle"} \/ (pc[t] = "next" /\ stage[t] <= 2)
Migrated(t) == "migrate" \in Args[t] /\ stage[t] = 2 /\ pc[t] \in {"next", "done"}

Evacuated ==
    Quiet /\ (\A t \in Writers : AtRest(t) /\ stage[t] <= 2) /\ (\E t \in Writers : Migrated(t))
        => \A r \in Routers : host[r] \in AliveNow

Load(h, a) == Cardinality({r \in Routers : h[r] = a})

\* No other run that moves routers has come further than its check.
Alone(t) == t \in Writers /\ \A u \in Writers \ {t} : stage[u] <= 1

Rebalanced(t) == Quiet /\ Alone(t) /\ pc[t] = "done" /\ stage[t] = 3

\* A rebalancing on its own does not make the fullest agent fuller or the
\* emptiest emptier, although its counts are those of the lists made at the start
\* (l3_agent_rebalance).

SpreadNotWorse ==
    \A t \in Tools : Rebalanced(t) =>
        \A a \in Agents : \E b, c \in Agents :
            Load(start, b) <= Load(host, a) /\ Load(host, a) <= Load(start, c)

\* With an even number of agents, the two agents of a pair end with the same
\* number of routers, or one more (the pairs are examined both ways around).
PairsEven ==
    \A t \in Tools : Rebalanced(t) /\ Cardinality(Agents) % 2 = 0 =>
        \A k \in 1..Len(order[t]) :
            Load(host, order[t][k]) <= Load(host, order[t][Len(order[t]) + 1 - k]) + 1

\* Every run ends, whichever of its calls fail, are refused because another run was
\* faster or take no effect, and whether or not agents come back during the delay.
EveryRunEnds == \A t \in Tools : pc[t] = "next" ~> pc[t] \in Ended
=============================================================================
