# Verification of the Compass adapters

compass-adapters is what Compass installs a cluster with: cobbler snippets that
put a host to work once its operating system is there, chef cookbooks that make
an OpenStack cloud of the hosts, ansible roles that do the same in another way,
and a container that checks the health of the result. This directory holds TLA+
models of the parts of it that have a state of their own and run beside each
other, the configurations TLC checks them with, and proofs for TLAPS.

Paths below are relative to the root of the repository; line numbers are those
of the modelled commit. `PROJECT.json` names, for every definition, the lines
it stands for, and lists the hazards each property is aimed at.

    tlc -config ChefRunSafety.cfg MCChefRun        model-check one run
    tlapm ChefRunProofs.tla                        check the proofs of one module


## 1. Inventory

### 1.1 Modelled

**Chef client runner** (`cobbler/snippets/kickstart_chef_run.sh`, its boot
service `kickstart_chef_init`; the `preseed_` and `suse_` snippets are the same
for Debian and SUSE).
*State:* the pid file in /tmp, the process table, a `.done` file per node, the
shell variables of each script, the crontab; on the servers, the nodes chef
knows and the nodes Compass has as ready. *Operations:* test and write the pid
file, list the nodes, run chef-client for each, report, sleep and start over;
boot; a tick of cron. *Interactions:* several scripts (the boot service's and
cron's) meet in the pid file and the process table; knife and wget reach the
servers over the network. *Hard:* a pid file tested and written in two steps,
pids that are reused, reboots between any two steps, reports whose loss nobody
notices, one node failing among several. *Correct* when scripts exclude each
other, Compass is never told more than is true, and every node is reported at
last.

**Rally health check** (`chef/cookbooks/compass-rally/files/default/check_health.py`).
*State:* a pid file, the Rally database's deployment and task records, a pool of
worker processes with their chunks of tasks, the reports at Compass. *Operations:*
open the reports, recreate the deployment, hand out the tasks, run one, collect
its results into a report, send it; error handling through a decorator. *Hard:*
worker processes that share the database and the pid file; exceptions of two
kinds at every step, a nested decorator that swallows the inner one; two runs at
once; arithmetic over lists that may be shorter than expected. *Correct* when no
task is lost or run twice, each report is settled once, a run always ends, and
the numbers in a report are those of the results.

**Neutron HA tool** (`chef/cookbooks/openstack-network/files/default/neutron-ha-tool.py`,
started by the cron jobs of `recipes/server.rb`).
*State:* in Neutron, which agents are alive and which router or network is on
which; in a run, lists read from there that grow old. *Operations:* check,
migrate the routers of dead agents, rebalance, replicate networks to DHCP
agents. *Hard:* every controller's cron starts the tool every minute, a
migration removes a router and then adds it elsewhere, any call may fail, agents
come and go, the lists are used long after they were read. *Correct* when no
router is left without a host but for a failure, a migration empties the dead
agents, a rebalancing balances, every network gets everywhere.

**Node election and shared keys** (`node_election` in
`openstack-identity/libraries/default.rb` and, word for word, in `openssh`; the
keystone signing keys in `openstack-identity/recipes/server.rb`; the ssh key
pair in `openssh/providers/key.rb`).
*State:* tags and attributes of the nodes on the chef server, its search index,
the key files of each node. *Operations:* search by tag, search by role, tag and
save; make the keys, save them part by part or at once, take them over, write
the files. *Hard:* the index lags behind the nodes; chef-client runs interleave
over the cluster and are killed half way. *Correct* when one node is elected and
no node ends with a mixture of two sets of keys.

**Keepalived master** (`keepalived/libraries/default.rb`, `recipes/default.rb`).
*State:* the same tags; the state MASTER or BACKUP that a node's attributes keep
from its first run; keepalived.conf. *Operations:* elect, take the tag from the
later tagged nodes and save each of them whole, decide, converge, save the node.
*Hard:* saving another node from a copy that is old; a state that outlives the
tag it was derived from. *Correct* when one node at most starts as the master
and the elections never leave none tagged.

**PLUMgrid plugin** (`ansible/roles/plumgrid-plugin/templates/plumgrid_plugin.py`,
calling the PLUMgrid Director through `plumlib.py`).
*State:* Neutron's database with its open transactions, the Director's objects,
the lock of the port methods. *Operations:* create, update, delete of networks,
ports, subnets, routers, floating ips, security groups and rules; interfaces.
*Interactions:* most methods write to the database and call the Director before
they commit; floating ips and the deletion of rules have no transaction around
the two. *Hard:* the Director's effects are not rolled back; requests run in
several workers; a commit can fail after the Director was told; the arithmetic
of allocation pools. *Correct* when database and Director agree but where a
failure parted them, and the Director never has an object without what it
belongs to.

**KairosDB writer** (`collectd/files/default/kairosdb_writer.py`).
*State:* one socket and one lock shared by collectd's write threads, the time of
the last attempt to connect. *Operations:* connect, build the lines, send, give
the socket up. *Hard:* the socket is stored before it is connected; it is tested
under the lock and used after the lock was released and taken again; two nested
exception handlers. *Correct* when the lock is always released, messages are not
mixed, attempts are spaced, and the writer is connected again at last.

### 1.2 Not modelled, and why

- *Keystone registration* (`openstack-identity/providers/register.rb`): each
  action is a GET of Keystone's API and a POST when nothing was found (line 91).
  Whether two controllers can create the same thing twice is decided by
  Keystone's own uniqueness checks, which are not in the repository.
- *Ceph monitors and OSDs* (`ceph/recipes/mon.rb`, `osd.rb`): the secrets are
  shared as keystone's keys are (line 74 waits for those of the first node); the
  rest is the quorum of ceph-mon and the commands of ceph.
- *Swift ring script* (`openstack-object-storage/providers/ring_script.rb`): one
  pass that prints commands (the flag of line 123 goes over three rings); what
  these do to a ring is swift-ring-builder's logic.
- *Swift disks and mounts*: one pass of parted, mkfs and mount over a host's disks.
- *Search helpers of the cookbooks* (`openstack-common/libraries`): look-ups without state.
- *The other cookbooks of OpenStack services, haproxy, rabbitmq clustering, block
  storage*: declarations that chef converges in order; what their nodes do to one
  another goes through the search modelled in NodeElection.
- *Community cookbooks, cobbler's stock settings, snippets and kickstarts, the trigger
  `migrate_ks.py`, ansible task lists and templates* (among them the dashboard's
  `local_settings.py`, a file of settings): third-party or sequential.
- *`python/files/default/get-pip.py`*: pip itself, encoded, and most of the
  repository's lines of Python.
- *`collectd/files/default/rabbitmq_info.py`* and the other collectd readers: they
  poll a service and pass numbers on. *`openstack-compute/files/default/add_floaters.py`*:
  an argument parser around commands of nova-manage and neutron, run once.
- *`docker-build/rally/check_health.py`*: an older copy of the health check. It
  differs in logging and in the state of a report (see 6).


## 2. Modules

| Module | Models | Role |
|---|---|---|
| `DeployProgress` | – | abstract: a node is registered, converged, reported; nothing is taken back |
| `ChefRun` | runner, boot service, cron, servers | implements DeployProgress |
| `HealthBoard` | – | abstract: each report opened once, settled at most once |
| `HealthCheck` | main process, pool, pid file, Rally database, reports | implements HealthBoard for a single run |
| `HealthReport` | the making of one report from Rally's output | checked against a reference definition |
| `HaTool` | check, migration, rebalancing, over one Neutron server | |
| `DhcpReplication` | `replicate_dhcp`, over one Neutron server | |
| `NodeElection` | `node_election`, chef server and its index | variables and actions shared by its users |
| `PkiKeys` | the keystone recipe's use of it | composes with NodeElection by EXTENDS |
| `SshKeys` | the ssh key provider's use of it | the same |
| `Keepalived` | keepalived's own version of the election, and its recipe | the same |
| `Controllers` | the three recipes on one set of nodes | composes them over one chef server |
| `Fabric` | – | abstract: an object is made once, after what it belongs to, and goes before it |
| `SubnetPools` | `_allocate_pools_for_subnet` and the gateway of `create_subnet` | a pure algorithm, with a definition by sets to compare |
| `Plumgrid` | the plugin's requests over database and Director | its Director implements Fabric |
| `KairosWriter` | the write threads of the collectd plugin | |
| `MCChefRun`, `MCHaTool`, `MCPlumgrid` | | symmetry, `Args` and the objects for TLC |
| `*Proofs` | | theorems and proofs about the module of that name |

The definitions that a comment calls a mutant are not part of any
specification: each is a mutated form of the definition that follows, such as
a plausible slip would leave it, under which a run refutes the property
`PROJECT.json` pairs it with. They show that the property depends on the code.

### How state and actions correspond to the code

**ChefRun.** A process is a pid with a program counter `pc`; the script's
variables are functions of the pid. `PidHeld`/`PidFree` are the test of
lines 32-38, which asks of the pid in the file only whether it is some process, `TruncatePid`/`WritePid` the two halves of `echo $$ > $PIDFILE`,
`ClientsFound`/`NoClients` the pgrep at the head of the loop, `KnifeAnswers`/
`KnifeFails` the node list, `StartClient` to `ReportReady`/`ReportLost` the body
of the for loop, `EndPass`/`RetryPass` its end. The boot service is three steps;
each boot that still has it appends a line to the crontab, so `cron` counts
lines, and `CronTick` starts as many scripts at once as pids are left for.
`Reboot` ends every process, keeps /etc, and keeps or empties /tmp.
`ForeignStart` takes a pid for another program, `StrayStart` runs a chef-client
that belongs to no script. One host is modelled; what `grep $HOSTNAME.` selects
is `Nodes`. A tick of cron waits until no script is still at its test (`AtTest`),
since ticks are half an hour apart; the scripts of one tick, and the boot script
and a tick, may race.

**HealthCheck.** `main` and `worker` are program counters; `queue` and `chunk`
are what `map_async` has not handed out and what each worker has in hand.
`TestPid` is the test in `is_process_running` *as it is written*: the file it
looks for is never there. `FindDeployment` to `CreateRaises` are the nested
`create_deployment` and `delete_deployment_and_tasks`; `after` is where the
outer one goes on once the inner one's error was handled. `FindDeployment` lists
the records of the previous tasks (`doomed`), `DeleteTask` deletes one of them,
and `TaskGone` is the TaskNotFound that ends the run when another run was faster.
`Before` stands for a run that ended earlier and left records. `CreateReports`
may lose Compass's answer after the reports were opened; `ReportsRefused` opens
none. `RunTask` lets Rally
come to any result within `Times`, `Collect` and `SendReport` make and put the
report, `Abandon` gives up the rest of the chunk. `sent` and `abandoned` are
history.

**HealthReport.** One action is one turn of a loop or one function's end;
`results` is any output of up to `MaxTimes` executions of a scenario of up to
`MaxSteps` steps, each complete or broken off as Rally records them. A percentage and an average
are kept as what is divided by what; averages are compared by
cross-multiplication.

**HaTool.** Each call of the Neutron API is a step. `Stages` is the order in
which `run` works off the arguments; `TakeAgent` and `TakeRouter` are the loops
of `l3_agent_migrate`, `RemoveRouter` to `Confirm` are `migrate_router`,
`RebalanceList` to `PairDone` are `l3_agent_rebalance` with its pairs `i` and
`-(i+1)` kept as the code counts them. The code sorts the agents by the *length
of their id* (line 165 takes `len` of a string), which says nothing of their
routers, so `Arrange` takes any order. `Flap` changes an agent's heartbeat.
`lost` and `start` are history, the latter written by runs that move routers.

**DhcpReplication.** `Start` is cron's; a run that ended starts again.
`AddRefused` is the server's refusal of a network that is gone or already there,
`AddFails` an error with or without the effect; both are swallowed, as in the
code. `deleted` keeps a network from being created again under the same id.

**NodeElection, PkiKeys.** `indexed` is what searches see, `Reindex` lets it
catch up with a node at any time after the save. A search returns the nodes
themselves, as chef's does, hence `published` is read as it is at that moment
and kept in `given`. `AttributesMissing` is the NoMethodError of line 130 on a
node that has never been saved by a run of its own. `Setup`, `ReadPart` and
`CopyPart` are the resources the recipe converges, the last two once per file.
`missed` records a search for the role that did not find all nodes,
`interrupted` a `pki_setup` that was stopped half way. Names are numbers, in
the order `sort_by` puts them in.

**SshKeys.** `Branch` is the `if` of the provider's action; its last branch, a
"TODO" in the code, ends the run. `Make` and `MakePublic` are the two files
ssh-keygen writes, `Save` reads them and saves the three attributes at once,
`Authorize` is authorized_keys; `PublicMissing` is the exception of
`File.read` on a node where ssh-keygen was killed between its files (`HalfMade`):
later runs find the private key, do not call ssh-keygen again and end there.
`Take` is one attribute and its save, `Place` one file, written when the action
is over if its key is there. `torn` is the set of the nodes where a run was killed
between its first save and its last file.

**Keepalived.** A run works on copies: `carrying` and `state` are its own
node's, `seen` those of the nodes its search returned. `Untag` deletes the tag
of one later node and saves that whole node as it was *seen*; `End` is the
save of the own node at the end of a chef-client run, which puts back the tag
the run began with. `Decide` is `states[node.name].empty?`.

**Plumgrid.** A method is the sequence of its steps, with the kinds of objects
it is about and whether a transaction holds it together; `method` and `at` are
where a request is. *lock* is the decorator of the port methods, *find* what is
read before the transaction, *settle* gateway and pools, *write* what Neutron's
own method does to the database, *ensure* and *announce* the default security
group, *look*, *unhook* and *clear* `disassociate_floatingips`, *tell* the call
of the Director, *commit* the end of the `with` block. `pending` is what a
transaction has written and only it sees. The database is what the plugin relies
on: rows are locked from the write to the commit, foreign keys are checked,
refusals raise. The Director refuses to make what it has and to change what it
has not; a call that fails may have had its effect. `director` is what its answers
tell. `Skip` is a call that is not made, or has no effect: when there is no
subject, when a security group is changed by a request without a name or ends up
with the name default (lines 638-639), and when a subnet is updated, of which
line 394 says that the server does not support it yet. What is skipped leaves the
object in `behind`, until a later change of it gets through; `Unnamed` holds of
the default group, of which no change ever does. The definitions that go through
the steps (`Step`, `Advance`, `Subject`, `ToldValue`, `Call`, `CallRaises`) are
those of every method; `PROJECT.json` maps them to the lines of one of them, and
the methods themselves to their own. `Raise` is where an
exception goes: out of the method, with the rollback, or into one of the two
except clauses that go on with another method (`GoOnWith`). `astray` is the
history of objects that an exception, a failed commit or a crash has left
different in the two places, `crossed` that of two requests about floating ips
at once.

**KairosWriter.** A socket is *made* before it is connected, *open*, *lost* when
the server is gone and *reset* when the kernel knows; `sendall` takes two sends
and other threads run between them. `Enter` to `ConnectFails` are
`kairosdb_connect`, `Lock` to `Unlock` are `kairosdb_write_data` with its two
handlers, `SocketError` being that of the stream and of the datagram. `Build` and
`Built` take and release the lock the lines are made under. `half` records whose message the server has half of.


## 3. What the runs check

Every run checks a bounded instance exhaustively. The bounds are small because
the hazards are: two of a kind already race, one fault already falls between
any two steps.

| Run | Instance | Properties |
|---|---|---|
| `chefrun_safety` | 3 pids, 2 nodes, 1 fault; pids and nodes symmetric | TypeOK, OneScriptUnlessRaced, ReadyIsConverged, CleanExit |
| `chefrun_progress` | 3 pids, 1 node, 1 fault; fair | ProgressSpec, EventuallyReady |
| `health_pool` | 1 run, 2 workers, 3 tasks in chunks of 2, 2 executions; fair | TypeOK, EveryTaskAccounted, NoTaskTwice, BoardSpec |
| `health_runs` | 2 runs, 1 worker and 1 task each; fair | EveryRunEnds |
| `health_pid_file` | the same | GivesWay (violated, see 6) |
| `report_summaries` | up to 2 steps, 2 executions, durations 1 to 3 | SummaryIsReference, AverageBetweenExtremes, SuccessIsClean |
| `hatool_together` | a check with a migration, and a migration `--now` with a rebalancing; 3 agents, 2 routers, 1 fault, 1 flap; agents and routers symmetric | TypeOK, NoRouterForgotten, Evacuated, SpreadNotWorse |
| `hatool_ends` | the same with 2 agents; fair | EveryRunEnds, PairsEven |
| `dhcp` | 2 controllers, 2 agents, 2 networks, 2 failing calls; fair | TypeOK, ReplicatedUnlessSkipped, EventuallyReplicated |
| `controllers` | 2 nodes, 2 killed runs, each of the three recipes; fair | ControllersTypeOK, OneElected, EndsWhole, KeysShared (keystone); OneMaster, StillTagged (keepalived); PairsMatch, PairShared (ssh) |
| `plumgrid` | 2 requests at once, seven layouts of nine objects, 2 looks of an object, 4 networks of 1 to 8 addresses, 1 fault; requests and looks symmetric | TypeOK, Agree, DirectorIsFabric, PoolsSound |
| `kairos` | 3 threads, an interval of 3; fair | TypeOK, LinesIntact, AttemptsSpaced, LockReleased, EventuallyConnected |

*chefrun.* With three pids, two scripts can pass the test while a third process
has the pid of the file; with two nodes, one fails and the other succeeds. What
is shown: the pid file excludes a second script unless two once raced through
lines 32-39 (`raced`), which the code does not prevent; Compass is never ahead
of the host; `all_nodes_success` is neither forgotten within a pass nor carried
into the next; and, with every loss repaired by the next tick of cron, a
registered node is ready at last, unless the host is held up for good. The fault
of `chefrun_progress` is a reboot, or a foreign program that takes the pid of a
stale file; nothing makes such a program end, and EventuallyReady names the two
things that then stop the host: `HeldByForeign` for ever, when each run exits at
lines 34-36, and a chef-client for ever that pgrep finds. With the fault spent on
a reboot, or when the program ends, the nodes are ready in the end; three pids
leave two for scripts beside it.

*health.* Three tasks in chunks of two give one worker a chunk with a rest to be
abandoned and another a short one. Two runs take each other's deployment,
records and pid file between any two steps, deletion of a single record included,
and each still ends. BoardSpec
holds for one run; with two it cannot, since each opens the same reports.

*report.* Two executions are the fewest in which one is measured and another is
not, two steps the fewest at which they can stop differently, three durations
the fewest with a middle. The summaries of complete outputs are those of a
definition without the loop.

*hatool.* Two runs are enough to take and give the same router, two routers so
that one may be lost while the other is in hand, from every distribution of the
routers and in every order of the agents. They meet with a fault: a call that
raises before or after its effect, a refused removal or addition, a kill. Three
agents leave a choice when one is offline, and the middle one meets itself; two
are a pair, met both ways around. `EveryRunEnds` is checked with two, which leave
one target, or none, or both for what the other run has taken: without symmetry,
which liveness rules out, three are beyond TLC. The delay is one poll.
SpreadNotWorse and PairsEven are about a run that is `Alone`: the other one has not
gone beyond its check. `Noop` is empty in the runs: such a run calls nothing that
changes Neutron; the proofs leave it open.

*dhcp, controllers.* Two of each kind; two faults, so that what was retried can
fail again. A third node is beyond TLC for the three recipes together; the proofs
are for any number. (SshKeys by itself TLC does check with three, and that is
where a half saved pair is handed on, see 6.) What the
recipes share is the chef server, on which each election has a tag of its own,
so a behaviour follows one recipe.

*plumgrid.* A layout holds the objects that requests may collide on: a network
and the default group it brings, a subnet that comes while its network goes, a
port and its floating ip, a group with its rule, a router with its interface.
Two requests are enough for one to write between any two steps of another; one
fault is enough to part the stores, and more only mark more objects as astray.
Agree compares the stores object by object: an object that no failure parted is in
both or in neither, and is alike in both unless it is `behind`.
The networks are those without room for a pool, with room for one address, and
with room on both sides of the gateway, which is anywhere in them or absent.
Nobody waits for ever: the run would show a deadlock, since `GetPorts` is
possible only while some worker is idle.

*kairos.* Two threads can find the socket gone that a third has given up; an
interval of three tells "just now" from "not long enough ago".

### Deadlock

Checked in `chefrun_*`, `dhcp`, `controllers`, `plumgrid` and `kairos`, where
something can always be started. The health check and the HA tool are programs
that end: their runs turn the check off, and `EveryRunEnds` takes its place.

### Fairness

- *ChefRun:* weak for the boot service and the scripts, since the kernel
  schedules them; none for the end of a foreign program or of a stray chef-client.
  Strong for a tick of cron that launches scripts on other pids than that of the
  file, for knife's answer, and, per node, for a chef-client run that succeeds and a
  report that arrives: cron ticks for ever, pids go round, and a server that
  would never answer could not be made up for by any script. Faults are bounded
  and not fair, so they never happen by force and stop in the end.
- *HealthCheck, HaTool:* weak for the steps of a run that was started. No run
  has to be started, and no call has to fail.
- *DhcpReplication:* weak for each controller's job, which includes its start
  (cron, every minute); failures are bounded and outside of it.
- *Controllers:* Compass registers its nodes, the index catches up, cron starts
  chef-client again on every node, a started run goes on; stated for the two
  recipes with a liveness property. Failures are bounded.
- *KairosWriter:* weak for each thread's steps, for the kernel's noticing a lost
  connection and for time. Strong for some thread being given a value whose type
  is known: collectd goes on measuring. That is all `EventuallyConnected` needs:
  an unconnected socket is only noticed by writing to it.
- *Plumgrid:* none. No request has to come, and the properties are of safety.


## 4. What is proved

For all values of the constants, under the named assumptions of each module
(markers such as `NoPid` are no pids, bounds are natural numbers, agents,
routers and nodes are finite sets, names of nodes are numbers; TLC evaluates
them in every run):

| Theorem | Says | Rests on |
|---|---|---|
| `ChefRunProofs!TypeCorrect` | types of the runner | |
| `ChefRunProofs!PidFileExcludes` | `[]OneScriptUnlessRaced` | PidInv |
| `ChefRunProofs!ReadyCorrect` | `[]ReadyIsConverged` | WorkInv |
| `ChefRunProofs!CleanExitCorrect` | `CleanExit` | WorkInv |
| `ChefRunProofs!RunnerImplementsProgress` | `Spec => ProgressSpec` | WorkInv |
| `HealthCheckProofs!TypeCorrect` | types of the health check | |
| `HealthCheckProofs!TasksAccounted` | `[]EveryTaskAccounted` | PoolInv |
| `HealthCheckProofs!TasksApart` | `[]NoTaskTwice` | PoolInv |
| `HealthCheckProofs!RunImplementsBoard` | one run implements HealthBoard | PoolInv, BoardInv |
| `HealthReportProofs!SummaryCorrect` | `[]SummaryIsReference` | LoopInv, SummaryInv |
| `HealthReportProofs!AverageCorrect` | `[]AverageBetweenExtremes` | LoopInv, SummaryInv |
| `HealthReportProofs!SuccessCorrect` | `[]SuccessIsClean` | LoopInv, SuccessInv |
| `HaToolProofs!TypeCorrect` | types, and indices within the list | PosInv, HandInv |
| `HaToolProofs!RoutersAccounted` | `[]NoRouterForgotten` | LostInv |
| `HaToolProofs!EvacuationComplete` | `[]Evacuated` | LostInv, StageInv, EvacInv |
| `HaToolProofs!PairsEvenCorrect` | `[]PairsEven` | StageInv, SpreadInv |
| `HaToolProofs!SpreadCorrect` | `[]SpreadNotWorse` | StageInv, SpreadInv |
| `DhcpReplicationProofs!TypeCorrect` | types of the replication | PlaceInv |
| `DhcpReplicationProofs!Replicated` | `[]ReplicatedUnlessSkipped` | LoopInv |
| `ControllersProofs!TypesCorrect` | types of the three recipes, `[]ControllersTypeOK` | |
| `ControllersProofs!OneElectedCorrect` | `[]OneElected` | RecipeInv, with ElectInv |
| `ControllersProofs!EndsWholeCorrect` | `[]EndsWhole` | RecipeInv, with StepInv, KeyInv |
| `ControllersProofs!OneMasterCorrect` | `[]OneMaster` | RecipeInv, with FirstOnly |
| `ControllersProofs!PairsMatchCorrect` | `[]PairsMatch` | RecipeInv, with MixInv, OneInv |
| `ControllersProofs!StillTaggedCorrect` | `StillTagged` | RecipeInv, with Covered |
| `KairosWriterProofs!TypeCorrect` | types of the writer | |
| `KairosWriterProofs!LinesIntactCorrect` | `LinesIntact` | Inside, Halves |
| `KairosWriterProofs!AttemptsSpacedCorrect` | `AttemptsSpaced` | Inside, Noted |
| `PlumgridProofs!TypeCorrect` | types, and no step behind the last one | |
| `PlumgridProofs!PoolsSoundCorrect` | `[]PoolsSound`, for any network and gateway | |
| `PlumgridProofs!DirectorIsFabricCorrect` | the Director implements Fabric | LocalInv, HeldInv, FloatInv, FollowInv, Rooting |
| `PlumgridProofs!AgreeCorrect` | `[]Agree`, alike but for what is `behind` | the same, with RuleInv, UnbornInv, LonelyInv, OneInv, InHand |

None of the properties is inductive by itself. What each invariant adds:

- **PidInv**: the one script past the test is the one the file names from the
  write on. Without that, a second script could pass while the first is in its
  loop.
- **WorkInv**: as long as `all_nodes_success` stands, the nodes of the list that
  are not in `todo` are converged; the node at hand is in `todo`; the node being
  reported is done.
- **PoolInv**: before the join, a task that is not queued, sent or abandoned is
  in some worker's chunk; after it, queue and chunks are empty; a busy worker's
  task is in its own chunk.
- **BoardInv**: a report that was not sent is open or not there yet, and before
  `create_reports` the board is untouched.
- **LoopInv, SummaryInv, SuccessInv** (the report): after each turn of the loop over
  the executions, those measured, those in error and those skipped are disjoint
  and add up to the turns, errors and skips are counted by their numbers, and
  the sum lies between as many minima and as many maxima (lemma Parted and the
  facts on cardinalities it rests on). So the divisor, `times` less two counters, is
  the number of durations added up. If no error was counted anywhere, every
  execution went through every action that was picked.
- **PosInv, HandInv**: `i` is not ahead of the turns of its loop; inside
  `migrate_router` there is a router and a target.
- **LostInv**: a router without a host is lost or held by a run between its
  removal and its addition. Two runs cannot hold the same router, because the
  second removal is refused; each failure that loses a router is one fault.
- **StageInv, EvacInv** (Evacuated): each part of the script belongs to one stage,
  and a run with `--noop` is never inside `migrate_router`. As long as nothing
  fails and no agent goes or comes, what a run has read of the agents is true:
  every router on an offline agent is on one of its lists, or in its hand and
  still to be removed. The other runs keep that true, because they move routers
  only to agents that are online. When the lists are empty no router is left on
  an offline agent, and by LostInv none is without a host.
- **SpreadInv** (PairsEven, SpreadNotWorse), of a run that alone moves routers while
  nothing fails: its lists are those of `start`, because nothing was moved while they
  were made. Its order has each agent once, a consequence of finiteness, so pairs
  are disjoint. Inside of a turn (Moving) the counts are the loads of the two agents
  and the list is what is left on the fuller one, but for the router in hand; they
  end even or one apart. A pair that was even is never touched, and of the two turns
  of an uneven one only that which finds the emptier agent first moves anything,
  since the other compares the old counts (PairAt). Before it was
  proved, TLC confirmed SpreadInv with 2 to 4 agents and up to 5 routers.
- **PlaceInv, LoopInv** (replication): a listed network that still exists is, on each agent
  the loop is through with, there or skipped, and on the agent at hand perhaps
  still in the inner loop's list.
- **ElectInv**: whoever the index shows as tagged is tagged; without an
  incomplete search only the first node by name (`Keeper`) is. That there is a
  first one is proved from finiteness, by well-foundedness of the strict subset
  order on finite sets.
- **StepInv, KeyInv**: only Keeper makes and reads keys; `ca_certs` is saved
  last, so whoever finds it is given all three parts, all Keeper's; a copy has
  copied the parts before its step; Keeper's files and those of an ended run are
  all there or none.
- **MixInv, OneInv** (ssh): whatever a node has saved, was offered or has written is
  one pair's, the private key before the rest, and its files are its attributes but
  for the keys it is just about to write (MixInv); before it has saved anything its
  files are of its own making, the private key before the public one. As long as no search missed a
  node, whoever makes a pair is Keeper, and what it offers is whole (OneInv).
- **RecipeInv**: a behaviour follows one recipe; the invariants above hold of the
  recipe it follows, and of the others' variables that they are as at first.
- **Covered**: below every node that is found tagged, carries the tag or is to
  lose it, there is a tagged node that is not to lose it: the head of the sorted
  list stays. **FirstOnly**: without an incomplete search only the first of all
  nodes is ever elected, hence decides for MASTER.
- **Inside, Noted, Halves**: a thread between an acquire and its release has the
  lock; what it has read of the socket and the time is still true when it acts;
  a half message is that of a thread that is still sending on an open socket.
- **LocalInv, HeldInv, FloatInv, FollowInv, Rooting** (the plugin). The steps of the
  methods are data, so the first lemmas say what holds of every method:
  the call comes after the write and is followed by the commit alone. A row that
  a transaction has written is its own until it commits (LocalInv: nobody else's
  write is possible, and `found` and `id` are what it has written). Hence, for
  what is changed in transactions, the Director has what the database has as
  long as no owner has told it otherwise, and what the owner has written from
  then on (FollowInv). Where a change is not told, the object is in both stores all
  the same, since what is changed was there before and is held until the end
  (HeldInv), and it is marked as behind. Floating ips only keep the order of their calls
  (FloatInv). What the Director has thus has all it belongs to beside it
  (Rooting): a creation sees its parents in the database and holds them, a
  deletion sees that nothing belongs to what goes. The step simulation follows:
  each call is a change of Fabric, everything else a stutter or an object that
  becomes Unknown.
- **RuleInv, UnbornInv, LonelyInv, OneInv, InHand** (Agree). For what is changed
  in transactions Agree is FollowInv. A rule is followed in the same way, or a
  deletion without a transaction has taken its row and is still to tell the
  Director; such a row never comes back, since no request is about to create
  an id that somebody has used (RuleInv, UnbornInv). For floating ips, which no
  transaction covers, what counts is the step of the one request about them
  (OneInv, as long as `crossed` is false): after its write the database has
  what it is to tell, after the deletion's call the Director has nothing, from
  its look to its clear the floating ip of the port is the one it found (one
  floating ip per port, LonelyInv), and after its unhook the Director has that
  one free. Every other floating ip is alike in both stores, or a failure has
  left it different (InHand). The retreats of create_floatingip and
  update_floatingip are steps of that argument: what they begin with is what
  the failed call left.

TLC's part alone: everything that speaks of fairness (EventuallyReady,
EveryRunEnds, EventuallyReplicated, KeysShared, PairShared, LockReleased,
EventuallyConnected), which the prover cannot treat. Every invariant and
every action property of the passing runs is a theorem.


## 5. What the models leave out

- Contents: of reports, keys, node attributes, log lines and configuration files.
- ChefRun: the other hosts of the cluster, although `grep $HOSTNAME.` is
  unanchored and host1 also selects the nodes of host10. The sleeps are steps of
  no duration.
- HealthCheck: the loading of scenario files, and the time a task takes. The
  lines of `_get_action_dur_report` are HealthReport's, where a step takes some
  time: a duration of exactly 0.0, which line 337 takes for a failure, would need a
  clock that stands still during a call of an API.
- HaTool: retries of the HTTP client, authentication, the `--quiet` output;
  routers and agents are not created or deleted during a run.
- DhcpReplication: agents are not added or removed.
- PkiKeys: the other branch of the recipe (keys from a URL), file owners and
  modes; a node's attributes are saved by the resources modelled, and the save
  at the end of a chef-client run adds nothing to them.
- Controllers: what keepalived's recipe does to the attributes of the other two. Its
  save of another node, whole and from an old copy (libraries/default.rb:27-28), can
  take back keys that node saved in between. In a behaviour of Controllers the nodes
  follow one recipe, so the promises of the two key recipes are shown for clusters
  where no such save falls into the run that exchanges the keys. Both at once are
  beyond TLC with two nodes, and a roll-back as an action of its own would have to
  guess which copies exist.
- Keepalived: virtual addresses, priorities and VRRP itself.
- Plumgrid: the ports that Neutron's own methods create and delete inside of a
  request for a router or a floating ip (they pass through the port methods and
  their lock); `plumlib.py`, which hands each call on; quotas; tenants; what
  Neutron makes of a group that was renamed to default. The port
  of TLC's instance belongs to a network that stays, and there is one floating
  ip; the proofs leave both open.
- KairosWriter: what the lines say, and the configuration. The lines are formatted
  under the lock without a handler (231-253), and the handler of a socket error
  formats its first argument as a number (line 185): a value that cannot be formatted
  would leave the lock taken for good. collectd hands over numbers and strings, and the
  sockets have no timeout, the one socket error whose first argument is a text, so
  neither happens in the model.


## 6. Findings

A property that the repository itself states is violated, shown by a run:

- `GivesWay`. check_health.py:48 looks for `/proc/<pid>/cmd`, a file that Linux
  does not have, so no pid file is ever taken for that of a live run. Line 473
  logs "[%s] already exisits, exit!". A second run goes on, and the two delete
  each other's Rally deployment.

Met while modelling, followed by the models as the code has them, without a run
of their own:

- kickstart_chef_run.sh:34 exits when the pid of the file is that of any process,
  be it the new script itself or a daemon that got the number after a reboot; line
  35 logs "there are chef_client_run.sh running with pid $pid". As long as a daemon
  has the pid, no tick of cron does anything, and nothing removes the file:
  `HeldByForeign` in EventuallyReady.
- kickstart_chef_init:19-21 appends another line to the crontab at each boot
  until the service is turned off; all the lines start a script in the same minute.
- check_health.py:438: a second run that deletes the same task records lets the
  first one's task_delete raise, past the removal of the pid file.
- check_health.py:71 and 73: `clean_pidfile` runs before the error report is
  put, and raises when another worker has just removed the file; the second
  worker's error report is lost.
- check_health.py:299: an empty list of results counts as one error, which is
  fewer than `times`, so the state is "finished" (line 420).
- docker-build/rally/check_health.py:431: the older copy sends "error" when
  there were no errors at all.
- neutron-ha-tool.py:165 sorts agents by the length of their id, where the
  docstring (line 121) wants the number of routers on each agent "as close as
  possible".
- neutron-ha-tool.py:175-176: with an odd number of agents the turn that meets the
  middle agent twice is left by `continue` before `i += 1`, so all later turns meet
  it again, and a pair whose emptier agent is in the second half of the list stays
  as uneven as it was. PairsEven is about even numbers only.
- neutron-ha-tool.py:277 compares numbers of dead agents: one that comes online
  while another dies goes unnoticed, and its routers are moved all the same.
- neutron-ha-tool.py:261: the lists of agents are read before the delay and the
  targets chosen from them after it (line 295).
- check_health.py:373 divides by the executions measured, line 366 excludes only
  that all failed at this action. When some failed here and the others before,
  the divisor is zero, the exception is no HealthException, and the report is
  never sent.
- kickstart_chef_run.sh:51: `grep $HOSTNAME.` is unanchored; host1 also takes
  the nodes of host10.
- plumgrid_plugin.py:638-639: the docstring of update_security_group (630) says
  "Update security group name/description in Neutron and PLUMgrid platform"; the
  Director is called only when the request has a name and the group is not then
  called default. A new description alone, any change of the default group and a
  renaming to default reach Neutron only: `behind` in Agree.
- plumgrid_plugin.py:554-560: update_floatingip, when its call fails,
  disassociates whatever floating ip has the port that was asked for, which need
  not be the one it was to update.
- plumgrid_plugin.py:541-560: two requests for one floating ip may reach the
  database in one order and the Director in the other (`crossed`).
- plumgrid_plugin.py:588-596: disassociate_floatingips tells the Director of the
  floating ip it read first and then clears what it finds in a second query.
- plumgrid_plugin.py:119, 598-625: the default security group is announced to
  the Director from inside of the outer transaction, and stays there when that
  is rolled back; so does the disassociation of delete_port (290-300).
- plumgrid_plugin.py:745-756: delete_security_group_rule deletes the row first;
  after a failing call the Director keeps the rule, and a retry gets NotFound.
- plumgrid_plugin.py:343: the comment says "PLUMgrid reserves the first IP"; with
  a gateway at or below the network's address the pools include it.
- keepalived/libraries/default.rb:27: a later tagged node loses its tag only
  until its own run ends, whose save puts it back; and the save of the whole
  node takes back what that node has saved since the search.
- keepalived/recipes/default.rb:30: once two nodes are MASTER (a search that
  missed a node), they stay so.
- openssh/providers/key.rb:45: a run that was killed after its first save has
  set private_key, so later runs skip the node and its files never appear.
- openssh/providers/key.rb:42-45: when a search missed nodes, a node may be elected
  that is itself taking a pair over, attribute by attribute. A third node that reads
  it then takes over what is saved so far, perhaps the private key alone, and as
  that is set, its later runs skip the rest. PairsMatch makes the allowance.
- openssh/providers/key.rb:8-13: ssh-keygen killed after the private key's file and
  before the public one's is not called again, and each later run of the elected node
  raises at File.read: no node of the role gets a key. PairShared names the case.
- openstack-identity/recipes/server.rb:115: a `pki_setup` killed half way is
  never run again.
- kairosdb_writer.py:157: after a refused connection the next value goes to the
  unconnected socket and is lost before the writer tries again.


## 7. Plan

What would come next: two hosts for ChefRun, whose nodes `grep $HOSTNAME.` may
mix up, and keepalived's whole-node saves beside the exchange of the keys. The parts under 1.2 whose outcome another program decides are left to
that program's specification.
