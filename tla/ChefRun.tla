------------------------------ MODULE ChefRun -------------------------------
(***************************************************************************)
(* The chef-client runner of one installed host: chef_client_run.sh (from  *)
(* cobbler/snippets/kickstart_chef_run.sh), the boot service that launches *)
(* it once and registers the cron job (kickstart_chef_init), and what they *)
(* share: the pid file, the process table, the .done files, the chef       *)
(* server's node list and the Compass server that is told "ready".         *)
(*                                                                         *)
(* Every launch of the script is a process.  Pids are few and are reused,  *)
(* also by programs that have nothing to do with the script, as they are   *)
(* after a reboot that leaves /tmp/chef_client_run.pid in place.           *)
(***************************************************************************)
EXTENDS Naturals, FiniteSets

CONSTANTS
    Pids,        \* process ids
    Nodes,       \* chef nodes of this host ("knife node list | grep $HOSTNAME.")
    NoPid,       \* the pid file is missing or empty
    NoNode,      \* a script that runs no chef-client
    MaxFaults    \* bound on reboots, foreign processes and stray chef-clients

ASSUME NoPidAssumption == NoPid \notin Pids
ASSUME NoNodeAssumption == NoNode \notin Nodes
ASSUME MaxFaultsAssumption == MaxFaults \in Nat

VARIABLES
    pc,          \* what each pid is: no process, a foreign one, or a script at a line
    pidFile,     \* content of /tmp/chef_client_run.pid
    listed,      \* $nodes of each script
    todo,        \* the nodes its for loop has not finished
    current,     \* $node
    success,     \* $all_nodes_success
    registered,  \* nodes known to the chef server
    done,        \* nodes with /etc/chef/$node.done
    ready,       \* nodes the Compass server has as ready
    initd,       \* /etc/init.d/chef is still enabled
    boot,        \* where the boot service is
    cron,        \* how many */30 lines the crontab has
    stray,       \* a chef-client none of the scripts waits for is running
    faults,      \* reboots, foreign processes and stray clients so far
    raced        \* history: two scripts have been between test and write of the pid file

fileVars   == <<pidFile, done>>
scriptVars == <<listed, todo, current, success>>
hostVars   == <<initd, boot, cron, stray, faults>>
serverVars == <<registered, ready>>
vars == <<pc, fileVars, scriptVars, hostVars, serverVars, raced>>

Starting  == {"truncate", "write"}          \* has passed the pid test
Looping   == {"pgrep", "list", "node", "client", "touch", "report"}
ScriptPc  == {"check"} \union Starting \union Looping
ClientRunning == stray \/ \E q \in Pids : pc[q] = "client"
AliveNever(q) == FALSE                      \* mutant: the test names a file /proc lacks
Alive(q)  == q \in Pids /\ pc[q] # "off"    \* /proc/$pid/exe exists

TypeOK ==
    /\ pc \in [Pids -> {"off", "foreign"} \union ScriptPc]
    /\ pidFile \in Pids \union {NoPid}
    /\ listed \in [Pids -> SUBSET Nodes]
    /\ todo \in [Pids -> SUBSET Nodes]
    /\ current \in [Pids -> Nodes \union {NoNode}]
    /\ \A p \in Pids : pc[p] \in {"client", "touch", "report"} => current[p] \in Nodes
    /\ success \in [Pids -> BOOLEAN]
    /\ registered \in SUBSET Nodes
    /\ done \in SUBSET Nodes
    /\ ready \in SUBSET Nodes
    /\ initd \in BOOLEAN
    /\ boot \in {"idle", "crontab", "launch", "disable"}
    /\ stray \in BOOLEAN
    /\ faults \in 0..MaxFaults
    /\ cron \in 0..(faults + 1)
    /\ boot = "crontab" => cron \in 0..faults
    /\ raced \in BOOLEAN

Init ==
    /\ pc = [p \in Pids |-> "off"]
    /\ pidFile = NoPid
    /\ listed = [p \in Pids |-> {}]
    /\ todo = [p \in Pids |-> {}]
    /\ current = [p \in Pids |-> NoNode]
    /\ success = [p \in Pids |-> TRUE]
    /\ registered \in SUBSET Nodes
    /\ done = {}
    /\ ready = {}
    /\ initd = TRUE
    /\ boot = "crontab"
    /\ cron = 0
    /\ stray = FALSE
    /\ faults = 0
    /\ raced = FALSE

-----------------------------------------------------------------------------
(* The boot service /etc/init.d/chef                                        *)

\* crontab -l > mycron; echo the line >> mycron; crontab mycron.  The line is
\* appended to what is there: a boot cut short before chkconfig leaves the next
\* one to add a second.
BootCrontab ==
    /\ boot = "crontab"
    /\ boot' = "launch"
    /\ cron' = cron + 1
    /\ UNCHANGED <<pc, fileVars, scriptVars, initd, stray, faults, serverVars, raced>>

\* /etc/chef/chef_client_run.sh &
BootLaunch(p) ==
    /\ boot = "launch"
    /\ pc[p] = "off"
    /\ pc' = [pc EXCEPT ![p] = "check"]
    /\ boot' = "disable"
    /\ UNCHANGED <<fileVars, scriptVars, initd, cron, stray, faults, serverVars, raced>>

\* chkconfig chef off; mv /etc/init.d/chef /tmp/chef
BootDisable ==
    /\ boot = "disable"
    /\ boot' = "idle"
    /\ initd' = FALSE
    /\ UNCHANGED <<pc, fileVars, scriptVars, cron, stray, faults, serverVars, raced>>

AtTest == {q \in Pids : pc[q] = "check"}

\* A tick of cron starts the script once for every */30 line, on as many pids.  Ticks
\* are half an hour apart: none finds a script of a former tick at its pid test.
CronTick(ps) ==
    /\ ps # {} /\ Cardinality(ps) <= cron
    /\ AtTest = {}
    /\ \A p \in ps : pc[p] = "off"
    /\ pc' = [p \in Pids |-> IF p \in ps THEN "check" ELSE pc[p]]
    /\ UNCHANGED <<fileVars, scriptVars, hostVars, serverVars, raced>>

-----------------------------------------------------------------------------
(* chef_client_run.sh                                                       *)

\* The script ends, and its shell variables with it.
Exit(p) ==
    /\ pc' = [pc EXCEPT ![p] = "off"]
    /\ listed' = [listed EXCEPT ![p] = {}]
    /\ todo' = [todo EXCEPT ![p] = {}]
    /\ current' = [current EXCEPT ![p] = NoNode]
    /\ success' = [success EXCEPT ![p] = TRUE]

\* The pid file names a live process: exit 1.
PidHeld(p) ==
    /\ pc[p] = "check"
    /\ Alive(pidFile)
    /\ Exit(p)
    /\ UNCHANGED <<fileVars, hostVars, serverVars, raced>>

\* No pid file, an empty one, or one that names no process.
PidFree(p) ==
    /\ pc[p] = "check"
    /\ ~ Alive(pidFile)
    /\ pc' = [pc EXCEPT ![p] = "truncate"]
    /\ raced' = (raced \/ \E q \in Pids : pc[q] \in Starting)
    /\ UNCHANGED <<fileVars, scriptVars, hostVars, serverVars>>

\* "echo $$ > $PIDFILE": the redirection empties the file, then echo writes it.
TruncatePid(p) ==
    /\ pc[p] = "truncate"
    /\ pc' = [pc EXCEPT ![p] = "write"]
    /\ pidFile' = NoPid
    /\ UNCHANGED <<done, scriptVars, hostVars, serverVars, raced>>

WritePid(p) ==
    /\ pc[p] = "write"
    /\ pc' = [pc EXCEPT ![p] = "pgrep"]
    /\ pidFile' = p
    /\ UNCHANGED <<done, scriptVars, hostVars, serverVars, raced>>

\* pgrep chef-client finds one: break, and the script ends.
ClientsFound(p) ==
    /\ pc[p] = "pgrep"
    /\ ClientRunning
    /\ Exit(p)
    /\ UNCHANGED <<fileVars, hostVars, serverVars, raced>>

NoClients(p) ==
    /\ pc[p] = "pgrep"
    /\ ~ ClientRunning
    /\ pc' = [pc EXCEPT ![p] = "list"]
    /\ UNCHANGED <<fileVars, scriptVars, hostVars, serverVars, raced>>

\* knife node list: what the chef server has, or nothing when knife fails.
ListNodes(p, ns) ==
    /\ pc[p] = "list"
    /\ pc' = [pc EXCEPT ![p] = "node"]
    /\ listed' = [listed EXCEPT ![p] = ns]
    /\ todo' = [todo EXCEPT ![p] = ns]
    /\ success' = [success EXCEPT ![p] = TRUE]
    /\ UNCHANGED <<fileVars, current, hostVars, serverVars, raced>>

KnifeAnswers(p) == ListNodes(p, registered)
KnifeFails(p) == ListNodes(p, {})

\* mutant: $node is not set
StartClientUnset(p, n) ==
    /\ pc[p] = "node"
    /\ n \in todo[p]
    /\ pc' = [pc EXCEPT ![p] = "client"]
    /\ UNCHANGED <<fileVars, scriptVars, hostVars, serverVars, raced>>

\* The next node of the for loop: its files are written and chef-client starts.
StartClient(p, n) ==
    /\ pc[p] = "node"
    /\ n \in todo[p]
    /\ pc' = [pc EXCEPT ![p] = "client"]
    /\ current' = [current EXCEPT ![p] = n]
    /\ UNCHANGED <<fileVars, listed, todo, success, hostVars, serverVars, raced>>

\* The end of the loop's body: this node is finished with.
FinishNode(p) ==
    /\ pc' = [pc EXCEPT ![p] = "node"]
    /\ todo' = [todo EXCEPT ![p] = @ \ {current[p]}]
    /\ current' = [current EXCEPT ![p] = NoNode]
    /\ UNCHANGED listed

\* mutant: the report is sent whatever chef-client returned
ClientFailsReported(p) ==
    /\ pc[p] = "client"
    /\ pc' = [pc EXCEPT ![p] = "report"]
    /\ success' = [success EXCEPT ![p] = FALSE]
    /\ UNCHANGED <<fileVars, listed, todo, current, hostVars, serverVars, raced>>

ClientFails(p) ==
    /\ pc[p] = "client"
    /\ FinishNode(p)
    /\ success' = [success EXCEPT ![p] = FALSE]
    /\ UNCHANGED <<fileVars, hostVars, serverVars, raced>>

\* mutant: the report is sent before the .done file is there
ClientSucceedsEarly(p) ==
    /\ pc[p] = "client"
    /\ pc' = [pc EXCEPT ![p] = "report"]
    /\ UNCHANGED <<fileVars, scriptVars, hostVars, serverVars, raced>>

ClientSucceeds(p) ==
    /\ pc[p] = "client"
    /\ pc' = [pc EXCEPT ![p] = "touch"]
    /\ UNCHANGED <<fileVars, scriptVars, hostVars, serverVars, raced>>

\* mutant: only the first success of a node is reported
TouchDoneOnce(p) ==
    /\ pc[p] = "touch"
    /\ IF current[p] \in done
       THEN FinishNode(p)
       ELSE pc' = [pc EXCEPT ![p] = "report"] /\ UNCHANGED <<listed, todo, current>>
    /\ done' = done \union {current[p]}
    /\ UNCHANGED <<pidFile, success, hostVars, serverVars, raced>>

TouchDone(p) ==
    /\ pc[p] = "touch"
    /\ pc' = [pc EXCEPT ![p] = "report"]
    /\ done' = done \union {current[p]}
    /\ UNCHANGED <<pidFile, scriptVars, hostVars, serverVars, raced>>

\* mutant: the last node of the loop decides
ReportReadyLastWins(p) ==
    /\ pc[p] = "report"
    /\ FinishNode(p)
    /\ ready' = ready \union {current[p]}
    /\ success' = [success EXCEPT ![p] = TRUE]
    /\ UNCHANGED <<fileVars, hostVars, registered, raced>>

\* wget --post-data='{"ready": true}'; its exit status is not looked at.
ReportReady(p) ==
    /\ pc[p] = "report"
    /\ FinishNode(p)
    /\ ready' = ready \union {current[p]}
    /\ UNCHANGED <<fileVars, success, hostVars, registered, raced>>

ReportLost(p) ==
    /\ pc[p] = "report"
    /\ FinishNode(p)
    /\ UNCHANGED <<fileVars, success, hostVars, serverVars, raced>>

\* Every node of the list has run: break when all went well ...
EndPass(p) ==
    /\ pc[p] = "node"
    /\ todo[p] = {}
    /\ success[p]
    /\ Exit(p)
    /\ UNCHANGED <<fileVars, hostVars, serverVars, raced>>

\* ... and otherwise sleep 1m and start over.
RetryPass(p) ==
    /\ pc[p] = "node"
    /\ todo[p] = {}
    /\ ~ success[p]
    /\ pc' = [pc EXCEPT ![p] = "pgrep"]
    /\ UNCHANGED <<fileVars, scriptVars, hostVars, serverVars, raced>>

-----------------------------------------------------------------------------
(* The host and the servers around the script                               *)

\* Compass creates the node on the chef server.
RegisterNode(n) ==
    /\ n \notin registered
    /\ registered' = registered \union {n}
    /\ UNCHANGED <<pc, fileVars, scriptVars, hostVars, ready, raced>>

\* Every process is gone.  Files under /etc stay; /tmp stays or is emptied.
Reboot ==
    /\ faults < MaxFaults
    /\ faults' = faults + 1
    /\ pc' = [p \in Pids |-> "off"]
    /\ pidFile' \in {pidFile, NoPid}
    /\ listed' = [p \in Pids |-> {}]
    /\ todo' = [p \in Pids |-> {}]
    /\ current' = [p \in Pids |-> NoNode]
    /\ success' = [p \in Pids |-> TRUE]
    /\ boot' = IF initd THEN "crontab" ELSE "idle"
    /\ stray' = FALSE
    /\ UNCHANGED <<done, initd, cron, serverVars, raced>>

\* Another program gets a pid.  The kernel has pids to spare: two at least
\* remain for scripts.
ForeignStart(p) ==
    /\ \E q, r \in Pids \ {p} : q # r /\ pc[q] # "foreign" /\ pc[r] # "foreign"
    /\ faults < MaxFaults
    /\ faults' = faults + 1
    /\ pc[p] = "off"
    /\ pc' = [pc EXCEPT ![p] = "foreign"]
    /\ UNCHANGED <<fileVars, scriptVars, initd, boot, cron, stray, serverVars, raced>>

ForeignExit(p) ==
    /\ pc[p] = "foreign"
    /\ pc' = [pc EXCEPT ![p] = "off"]
    /\ UNCHANGED <<fileVars, scriptVars, hostVars, serverVars, raced>>

\* A chef-client started by hand.
StrayStart ==
    /\ faults < MaxFaults
    /\ faults' = faults + 1
    /\ ~ stray
    /\ stray' = TRUE
    /\ UNCHANGED <<pc, fileVars, scriptVars, initd, boot, cron, serverVars, raced>>

StrayExit ==
    /\ stray
    /\ stray' = FALSE
    /\ UNCHANGED <<pc, fileVars, scriptVars, initd, boot, cron, faults, serverVars, raced>>

-----------------------------------------------------------------------------
ClientReturns(p) == ClientFails(p) \/ ClientSucceeds(p)
PostReturns(p) == ReportReady(p) \/ ReportLost(p)

ScriptStep(p) ==
    \/ PidHeld(p) \/ PidFree(p) \/ TruncatePid(p) \/ WritePid(p)
    \/ ClientsFound(p) \/ NoClients(p)
    \/ KnifeAnswers(p) \/ KnifeFails(p)
    \/ \E n \in Nodes : StartClient(p, n)
    \/ ClientReturns(p)
    \/ TouchDone(p)
    \/ PostReturns(p)
    \/ EndPass(p) \/ RetryPass(p)

BootStep == BootCrontab \/ BootDisable \/ \E p \in Pids : BootLaunch(p)

Environment ==
    \/ \E n \in Nodes : RegisterNode(n)
    \/ Reboot
    \/ \E p \in Pids : ForeignStart(p) \/ ForeignExit(p)
    \/ StrayStart \/ StrayExit

Next ==
    \/ BootStep
    \/ \E ps \in SUBSET Pids : CronTick(ps)
    \/ \E p \in Pids : ScriptStep(p)
    \/ Environment

Spec == Init /\ [][Next]_vars

(***************************************************************************)
(* Fairness.  A script, the boot service and cron run on, and no failure   *)
(* is forever: a knife call, a chef-client run for a node or a POST for a  *)
(* node that is tried again and again succeeds at last.  Cron goes on      *)
(* ticking, and the kernel hands out pids in turn: the pid of the stale    *)
(* file is not that of one of the new scripts at every tick.  Faults are   *)
(* bounded by MaxFaults, so they stop as well.  Nothing makes another      *)
(* program or a stray chef-client end: a daemon never does.                *)
(***************************************************************************)
Fairness ==
    /\ WF_vars(BootStep)
    /\ SF_vars(\E ps \in SUBSET Pids : pidFile \notin ps /\ CronTick(ps))
    /\ \A p \in Pids : WF_vars(ScriptStep(p))
    /\ SF_vars(\E p \in Pids : KnifeAnswers(p))
    /\ \A n \in Nodes :
        /\ SF_vars(\E p \in Pids : current[p] = n /\ ClientSucceeds(p))
        /\ SF_vars(\E p \in Pids : current[p] = n /\ ReportReady(p))

FairSpec == Spec /\ Fairness

-----------------------------------------------------------------------------
(* Properties                                                               *)

\* The pid file keeps scripts apart: unless two of them were once between the
\* test of the pid file and the write of it (lines 31-39), at most one script
\* is past the test, whatever exits, reboots and reused pids came before.
OneScriptUnlessRaced ==
    raced \/ \A p, q \in Pids :
        pc[p] \in Starting \union Looping /\ pc[q] \in Starting \union Looping => p = q

\* Compass is told a node is ready only when chef-client has converged it and
\* its .done file is there (lines 93-96), across retries, lost reports and
\* reboots: the next boot of the host finds the .done file of every node Compass
\* has as ready, and a converged node is one the chef server lists.
ReadyIsConverged == ready \subseteq done /\ done \subseteq registered

\* A script that ends because all_nodes_success is still 1 leaves no node of its
\* list unconverged (lines 53, 92, 99-103): a failure early in the loop is not
\* forgotten by a later success, nor by a former pass.
CleanExit == [][\A p \in Pids : EndPass(p) => listed[p] \subseteq done]_vars

\* The script implements the progress Compass relies on.
Progress == INSTANCE DeployProgress
ProgressSpec == Progress!ProgressSpec

\* The pid of the stale file is another program's.
HeldByForeign == pidFile \in Pids /\ pc[pidFile] = "foreign"

\* Every node the chef server lists is reported ready at last, although reports
\* are lost, runs fail, the host reboots and scripts give way to one another:
\* the cron job and the resending of reports (line 96, on every success, not
\* only the first) make up for it.  Two things stop the host for good, and only
\* they do: a program that never ends has the pid the file names, and every run
\* exits at lines 34-36; or a chef-client that never ends is found by pgrep, and
\* every run breaks at lines 42-45.
EventuallyReady ==
    \/ []<>(registered \subseteq ready)
    \/ <>[]HeldByForeign
    \/ <>[]stray
=============================================================================
