----------------------------- MODULE HealthCheck ----------------------------
(***************************************************************************)
(* The Rally health check of a deployed cluster, check_health.py: a main   *)
(* process that opens one report per task at Compass, recreates the Rally  *)
(* deployment and hands the tasks in chunks to a pool of workers, each of  *)
(* which runs a task and sends its report.  A HealthException becomes an   *)
(* "error" report (error_handler_decorator); any other exception ends the  *)
(* chunk it occurs in, and nobody looks at the result of map_async.        *)
(*                                                                         *)
(* Several runs may be started for one cluster; they share the pid file,   *)
(* the Rally database and the reports at Compass.                          *)
(***************************************************************************)
EXTENDS Naturals, FiniteSets

CONSTANTS
    Runs,        \* executions of check_health.py for the cluster
    Workers,     \* processes of a run's pool
    Tasks,       \* scenario files, one report each
    ChunkSize,   \* how many tasks map_async hands to a worker at a time
    Times,       \* executions of a scenario (runner times)
    Before,      \* a run before these, whose task records may be left
    NoPid,       \* there is no pid file
    NoTask       \* a worker with no task

ASSUME NoPidAssumption == NoPid \notin Runs /\ Before \notin Runs
ASSUME NoTaskAssumption == NoTask \notin Tasks
ASSUME ChunkAssumption == ChunkSize \in Nat \ {0}
ASSUME TimesAssumption == Times \in Nat \ {0}

VARIABLES
    main,        \* where each run's main process is
    after,       \* where create_deployment resumes once error_handler returns
    pidFile,     \* the run that /tmp/compass_health_check.pid names
    deployment,  \* the Rally database has the cluster's deployment
    records,     \* the Rally task records, by run and task
    doomed,      \* those each run has listed and not deleted yet
    queue,       \* the tasks of each pool not handed out yet
    chunk,       \* the tasks each worker has in hand
    worker,      \* where each worker is
    current,     \* the task each worker is at
    result,      \* what Rally made of that task
    board,       \* the report of each task at Compass
    sent,        \* history: tasks each run has sent a report of
    abandoned    \* history: tasks each run gave up because of an exception

poolVars == <<queue, chunk, worker, current, result>>
rallyVars == <<deployment, records, doomed>>
reportVars == <<board, sent, abandoned>>
vars == <<main, after, pidFile, rallyVars, poolVars, reportVars>>

MainPc == {"idle", "check", "unlink", "write", "reports", "deploy", "purge", "destroy",
           "create", "clean", "cleanUnlink", "put", "pool", "join", "final",
           "finalUnlink", "done", "refused", "crashed", "killed"}
WorkerPc == {"idle", "collect", "send", "clean", "cleanUnlink", "put"}
Ended == {"done", "refused", "crashed", "killed"}
Guarded == MainPc \ (Ended \union {"idle", "check", "unlink"})

Records == (Runs \union {Before}) \X Tasks

\* What `rally task start` comes to: the task failed, or it has so many results
\* of its Times executions, of which so many have an error.
Failed == [failed |-> TRUE, results |-> 0, errors |-> 0]
Results == {Failed} \union
           {o \in [failed : {FALSE}, results : 0..Times, errors : 0..Times] : o.errors <= o.results}
Verdicts == {"success", "finished", "error"}

TypeOK ==
    /\ main \in [Runs -> MainPc]
    /\ after \in [Runs -> {"create", "pool"}]
    /\ pidFile \in Runs \union {NoPid}
    /\ deployment \in BOOLEAN
    /\ records \in SUBSET Records
    /\ doomed \in [Runs -> SUBSET Records]
    /\ queue \in [Runs -> SUBSET Tasks]
    /\ chunk \in [Runs -> [Workers -> SUBSET Tasks]]
    /\ worker \in [Runs -> [Workers -> WorkerPc]]
    /\ current \in [Runs -> [Workers -> Tasks \union {NoTask}]]
    /\ result \in [Runs -> [Workers -> Results]]
    /\ board \in [Tasks -> {"none", "pending"} \union Verdicts]
    /\ sent \in [Runs -> SUBSET Tasks]
    /\ abandoned \in [Runs -> SUBSET Tasks]

Init ==
    /\ main = [r \in Runs |-> "idle"]
    /\ after = [r \in Runs |-> "create"]
    /\ pidFile = NoPid
    /\ deployment \in BOOLEAN
    /\ records \in {{}, {Before} \X Tasks}
    /\ doomed = [r \in Runs |-> {}]
    /\ queue = [r \in Runs |-> {}]
    /\ chunk = [r \in Runs |-> [w \in Workers |-> {}]]
    /\ worker = [r \in Runs |-> [w \in Workers |-> "idle"]]
    /\ current = [r \in Runs |-> [w \in Workers |-> NoTask]]
    /\ result = [r \in Runs |-> [w \in Workers |-> Failed]]
    /\ board = [t \in Tasks |-> "none"]
    /\ sent = [r \in Runs |-> {}]
    /\ abandoned = [r \in Runs |-> {}]

-----------------------------------------------------------------------------
(* The pid file                                                             *)

\* os.path.exists('/proc/%s/cmd' % pid): Linux has cmdline and exe, but no cmd.
ProcessSeen(r) == FALSE

\* is_process_running: where it leaves its caller, which goes on to unlink the
\* file when the process it names is not seen.
TestPid(absent, running, stale) ==
    IF pidFile = NoPid THEN absent ELSE IF ProcessSeen(pidFile) THEN running ELSE stale

Goto(r, here, there) ==
    /\ main[r] = here
    /\ main' = [main EXCEPT ![r] = there]

\* os.unlink raises when the file has gone away since the test.
Unlink(there) == IF pidFile = NoPid THEN "crashed" ELSE there

-----------------------------------------------------------------------------
(* main and run                                                             *)

Start(r) ==
    /\ Goto(r, "idle", "check")
    /\ UNCHANGED <<after, pidFile, rallyVars, poolVars, reportVars>>

CheckPid(r) ==
    /\ Goto(r, "check", TestPid("write", "refused", "unlink"))
    /\ UNCHANGED <<after, pidFile, rallyVars, poolVars, reportVars>>

UnlinkStale(r) ==
    /\ Goto(r, "unlink", Unlink("write"))
    /\ pidFile' = NoPid
    /\ UNCHANGED <<after, rallyVars, poolVars, reportVars>>

WritePid(r) ==
    /\ Goto(r, "write", "reports")
    /\ pidFile' = r
    /\ UNCHANGED <<after, rallyVars, poolVars, reportVars>>

\* create_reports: Compass opens a report per task, though its answer may be lost ...
CreateReports(r, there) ==
    /\ Goto(r, "reports", there)
    /\ board' = [t \in Tasks |-> "pending"]
    /\ UNCHANGED <<after, pidFile, rallyVars, poolVars, sent, abandoned>>

\* ... or refuses, which is only logged, or the request raises.
ReportsRefused(r, there) ==
    /\ Goto(r, "reports", there)
    /\ UNCHANGED <<after, pidFile, rallyVars, poolVars, reportVars>>

\* A HealthException in create_deployment or in the delete nested in it:
\* error_handler runs, and run goes on where the decorated call returns.
MainFails(r, here, resume) ==
    /\ Goto(r, here, "clean")
    /\ after' = [after EXCEPT ![r] = resume]
    /\ UNCHANGED <<pidFile, rallyVars, poolVars, reportVars>>

NoConfig(r) == MainFails(r, "deploy", "pool")

\* The tasks of the deployment found, if there is one: those of the deployments
\* before it are not listed.
FindDeployment(r) ==
    /\ Goto(r, "deploy", IF deployment THEN "purge" ELSE "create")
    /\ \E listed \in IF deployment THEN SUBSET records ELSE {{}} :
          doomed' = [doomed EXCEPT ![r] = listed]
    /\ UNCHANGED <<after, pidFile, deployment, records, poolVars, reportVars>>

\* cleanup_previous_tasks deletes them one by one ...
DeleteTask(r, record) ==
    /\ main[r] = "purge"
    /\ record \in records
    /\ records' = records \ {record}
    /\ doomed' = [doomed EXCEPT ![r] = @ \ {record}]
    /\ UNCHANGED <<main, after, pidFile, deployment, poolVars, reportVars>>

TasksDeleted(r) ==
    /\ doomed[r] = {}
    /\ Goto(r, "purge", "destroy")
    /\ UNCHANGED <<after, pidFile, rallyVars, poolVars, reportVars>>

\* ... and another run has deleted one of them since: TaskNotFound.
TaskGone(r) ==
    /\ ~ (doomed[r] \subseteq records)
    /\ Goto(r, "purge", "crashed")
    /\ doomed' = [doomed EXCEPT ![r] = {}]
    /\ UNCHANGED <<after, pidFile, deployment, records, poolVars, reportVars>>

\* A command that died of a signal counts as a success: returncode > 0 is false.
Destroy(r) ==
    /\ deployment
    /\ Goto(r, "destroy", "create")
    /\ deployment' \in {FALSE, deployment}
    /\ UNCHANGED <<after, pidFile, records, doomed, poolVars, reportVars>>

DestroyFails(r) == MainFails(r, "destroy", "create")

Create(r) ==
    /\ Goto(r, "create", "pool")
    /\ deployment' = TRUE
    /\ UNCHANGED <<after, pidFile, records, doomed, poolVars, reportVars>>

CreateFails(r) == MainFails(r, "create", "pool")

\* Again a signal, and then the list of deployments has no first element.
CreateRaises(r) ==
    /\ ~ deployment
    /\ Goto(r, "create", "crashed")
    /\ UNCHANGED <<after, pidFile, rallyVars, poolVars, reportVars>>

\* error_handler in the main process: clean_pidfile, then the PUT.
MainClean(r) ==
    /\ Goto(r, "clean", TestPid("put", "cleanUnlink", "cleanUnlink"))
    /\ UNCHANGED <<after, pidFile, rallyVars, poolVars, reportVars>>

MainCleanUnlink(r) ==
    /\ Goto(r, "cleanUnlink", Unlink("put"))
    /\ pidFile' = NoPid
    /\ UNCHANGED <<after, rallyVars, poolVars, reportVars>>

\* The PUT goes to the cluster's URL, not to a report; it may raise.
MainPut(r) ==
    /\ \E there \in {after[r], "crashed"} : Goto(r, "put", there)
    /\ UNCHANGED <<after, pidFile, rallyVars, poolVars, reportVars>>

StartPool(r) ==
    /\ Goto(r, "pool", "join")
    /\ queue' = [queue EXCEPT ![r] = Tasks]
    /\ UNCHANGED <<after, pidFile, rallyVars, chunk, worker, current, result, reportVars>>

\* mutant: the pool is closed and not joined
JoinPoolClosed(r) ==
    /\ queue[r] = {}
    /\ Goto(r, "join", "final")
    /\ UNCHANGED <<after, pidFile, rallyVars, poolVars, reportVars>>

\* pool.join: every task handed out, every worker finished.
JoinPool(r) ==
    /\ queue[r] = {}
    /\ \A w \in Workers : chunk[r][w] = {}
    /\ Goto(r, "join", "final")
    /\ UNCHANGED <<after, pidFile, rallyVars, poolVars, reportVars>>

FinalClean(r) ==
    /\ Goto(r, "final", TestPid("done", "finalUnlink", "finalUnlink"))
    /\ UNCHANGED <<after, pidFile, rallyVars, poolVars, reportVars>>

FinalUnlink(r) ==
    /\ Goto(r, "finalUnlink", Unlink("done"))
    /\ pidFile' = NoPid
    /\ UNCHANGED <<after, rallyVars, poolVars, reportVars>>

-----------------------------------------------------------------------------
(* The workers of a pool                                                    *)

At(r, w, here) == worker[r][w] = here
Move(r, w, there) == worker' = [worker EXCEPT ![r][w] = there]

TakeChunk(r, w, c) ==
    /\ main[r] = "join"
    /\ chunk[r][w] = {}
    /\ c # {}
    /\ c \subseteq queue[r]
    /\ Cardinality(c) = ChunkSize \/ (c = queue[r] /\ Cardinality(c) < ChunkSize)
    /\ queue' = [queue EXCEPT ![r] = @ \ c]
    /\ chunk' = [chunk EXCEPT ![r][w] = c]
    /\ UNCHANGED <<main, after, pidFile, rallyVars, worker, current, result, reportVars>>

\* rally task start: the task runs on the deployment and leaves a record ...
RunTask(r, w, t, res) ==
    /\ At(r, w, "idle")
    /\ t \in chunk[r][w]
    /\ deployment
    /\ records' = records \union {<<r, t>>}
    /\ current' = [current EXCEPT ![r][w] = t]
    /\ result' = [result EXCEPT ![r][w] = res]
    /\ Move(r, w, "collect")
    /\ UNCHANGED <<main, after, pidFile, deployment, doomed, queue, chunk, reportVars>>

\* ... or its output names no task: 'Unknown rally internel error!'.
RunTaskUnknown(r, w, t) ==
    /\ At(r, w, "idle")
    /\ t \in chunk[r][w]
    /\ current' = [current EXCEPT ![r][w] = t]
    /\ Move(r, w, "clean")
    /\ UNCHANGED <<main, after, pidFile, rallyVars, queue, chunk, result, reportVars>>

\* An exception that is no HealthException ends the whole chunk.
Abandon(r, w) ==
    /\ abandoned' = [abandoned EXCEPT ![r] = @ \union chunk[r][w]]
    /\ chunk' = [chunk EXCEPT ![r][w] = {}]
    /\ current' = [current EXCEPT ![r][w] = NoTask]
    /\ result' = [result EXCEPT ![r][w] = Failed]
    /\ Move(r, w, "idle")
    /\ UNCHANGED queue

\* The record is there and the results are read.
Collect(r, w) ==
    /\ At(r, w, "collect")
    /\ <<r, current[r][w]>> \in records
    /\ ~ result[r][w].failed
    /\ Move(r, w, "send")
    /\ UNCHANGED <<main, after, pidFile, rallyVars, queue, chunk, current, result, reportVars>>

\* The task failed, or `rally task results` did.
CollectFails(r, w) ==
    /\ At(r, w, "collect")
    /\ <<r, current[r][w]>> \in records
    /\ Move(r, w, "clean")
    /\ UNCHANGED <<main, after, pidFile, rallyVars, queue, chunk, current, result, reportVars>>

\* The record was deleted by another run's clean-up.
RecordGone(r, w) ==
    /\ At(r, w, "collect")
    /\ <<r, current[r][w]>> \notin records
    /\ Abandon(r, w)
    /\ UNCHANGED <<main, after, pidFile, rallyVars, board, sent>>

\* The results are no JSON, or a division by zero in _get_action_dur_report.
CollectRaises(r, w) ==
    /\ At(r, w, "collect")
    /\ <<r, current[r][w]>> \in records
    /\ ~ result[r][w].failed
    /\ Abandon(r, w)
    /\ UNCHANGED <<main, after, pidFile, rallyVars, board, sent>>

\* A PUT to a report Compass does not have changes nothing there.
Deliver(r, w, verdict) ==
    LET t == current[r][w]
    IN  /\ board' = IF board[t] = "none" THEN board ELSE [board EXCEPT ![t] = verdict]
        /\ sent' = [sent EXCEPT ![r] = @ \union {t}]

\* mutant: the task stays in hand and is run again
NextTaskAgain(r, w) ==
    /\ current' = [current EXCEPT ![r][w] = NoTask]
    /\ result' = [result EXCEPT ![r][w] = Failed]
    /\ Move(r, w, "idle")
    /\ UNCHANGED <<queue, chunk>>

NextTask(r, w) ==
    /\ chunk' = [chunk EXCEPT ![r][w] = @ \ {current[r][w]}]
    /\ current' = [current EXCEPT ![r][w] = NoTask]
    /\ result' = [result EXCEPT ![r][w] = Failed]
    /\ Move(r, w, "idle")
    /\ UNCHANGED queue

\* requests.put: it answers, it raises after Compass has the report (the answer
\* is lost), or it raises without having delivered anything.
Put(r, w, verdict) ==
    \/ Deliver(r, w, verdict) /\ NextTask(r, w) /\ UNCHANGED abandoned
    \/ Deliver(r, w, verdict) /\ Abandon(r, w)
    \/ Abandon(r, w) /\ UNCHANGED <<board, sent>>

\* _get_total_errors and the verdict of send_report.
TotalErrors(res) == IF res.results = 0 THEN 1 ELSE res.errors

\* mutant: a state Compass does not know
VerdictFailed(res) == IF TotalErrors(res) >= Times THEN "failed" ELSE "success"

Verdict(res) ==
    IF TotalErrors(res) >= Times THEN "error"
    ELSE IF TotalErrors(res) > 0 THEN "finished" ELSE "success"

\* mutant: the decorator catches every exception, a lost answer too
SendReportCaught(r, w) ==
    /\ At(r, w, "send")
    /\ \/ Put(r, w, Verdict(result[r][w]))
       \/ /\ Deliver(r, w, Verdict(result[r][w]))
          /\ Move(r, w, "clean")
          /\ UNCHANGED <<queue, chunk, current, result, abandoned>>
    /\ UNCHANGED <<main, after, pidFile, rallyVars>>

SendReport(r, w) ==
    /\ At(r, w, "send")
    /\ Put(r, w, Verdict(result[r][w]))
    /\ UNCHANGED <<main, after, pidFile, rallyVars>>

\* error_handler in a worker: clean_pidfile ...
WorkerClean(r, w) ==
    /\ At(r, w, "clean")
    /\ Move(r, w, TestPid("put", "cleanUnlink", "cleanUnlink"))
    /\ UNCHANGED <<main, after, pidFile, rallyVars, queue, chunk, current, result, reportVars>>

WorkerUnlink(r, w) ==
    /\ At(r, w, "cleanUnlink")
    /\ pidFile # NoPid
    /\ pidFile' = NoPid
    /\ Move(r, w, "put")
    /\ UNCHANGED <<main, after, rallyVars, queue, chunk, current, result, reportVars>>

\* ... whose unlink raises when another process was faster ...
WorkerUnlinkRaises(r, w) ==
    /\ At(r, w, "cleanUnlink")
    /\ pidFile = NoPid
    /\ Abandon(r, w)
    /\ UNCHANGED <<main, after, pidFile, rallyVars, board, sent>>

\* ... and then the error report.
SendError(r, w) ==
    /\ At(r, w, "put")
    /\ Put(r, w, "error")
    /\ UNCHANGED <<main, after, pidFile, rallyVars>>

-----------------------------------------------------------------------------
\* The container is stopped: the pid file stays.
Kill(r) ==
    /\ main[r] \notin Ended \union {"idle"}
    /\ main' = [main EXCEPT ![r] = "killed"]
    /\ doomed' = [doomed EXCEPT ![r] = {}]
    /\ queue' = [queue EXCEPT ![r] = {}]
    /\ chunk' = [chunk EXCEPT ![r] = [w \in Workers |-> {}]]
    /\ worker' = [worker EXCEPT ![r] = [w \in Workers |-> "idle"]]
    /\ current' = [current EXCEPT ![r] = [w \in Workers |-> NoTask]]
    /\ result' = [result EXCEPT ![r] = [w \in Workers |-> Failed]]
    /\ UNCHANGED <<after, pidFile, deployment, records, reportVars>>

MainStep(r) ==
    \/ CheckPid(r) \/ UnlinkStale(r) \/ WritePid(r)
    \/ \E there \in {"deploy", "crashed"} : CreateReports(r, there) \/ ReportsRefused(r, there)
    \/ NoConfig(r) \/ FindDeployment(r)
    \/ \E record \in doomed[r] : DeleteTask(r, record)
    \/ TasksDeleted(r) \/ TaskGone(r) \/ Destroy(r) \/ DestroyFails(r)
    \/ Create(r) \/ CreateFails(r) \/ CreateRaises(r)
    \/ MainClean(r) \/ MainCleanUnlink(r) \/ MainPut(r)
    \/ StartPool(r) \/ JoinPool(r) \/ FinalClean(r) \/ FinalUnlink(r)

WorkerStep(r, w) ==
    \/ \E c \in SUBSET queue[r] : TakeChunk(r, w, c)
    \/ \E t \in chunk[r][w] :
        RunTaskUnknown(r, w, t) \/ \E res \in Results : RunTask(r, w, t, res)
    \/ Collect(r, w) \/ CollectFails(r, w) \/ RecordGone(r, w) \/ CollectRaises(r, w)
    \/ SendReport(r, w)
    \/ WorkerClean(r, w) \/ WorkerUnlink(r, w) \/ WorkerUnlinkRaises(r, w) \/ SendError(r, w)

Next ==
    \E r \in Runs :
        \/ Start(r) \/ Kill(r) \/ MainStep(r)
        \/ \E w \in Workers : WorkerStep(r, w)

Spec == Init /\ [][Next]_vars

\* The processes of a started run are scheduled, and Rally and the requests
\* return.
Fairness ==
    \A r \in Runs :
        /\ WF_vars(MainStep(r))
        /\ \A w \in Workers : WF_vars(WorkerStep(r, w))

FairSpec == Spec /\ Fairness

-----------------------------------------------------------------------------
(* Properties                                                               *)

\* When the pool is joined, every task's report was sent or its task was given
\* up because of an exception: no task falls between the queue, the chunks and
\* the workers (map_async, close, join), whatever failed.
EveryTaskAccounted ==
    \A r \in Runs : main[r] \in {"final", "finalUnlink", "done"} =>
        sent[r] \union abandoned[r] = Tasks

\* No task is run by two workers, or again once its report was sent: what is
\* queued, in hand, and sent or given up are apart (run, start_task).
NoTaskTwice ==
    \A r \in Runs, w \in Workers :
        /\ chunk[r][w] \intersect (queue[r] \union sent[r] \union abandoned[r]) = {}
        /\ \A v \in Workers \ {w} : chunk[r][w] \intersect chunk[r][v] = {}

\* A started run ends, also when exceptions end chunks or the main process, and
\* when another run takes its deployment and its pid file away.
EveryRunEnds == \A r \in Runs : main[r] = "check" ~> main[r] \in Ended

\* For a single run, Compass sees a HealthBoard: each report is opened once and
\* settled at most once.
Board == INSTANCE HealthBoard
BoardSpec == Board!BoardSpec

\* A run that finds the pid file of a live run gives way to it, as main logs:
\* "already exisits, exit!".
GivesWay ==
    [][\A r, s \in Runs :
        main[r] = "check" /\ pidFile = s /\ main[s] \in Guarded =>
            main'[r] \in {"check", "refused", "killed"}]_vars
=============================================================================
