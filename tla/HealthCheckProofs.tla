-------------------------- MODULE HealthCheckProofs -------------------------
(***************************************************************************)
(* Proofs about HealthCheck, for any runs, workers, tasks and chunk size.  *)
(*                                                                         *)
(* PoolInv is the bookkeeping of map_async: while a pool is joined, every  *)
(* task is in exactly one place, the queue, one worker's chunk, or the     *)
(* tasks whose report was sent or which were given up.  That no task is    *)
(* lost or run twice follows, and so does, for a single run, that each     *)
(* report is settled at most once (HealthBoard).                           *)
(***************************************************************************)
EXTENDS HealthCheck, TLAPS

InPool == {"join", "final", "finalUnlink", "done", "crashed", "killed"}
Joined == {"final", "finalUnlink", "done"}

Settled(r) == sent[r] \union abandoned[r]

PoolInv ==
    \A r \in Runs :
        /\ main[r] # "join" => queue[r] = {}
        /\ main[r] \notin InPool => sent[r] = {} /\ abandoned[r] = {}
        /\ main[r] \in Joined => Tasks \subseteq Settled(r)
        /\ main[r] = "join" =>
            \A t \in Tasks \ (queue[r] \union Settled(r)) : \E w \in Workers : t \in chunk[r][w]
        /\ queue[r] \intersect Settled(r) = {}
        /\ \A w \in Workers :
            /\ main[r] # "join" => chunk[r][w] = {}
            /\ chunk[r][w] \intersect (queue[r] \union Settled(r)) = {}
            /\ worker[r][w] = "idle" <=> current[r][w] = NoTask
            /\ worker[r][w] # "idle" => current[r][w] \in chunk[r][w]
            /\ \A v \in Workers \ {w} : chunk[r][w] \intersect chunk[r][v] = {}

-----------------------------------------------------------------------------
(* Type correctness                                                         *)

LEMMA FailedType == Failed \in Results
BY DEF Failed, Results

LEMMA VerdictType == \A res \in Results : Verdict(res) \in Verdicts
BY DEF Verdict, Verdicts

LEMMA TypeInit == Init => TypeOK
BY FailedType DEF Init, TypeOK, MainPc, WorkerPc, Records

\* A move of a main process to one of its program points keeps its type.
LEMMA GotoType ==
    ASSUME TypeOK, NEW r \in Runs, NEW here, NEW there \in MainPc, Goto(r, here, there)
    PROVE  main' \in [Runs -> MainPc]
BY DEF TypeOK, Goto

\* Every step of a main process keeps the types.
LEMMA TypeMain == ASSUME TypeOK, NEW r \in Runs, MainStep(r) PROVE TypeOK'
<1> USE DEF TypeOK, rallyVars, poolVars, reportVars
<1>1. main' \in [Runs -> MainPc]
  BY GotoType, \A there \in {"create", "pool"} : there \in MainPc
     DEF MainStep, CheckPid, UnlinkStale, WritePid, CreateReports, ReportsRefused, NoConfig,
         FindDeployment, DeleteTask, TasksDeleted, TaskGone, Destroy, DestroyFails, Create,
         CreateFails, CreateRaises, MainFails, MainClean, MainCleanUnlink, MainPut,
         StartPool, JoinPool, FinalClean, FinalUnlink,
         TestPid, Unlink, MainPc, Goto
<1>2. UNCHANGED <<chunk, worker, current, result, sent, abandoned>>
  BY DEF MainStep, CheckPid, UnlinkStale, WritePid, CreateReports, ReportsRefused, NoConfig,
         FindDeployment, DeleteTask, TasksDeleted, TaskGone, Destroy, DestroyFails, Create,
         CreateFails, CreateRaises, MainFails, MainClean, MainCleanUnlink, MainPut,
         StartPool, JoinPool, FinalClean, FinalUnlink
<1>3. after' \in [Runs -> {"create", "pool"}] /\ pidFile' \in Runs \union {NoPid}
  BY DEF MainStep, CheckPid, UnlinkStale, WritePid, CreateReports, ReportsRefused, NoConfig,
         FindDeployment, DeleteTask, TasksDeleted, TaskGone, Destroy, DestroyFails, Create,
         CreateFails, CreateRaises, MainFails, MainClean, MainCleanUnlink, MainPut,
         StartPool, JoinPool, FinalClean, FinalUnlink
<1>4. /\ deployment' \in BOOLEAN
      /\ records' \in SUBSET Records
      /\ doomed' \in [Runs -> SUBSET Records]
  <2>1. CASE FindDeployment(r)
    <3>1. PICK listed \in SUBSET Records : doomed' = [doomed EXCEPT ![r] = listed]
      BY <2>1 DEF FindDeployment
    <3> QED
      BY <2>1, <3>1 DEF FindDeployment
  <2>2. CASE \E record \in doomed[r] : DeleteTask(r, record)
    BY <2>2 DEF DeleteTask
  <2>3. CASE TaskGone(r)
    BY <2>3 DEF TaskGone
  <2>4. CASE Destroy(r) \/ Create(r)
    BY <2>4 DEF Destroy, Create
  <2>5. CASE UNCHANGED rallyVars
    BY <2>5
  <2> QED
    BY <2>1, <2>2, <2>3, <2>4, <2>5
       DEF MainStep, CheckPid, UnlinkStale, WritePid, CreateReports, ReportsRefused, NoConfig,
           TasksDeleted, DestroyFails, CreateFails, CreateRaises, MainFails, MainClean,
           MainCleanUnlink, MainPut, StartPool, JoinPool, FinalClean, FinalUnlink
<1>5. queue' \in [Runs -> SUBSET Tasks] /\ board' \in [Tasks -> {"none", "pending"} \union Verdicts]
  BY DEF MainStep, CheckPid, UnlinkStale, WritePid, CreateReports, ReportsRefused, NoConfig,
         FindDeployment, DeleteTask, TasksDeleted, TaskGone, Destroy, DestroyFails, Create,
         CreateFails, CreateRaises, MainFails, MainClean, MainCleanUnlink, MainPut,
         StartPool, JoinPool, FinalClean, FinalUnlink
<1> QED
  BY <1>1, <1>2, <1>3, <1>4, <1>5

\* What TypeOK says of the pool's variables, one by one.
LEMMA PoolTypes ==
    ASSUME TypeOK
    PROVE  /\ queue \in [Runs -> SUBSET Tasks]
           /\ chunk \in [Runs -> [Workers -> SUBSET Tasks]]
           /\ worker \in [Runs -> [Workers -> WorkerPc]]
           /\ current \in [Runs -> [Workers -> Tasks \union {NoTask}]]
           /\ result \in [Runs -> [Workers -> Results]]
BY DEF TypeOK

\* A worker's move keeps the type of its program counter.
LEMMA MoveType ==
    ASSUME TypeOK, NEW r \in Runs, NEW w \in Workers, NEW there \in WorkerPc, Move(r, w, there)
    PROVE  worker' \in [Runs -> [Workers -> WorkerPc]]
BY PoolTypes DEF Move

\* The end of a task or of a chunk keeps the types of the pool's variables.
LEMMA EndType ==
    ASSUME TypeOK, NEW r \in Runs, NEW w \in Workers, NextTask(r, w) \/ Abandon(r, w)
    PROVE  /\ queue' \in [Runs -> SUBSET Tasks]
           /\ chunk' \in [Runs -> [Workers -> SUBSET Tasks]]
           /\ worker' \in [Runs -> [Workers -> WorkerPc]]
           /\ current' \in [Runs -> [Workers -> Tasks \union {NoTask}]]
           /\ result' \in [Runs -> [Workers -> Results]]
<1>1. queue' \in [Runs -> SUBSET Tasks]
  BY PoolTypes DEF NextTask, Abandon
<1>2. chunk' \in [Runs -> [Workers -> SUBSET Tasks]]
  <2>1. CASE NextTask(r, w)
    BY <2>1, PoolTypes DEF NextTask
  <2>2. CASE Abandon(r, w)
    BY <2>2, PoolTypes DEF Abandon
  <2> QED
    BY <2>1, <2>2
<1>3. Move(r, w, "idle") /\ "idle" \in WorkerPc
  BY DEF NextTask, Abandon, WorkerPc
<1>4. worker' \in [Runs -> [Workers -> WorkerPc]]
  BY <1>3, MoveType
<1>5. current' = [current EXCEPT ![r][w] = NoTask] /\ result' = [result EXCEPT ![r][w] = Failed]
  BY DEF NextTask, Abandon
<1>6. current' \in [Runs -> [Workers -> Tasks \union {NoTask}]]
  BY <1>5, PoolTypes
<1>7. result' \in [Runs -> [Workers -> Results]]
  BY <1>5, PoolTypes, FailedType
<1> QED
  BY <1>1, <1>2, <1>4, <1>6, <1>7

\* Every step of a worker keeps the types; that it is at a task of its chunk comes
\* from PoolInv.
LEMMA TypeWorker ==
    ASSUME TypeOK, PoolInv, NEW r \in Runs, NEW w \in Workers, WorkerStep(r, w)
    PROVE  TypeOK'
<1> USE DEF rallyVars, poolVars, reportVars, At
<1>1. worker[r][w] # "idle" => current[r][w] \in Tasks
  BY PoolTypes DEF PoolInv
<1>2. ASSUME NEW c \in SUBSET queue[r], TakeChunk(r, w, c) PROVE TypeOK'
  <2>1. c \in SUBSET Tasks /\ queue' \in [Runs -> SUBSET Tasks]
    BY <1>2, PoolTypes DEF TakeChunk
  <2>2. chunk' \in [Runs -> [Workers -> SUBSET Tasks]]
    BY <1>2, <2>1, PoolTypes DEF TakeChunk
  <2> QED
    BY <1>2, <2>1, <2>2 DEF TakeChunk, TypeOK
<1>3. ASSUME NEW t \in chunk[r][w], NEW res \in Results,
             RunTaskUnknown(r, w, t) \/ RunTask(r, w, t, res)
      PROVE  TypeOK'
  <2>1. t \in Tasks /\ records' \in SUBSET Records
    BY <1>3, PoolTypes DEF RunTaskUnknown, RunTask, TypeOK, Records
  <2>2. current' \in [Runs -> [Workers -> Tasks \union {NoTask}]]
    <3>1. current' = [current EXCEPT ![r][w] = t]
      BY <1>3 DEF RunTaskUnknown, RunTask
    <3> QED
      BY <2>1, <3>1, PoolTypes
  <2>3. worker' \in [Runs -> [Workers -> WorkerPc]]
    BY <1>3, MoveType, \A p \in {"clean", "collect"} : p \in WorkerPc
       DEF RunTaskUnknown, RunTask, WorkerPc
  <2>4. result' \in [Runs -> [Workers -> Results]]
    <3>1. result' = result \/ result' = [result EXCEPT ![r][w] = res]
      BY <1>3 DEF RunTaskUnknown, RunTask
    <3>2. CASE result' = result
      BY <3>2, PoolTypes
    <3>3. CASE result' = [result EXCEPT ![r][w] = res]
      BY <3>3, PoolTypes
    <3> QED
      BY <3>1, <3>2, <3>3
  <2> QED
    BY <1>3, <2>1, <2>2, <2>3, <2>4 DEF RunTaskUnknown, RunTask, TypeOK
<1>4. CASE Collect(r, w) \/ CollectFails(r, w) \/ WorkerClean(r, w) \/ WorkerUnlink(r, w)
  <2>1. worker' \in [Runs -> [Workers -> WorkerPc]]
    <3>1. \E p \in {"send", "clean", "put", "cleanUnlink"} : Move(r, w, p)
      BY <1>4 DEF Collect, CollectFails, WorkerClean, WorkerUnlink, TestPid
    <3> QED
      BY <3>1, MoveType DEF WorkerPc
  <2> QED
    BY <1>4, <2>1 DEF Collect, CollectFails, WorkerClean, WorkerUnlink, TypeOK
<1>5. ASSUME NEW v \in Verdicts, worker[r][w] # "idle", Put(r, w, v),
             UNCHANGED <<main, after, pidFile, rallyVars>>
      PROVE  TypeOK'
  <2>1. NextTask(r, w) \/ Abandon(r, w)
    BY <1>5 DEF Put
  <2>2. board' = board \/ board' = [board EXCEPT ![current[r][w]] = v]
    BY <1>5 DEF Put, Deliver
  <2>3. sent' = sent \/ sent' = [sent EXCEPT ![r] = @ \union {current[r][w]}]
    BY <1>5 DEF Put, Deliver
  <2>4. abandoned' = abandoned \/ abandoned' = [abandoned EXCEPT ![r] = @ \union chunk[r][w]]
    BY <1>5 DEF Put, Abandon
  <2>5. board' \in [Tasks -> {"none", "pending"} \union Verdicts]
    BY <1>1, <1>5, <2>2 DEF TypeOK
  <2>6. sent' \in [Runs -> SUBSET Tasks]
    <3>1. current[r][w] \in Tasks /\ sent \in [Runs -> SUBSET Tasks]
      BY <1>1, <1>5 DEF TypeOK
    <3> QED
      BY <2>3, <3>1
  <2>7. abandoned' \in [Runs -> SUBSET Tasks]
    <3>1. chunk[r][w] \in SUBSET Tasks /\ abandoned \in [Runs -> SUBSET Tasks]
      BY PoolTypes DEF TypeOK
    <3> QED
      BY <2>4, <3>1
  <2> QED
    BY <1>5, <2>1, <2>5, <2>6, <2>7, EndType DEF TypeOK
<1>6. CASE RecordGone(r, w) \/ CollectRaises(r, w) \/ WorkerUnlinkRaises(r, w)
  <2>1. Abandon(r, w) /\ UNCHANGED <<main, after, pidFile, rallyVars, board, sent>>
    BY <1>6 DEF RecordGone, CollectRaises, WorkerUnlinkRaises
  <2>2. abandoned' = [abandoned EXCEPT ![r] = @ \union chunk[r][w]]
    BY <2>1 DEF Abandon
  <2>3. abandoned' \in [Runs -> SUBSET Tasks]
    BY <2>2, PoolTypes DEF TypeOK
  <2> QED
    BY <2>1, <2>3, EndType DEF TypeOK
<1>7. CASE SendReport(r, w)
  <2>1. Verdict(result[r][w]) \in Verdicts
    BY PoolTypes, VerdictType
  <2> QED
    BY <1>5, <1>7, <2>1 DEF SendReport
<1>8. CASE SendError(r, w)
  <2>1. "error" \in Verdicts
    BY DEF Verdicts
  <2> QED
    BY <1>5, <1>8, <2>1 DEF SendError
<1> QED
  BY <1>2, <1>3, <1>4, <1>6, <1>7, <1>8, FailedType DEF WorkerStep

\* A start or a stop of a run keeps the types.
LEMMA TypeRun == ASSUME TypeOK, NEW r \in Runs, Start(r) \/ Kill(r) PROVE TypeOK'
<1> USE DEF TypeOK, rallyVars, poolVars, reportVars, WorkerPc, MainPc
<1>1. CASE Start(r)
  BY <1>1 DEF Start, Goto
<1>2. CASE Kill(r)
  <2>1. main' \in [Runs -> MainPc] /\ queue' \in [Runs -> SUBSET Tasks]
    BY <1>2 DEF Kill
  <2>2. /\ chunk' \in [Runs -> [Workers -> SUBSET Tasks]]
        /\ worker' \in [Runs -> [Workers -> WorkerPc]]
        /\ current' \in [Runs -> [Workers -> Tasks \union {NoTask}]]
    BY <1>2 DEF Kill
  <2>3. result' \in [Runs -> [Workers -> Results]]
    BY <1>2, FailedType DEF Kill
  <2> QED
    BY <1>2, <2>1, <2>2, <2>3 DEF Kill
<1> QED
  BY <1>1, <1>2

-----------------------------------------------------------------------------
(* The bookkeeping of the pool                                              *)

\* The main process keeps PoolInv: it fills the queue once, and leaves the pool
\* when nothing is queued or in hand.
LEMMA PoolMain == ASSUME TypeOK, PoolInv, NEW r \in Runs, MainStep(r) PROVE PoolInv'
<1> USE DEF TypeOK, rallyVars, poolVars, reportVars, InPool, Joined, Settled, Goto
<1>1. CASE StartPool(r)
  BY <1>1 DEF StartPool, PoolInv
<1>2. CASE JoinPool(r)
  <2>1. main[r] = "join" /\ Tasks \subseteq Settled(r)
    BY <1>2 DEF JoinPool, PoolInv
  <2>2. main' = [main EXCEPT ![r] = "final"]
    BY <1>2 DEF JoinPool
  <2>3. UNCHANGED <<queue, chunk, worker, current, sent, abandoned>>
    BY <1>2 DEF JoinPool
  <2>4. queue[r] = {} /\ \A w \in Workers : chunk[r][w] = {}
    BY <1>2 DEF JoinPool
  <2> QED
    BY <2>1, <2>2, <2>3, <2>4 DEF PoolInv
<1>3. ASSUME NEW here, NEW there, Goto(r, here, there),
             here # "join", there # "join",
             here \in InPool \/ there \notin Joined,
             here \in InPool => there \in InPool,
             here \in Joined \/ there \notin Joined,
             UNCHANGED <<queue, chunk, worker, current, sent, abandoned>>
      PROVE  PoolInv'
  BY <1>3 DEF PoolInv
<1>4. CASE CheckPid(r) \/ UnlinkStale(r) \/ WritePid(r)
  BY <1>3, <1>4 DEF CheckPid, UnlinkStale, WritePid, TestPid, Unlink
<1>5. CASE \E there \in {"deploy", "crashed"} : CreateReports(r, there) \/ ReportsRefused(r, there)
  BY <1>3, <1>5 DEF CreateReports, ReportsRefused
<1>6. CASE NoConfig(r) \/ DestroyFails(r) \/ CreateFails(r)
  BY <1>3, <1>6 DEF NoConfig, DestroyFails, CreateFails, MainFails
<1>7. CASE \/ FindDeployment(r) \/ TasksDeleted(r) \/ TaskGone(r)
           \/ Destroy(r) \/ Create(r) \/ CreateRaises(r)
  BY <1>3, <1>7 DEF FindDeployment, TasksDeleted, TaskGone, Destroy, Create, CreateRaises
<1>10. CASE \E record \in doomed[r] : DeleteTask(r, record)
  BY <1>10 DEF DeleteTask, PoolInv
<1>8. CASE MainClean(r) \/ MainCleanUnlink(r) \/ MainPut(r)
  BY <1>3, <1>8 DEF MainClean, MainCleanUnlink, MainPut, TestPid, Unlink
<1>9. CASE FinalClean(r) \/ FinalUnlink(r)
  BY <1>3, <1>9 DEF FinalClean, FinalUnlink, TestPid, Unlink
<1> QED
  BY <1>1, <1>2, <1>4, <1>5, <1>6, <1>7, <1>8, <1>9, <1>10 DEF MainStep

\* A worker keeps PoolInv: a task leaves the queue for its chunk, and its chunk
\* for the tasks sent or given up.
LEMMA PoolWorker ==
    ASSUME TypeOK, PoolInv, NEW r \in Runs, NEW w \in Workers, WorkerStep(r, w)
    PROVE  PoolInv'
<1> USE DEF TypeOK, rallyVars, poolVars, reportVars, At, Move, Settled
<1>1. ASSUME NEW c \in SUBSET queue[r], TakeChunk(r, w, c) PROVE PoolInv'
  BY <1>1 DEF TakeChunk, PoolInv, InPool, Joined
<1>2. ASSUME NEW t \in chunk[r][w], NEW res \in Results,
             RunTaskUnknown(r, w, t) \/ RunTask(r, w, t, res)
      PROVE  PoolInv'
  <2>1. \E there \in {"clean", "collect"} : worker' = [worker EXCEPT ![r][w] = there]
    BY <1>2 DEF RunTaskUnknown, RunTask
  <2>2. /\ current' = [current EXCEPT ![r][w] = t]
        /\ UNCHANGED <<main, queue, chunk, sent, abandoned>>
        /\ t # NoTask
    BY <1>2, NoTaskAssumption DEF RunTaskUnknown, RunTask, NoTaskAssumption
  <2> QED
    BY <2>1, <2>2 DEF PoolInv
<1>3. CASE Collect(r, w) \/ CollectFails(r, w) \/ WorkerClean(r, w) \/ WorkerUnlink(r, w)
  <2>1. worker[r][w] # "idle" /\ UNCHANGED <<main, queue, chunk, current, sent, abandoned>>
    BY <1>3 DEF Collect, CollectFails, WorkerClean, WorkerUnlink
  <2>2. \E there \in {"send", "clean", "put", "cleanUnlink"} : worker' = [worker EXCEPT ![r][w] = there]
    BY <1>3 DEF Collect, CollectFails, WorkerClean, WorkerUnlink, TestPid
  <2> QED
    BY <2>1, <2>2 DEF PoolInv
<1>4. ASSUME main' = main, worker[r][w] # "idle", Abandon(r, w),
             sent' = sent \/ sent' = [sent EXCEPT ![r] = @ \union {current[r][w]}]
      PROVE  PoolInv'
  <2>1. main[r] = "join" /\ current[r][w] \in chunk[r][w]
    BY <1>4 DEF PoolInv
  <2> QED
    BY <1>4, <2>1 DEF Abandon, PoolInv, InPool, Joined
<1>5. ASSUME main' = main, worker[r][w] # "idle", NextTask(r, w), UNCHANGED abandoned,
             sent' = [sent EXCEPT ![r] = @ \union {current[r][w]}]
      PROVE  PoolInv'
  <2>1. main[r] = "join" /\ current[r][w] \in chunk[r][w]
    BY <1>5 DEF PoolInv
  <2> QED
    BY <1>5, <2>1 DEF NextTask, PoolInv, InPool, Joined
<1>6. CASE RecordGone(r, w) \/ CollectRaises(r, w) \/ WorkerUnlinkRaises(r, w)
  BY <1>4, <1>6 DEF RecordGone, CollectRaises, WorkerUnlinkRaises
<1>7. CASE SendReport(r, w) \/ SendError(r, w)
  BY <1>4, <1>5, <1>7 DEF SendReport, SendError, Put, Deliver
<1> QED
  BY <1>1, <1>2, <1>3, <1>6, <1>7, FailedType DEF WorkerStep

LEMMA PoolRun == ASSUME TypeOK, PoolInv, NEW r \in Runs, Start(r) \/ Kill(r) PROVE PoolInv'
<1> USE DEF TypeOK, rallyVars, poolVars, reportVars, InPool, Joined, Settled
<1>1. CASE Start(r)
  BY <1>1 DEF Start, Goto, PoolInv
<1>2. CASE Kill(r)
  BY <1>2 DEF Kill, PoolInv, Ended
<1> QED
  BY <1>1, <1>2

LEMMA Invariant == Spec => [](TypeOK /\ PoolInv)
<1>1. Init => TypeOK /\ PoolInv
  BY TypeInit DEF Init, PoolInv, InPool, Joined, Settled
<1>2. TypeOK /\ PoolInv /\ [Next]_vars => (TypeOK /\ PoolInv)'
  <2>1. CASE UNCHANGED vars
    BY <2>1 DEF vars, rallyVars, poolVars, reportVars, TypeOK, PoolInv, Settled
  <2>2. CASE Next
    BY <2>2, TypeMain, TypeWorker, TypeRun, PoolMain, PoolWorker, PoolRun DEF Next
  <2> QED
    BY <2>1, <2>2
<1> QED
  BY <1>1, <1>2, PTL DEF Spec

\* The types hold in every reachable state, for any number of runs and workers.
THEOREM TypeCorrect == Spec => []TypeOK
BY Invariant, PTL

\* Whatever fails, a joined pool has sent the report of every task or has given the
\* task up because of an exception.
THEOREM TasksAccounted == Spec => []EveryTaskAccounted
<1>1. TypeOK /\ PoolInv => EveryTaskAccounted
  BY DEF TypeOK, PoolInv, EveryTaskAccounted, Joined, Settled
<1> QED
  BY <1>1, Invariant, PTL

\* No task is in hand twice, or again after its report was sent.
THEOREM TasksApart == Spec => []NoTaskTwice
<1>1. PoolInv => NoTaskTwice
  BY DEF PoolInv, NoTaskTwice, Settled
<1> QED
  BY <1>1, Invariant, PTL

-----------------------------------------------------------------------------
(* Refinement, for a single run                                             *)

SingleRun == \A r, s \in Runs : r = s

\* Before its reports are opened a run finds the board untouched, and a report it
\* has not sent is not settled.
BoardInv ==
    \A r \in Runs, t \in Tasks :
        /\ main[r] \in {"idle", "check", "unlink", "write", "reports"} => board[t] = "none"
        /\ t \notin sent[r] => board[t] \in {"none", "pending"}

\* A step that leaves the reports alone, and takes no run back to its beginning,
\* keeps BoardInv.
LEMMA BoardKept ==
    ASSUME TypeOK, BoardInv, UNCHANGED <<board, sent>>,
           NEW early, early = {"idle", "check", "unlink", "write", "reports"},
           \A r \in Runs : main'[r] \in early => main[r] \in early
    PROVE  BoardInv'
BY DEF BoardInv

\* A delivered report settles a pending one, or meets no report at all.
LEMMA DeliverSettles ==
    ASSUME SingleRun, TypeOK, PoolInv, BoardInv, NEW r \in Runs, NEW w \in Workers,
           NEW v \in Verdicts, worker[r][w] # "idle", main' = main, Deliver(r, w, v)
    PROVE  BoardInv' /\ (board' = board \/ \E t \in Tasks : Board!Settle(t, v))
<1>1. /\ current[r][w] \in Tasks
      /\ current[r][w] \notin sent[r]
      /\ main[r] = "join"
  BY DEF TypeOK, PoolInv, Settled
<1>2. board[current[r][w]] \in {"none", "pending"}
  BY <1>1 DEF BoardInv
<1>3. \A t \in Tasks : t # current[r][w] => board'[t] = board[t]
  BY <1>1 DEF TypeOK, Deliver
<1>4. sent'[r] = sent[r] \union {current[r][w]}
  BY DEF TypeOK, Deliver
<1>5. BoardInv'
  BY <1>1, <1>3, <1>4 DEF SingleRun, BoardInv
<1>6. board' = board \/ Board!Settle(current[r][w], v)
  BY <1>1, <1>2 DEF Deliver, Board!Settle
<1> QED
  BY <1>1, <1>5, <1>6

\* For a single run, what Compass sees is a HealthBoard: every step opens the
\* reports, settles a pending one, or changes none.
THEOREM RunImplementsBoard == SingleRun => (Spec => BoardSpec)
<1> SUFFICES ASSUME SingleRun PROVE Spec => BoardSpec
  OBVIOUS
<1> DEFINE Safe == TypeOK /\ PoolInv
<1>1. Init => BoardInv /\ Board!BoardInit
  BY DEF Init, BoardInv, Board!BoardInit
<1>2. Safe /\ BoardInv /\ [Next]_vars => BoardInv' /\ [Board!BoardNext]_board
  <2> SUFFICES ASSUME TypeOK, PoolInv, BoardInv, [Next]_vars
               PROVE  BoardInv' /\ (Board!BoardNext \/ board' = board)
    OBVIOUS
  <2> USE DEF rallyVars, poolVars, reportVars
  <2>1. CASE UNCHANGED vars
    BY <2>1, BoardKept DEF vars
  <2>2. ASSUME NEW r \in Runs, NEW there \in {"deploy", "crashed"}, CreateReports(r, there)
        PROVE  BoardInv' /\ Board!Open
    <3>1. \A t \in Tasks : board[t] = "none"
      BY <2>2 DEF CreateReports, Goto, BoardInv
    <3>2. \A s \in Runs : main'[s] \in {"deploy", "crashed"}
      BY <2>2 DEF CreateReports, Goto, SingleRun, TypeOK
    <3>3. \A t \in Tasks : board'[t] = "pending"
      BY <2>2 DEF CreateReports
    <3> QED
      BY <2>2, <3>1, <3>2, <3>3 DEF CreateReports, BoardInv, Board!Open
  <2>3. ASSUME NEW r \in Runs, MainStep(r),
               \A there \in {"deploy", "crashed"} : ~ CreateReports(r, there)
        PROVE  BoardInv' /\ board' = board
    <3>1. UNCHANGED <<board, sent>>
      BY <2>3 DEF MainStep, CheckPid, UnlinkStale, WritePid, ReportsRefused, NoConfig,
           FindDeployment, DeleteTask, TasksDeleted, TaskGone, Destroy, DestroyFails,
           Create, CreateFails, CreateRaises, MainFails, MainClean, MainCleanUnlink, MainPut, StartPool, JoinPool,
           FinalClean, FinalUnlink
    <3>2. \A s \in Runs : main'[s] \in {"idle", "check", "unlink", "write", "reports"}
                         => main[s] \in {"idle", "check", "unlink", "write", "reports"}
      BY <2>3 DEF MainStep, CheckPid, UnlinkStale, WritePid, ReportsRefused, NoConfig,
           FindDeployment, DeleteTask, TasksDeleted, TaskGone, Destroy, DestroyFails,
           Create, CreateFails, CreateRaises, MainFails, MainClean, MainCleanUnlink, MainPut, StartPool, JoinPool,
           FinalClean, FinalUnlink, Goto, TestPid, Unlink, TypeOK
    <3> QED
      BY <3>1, <3>2, BoardKept
  <2>4. ASSUME NEW r \in Runs, Start(r) \/ Kill(r) PROVE BoardInv' /\ board' = board
    <3>1. UNCHANGED <<board, sent>>
      BY <2>4 DEF Start, Kill
    <3>2. \A s \in Runs : main'[s] \in {"idle", "check", "unlink", "write", "reports"}
                         => main[s] \in {"idle", "check", "unlink", "write", "reports"}
      BY <2>4 DEF Start, Kill, Goto, TypeOK
    <3> QED
      BY <3>1, <3>2, BoardKept
  <2>5. ASSUME NEW r \in Runs, NEW w \in Workers, WorkerStep(r, w)
        PROVE  BoardInv' /\ (Board!BoardNext \/ board' = board)
    <3>1. main' = main
      BY <2>5 DEF WorkerStep, TakeChunk, RunTask, RunTaskUnknown, Collect, CollectFails,
           RecordGone, CollectRaises, SendReport, WorkerClean, WorkerUnlink,
           WorkerUnlinkRaises, SendError
    <3>2. CASE SendReport(r, w) \/ SendError(r, w)
      <4>1. worker[r][w] # "idle"
        BY <3>2 DEF SendReport, SendError, At
      <4>2. Verdict(result[r][w]) \in Verdicts /\ "error" \in Verdicts
        BY PoolTypes, VerdictType DEF Verdicts
      <4>3. \E v \in Verdicts : Deliver(r, w, v) \/ UNCHANGED <<board, sent>>
        BY <3>2, <4>2 DEF SendReport, SendError, Put
      <4> QED
        BY <3>1, <4>1, <4>3, DeliverSettles, BoardKept DEF Board!BoardNext, Board!Verdicts, Verdicts
    <3>3. CASE ~ SendReport(r, w) /\ ~ SendError(r, w)
      <4>1. UNCHANGED <<board, sent>>
        BY <2>5, <3>3 DEF WorkerStep, TakeChunk, RunTask, RunTaskUnknown, Collect,
             CollectFails, RecordGone, CollectRaises, WorkerClean, WorkerUnlink,
             WorkerUnlinkRaises
      <4> QED
        BY <3>1, <4>1, BoardKept
    <3> QED
      BY <3>2, <3>3
  <2> QED
    BY <2>1, <2>2, <2>3, <2>4, <2>5 DEF Next, Board!BoardNext
<1> QED
  BY <1>1, <1>2, Invariant, PTL DEF Spec, BoardSpec, Board!BoardSpec
=============================================================================
