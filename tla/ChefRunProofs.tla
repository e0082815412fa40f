---------------------------- MODULE ChefRunProofs ---------------------------
(***************************************************************************)
(* Proofs about ChefRun, for any number of pids, nodes and faults.         *)
(*                                                                         *)
(* Two inductive invariants carry everything.  PidInv says why the pid     *)
(* file keeps scripts apart: as long as no two scripts raced through the   *)
(* test and the write, the file names the one script that is in its loop,  *)
(* so every later script finds a live process there.  WorkInv says what    *)
(* the loop's variables mean while it runs.                                *)
(***************************************************************************)
EXTENDS ChefRun, TLAPS

-----------------------------------------------------------------------------
(* Type correctness                                                         *)

LEMMA TypeInit == Init => TypeOK
<1> SUFFICES ASSUME Init PROVE TypeOK
  OBVIOUS
<1>1. faults \in 0..MaxFaults /\ cron \in 0..(faults + 1) /\ cron \in 0..faults
  BY MaxFaultsAssumption DEF MaxFaultsAssumption, Init
<1>2. pc \in [Pids -> {"off", "foreign"} \union ScriptPc]
  BY DEF Init, ScriptPc
<1>3. /\ listed \in [Pids -> SUBSET Nodes]
      /\ todo \in [Pids -> SUBSET Nodes]
      /\ current \in [Pids -> Nodes \union {NoNode}]
      /\ success \in [Pids -> BOOLEAN]
  BY DEF Init
<1> QED
  BY <1>1, <1>2, <1>3 DEF Init, TypeOK

\* Every step of every process, the environment's included, keeps the types.
LEMMA TypeStep == TypeOK /\ [Next]_vars => TypeOK'
<1> USE DEF TypeOK, ScriptPc, Looping, Starting,
            Alive, fileVars, scriptVars, hostVars, serverVars
<1> SUFFICES ASSUME TypeOK, [Next]_vars PROVE TypeOK'
  OBVIOUS
<1>1. CASE UNCHANGED vars
  BY <1>1 DEF vars
<1>2. CASE BootStep
  <2>1. cron \in 0..faults => cron + 1 \in 0..(faults + 1)
    BY MaxFaultsAssumption DEF MaxFaultsAssumption
  <2>2. CASE BootCrontab
    BY <2>1, <2>2 DEF BootCrontab
  <2>3. CASE BootDisable \/ \E p \in Pids : BootLaunch(p)
    BY <2>3 DEF BootDisable, BootLaunch
  <2> QED
    BY <1>2, <2>2, <2>3 DEF BootStep
<1>3. ASSUME NEW ps \in SUBSET Pids, CronTick(ps) PROVE TypeOK'
  BY <1>3 DEF CronTick
<1>4. ASSUME NEW p \in Pids, ScriptStep(p) PROVE TypeOK'
  <2>1. CASE PidHeld(p)
    BY <2>1 DEF PidHeld, Exit
  <2>2. CASE PidFree(p)
    BY <2>2 DEF PidFree
  <2>3. CASE TruncatePid(p)
    BY <2>3 DEF TruncatePid
  <2>4. CASE WritePid(p)
    BY <2>4 DEF WritePid
  <2>5. CASE ClientsFound(p)
    BY <2>5 DEF ClientsFound, Exit
  <2>6. CASE NoClients(p)
    BY <2>6 DEF NoClients
  <2>7. CASE KnifeAnswers(p) \/ KnifeFails(p)
    BY <2>7 DEF KnifeAnswers, KnifeFails, ListNodes
  <2>8. ASSUME NEW n \in Nodes, StartClient(p, n) PROVE TypeOK'
    BY <2>8 DEF StartClient
  <2>9. CASE ClientFails(p)
    BY <2>9 DEF ClientFails, FinishNode
  <2>10. CASE ClientSucceeds(p)
    BY <2>10 DEF ClientSucceeds
  <2>11. CASE TouchDone(p) \/ PostReturns(p)
    BY <2>11 DEF TouchDone, PostReturns, ReportReady, ReportLost, FinishNode
  <2>12. CASE EndPass(p) \/ RetryPass(p)
    BY <2>12 DEF EndPass, RetryPass, Exit
  <2> QED
    BY <1>4, <2>1, <2>2, <2>3, <2>4, <2>5, <2>6, <2>7, <2>8, <2>9, <2>10, <2>11, <2>12
       DEF ScriptStep, ClientReturns
<1>5. CASE Environment
  <2>1. /\ faults < MaxFaults => faults + 1 \in 0..MaxFaults
        /\ cron \in 0..((faults + 1) + 1) /\ cron \in 0..(faults + 1)
        /\ cron \in 0..faults => cron \in 0..(faults + 1)
    BY MaxFaultsAssumption DEF MaxFaultsAssumption
  <2>2. CASE Reboot
    BY <2>1, <2>2 DEF Reboot
  <2>3. ASSUME NEW p \in Pids, ForeignStart(p) \/ ForeignExit(p) PROVE TypeOK'
    BY <2>1, <2>3 DEF ForeignStart, ForeignExit
  <2>4. CASE StrayStart \/ StrayExit
    BY <2>1, <2>4 DEF StrayStart, StrayExit
  <2>5. ASSUME NEW n \in Nodes, RegisterNode(n) PROVE TypeOK'
    BY <2>5 DEF RegisterNode
  <2> QED
    BY <1>5, <2>2, <2>3, <2>4, <2>5 DEF Environment
<1> QED
  BY <1>1, <1>2, <1>3, <1>4, <1>5 DEF Next

\* The types hold in every reachable state, for any number of pids and nodes.
THEOREM TypeCorrect == Spec => []TypeOK
<1>1. Init => TypeOK
  BY TypeInit
<1>2. TypeOK /\ [Next]_vars => TypeOK'
  BY TypeStep
<1> QED
  BY <1>1, <1>2, PTL DEF Spec

-----------------------------------------------------------------------------
(* The pid file                                                             *)

Past == Starting \union Looping     \* the lines after the pid test

\* Without a race so far, at most one script is past the test, and once it has
\* written the pid file, the file keeps naming it.
PidInv ==
    raced \/ /\ \A p, q \in Pids : pc[p] \in Past /\ pc[q] \in Past => p = q
             /\ \A p \in Pids : pc[p] \in Looping => pidFile = p

\* A step that leaves the pid file alone and lets no process past the test
\* keeps PidInv.
LEMMA PidInvKept ==
    ASSUME TypeOK, PidInv,
           pidFile' = pidFile, raced' = raced,
           \A p \in Pids : pc'[p] \in Past => pc[p] \in Past,
           \A p \in Pids : pc'[p] \in Looping => pc[p] \in Looping
    PROVE  PidInv'
BY DEF PidInv

\* No step lets a second script past the test of the pid file unless two of
\* them race for it.
LEMMA PidStep == TypeOK /\ PidInv /\ [Next]_vars => PidInv'
<1> USE DEF TypeOK, fileVars, Past, Starting, Looping
<1> SUFFICES ASSUME TypeOK, PidInv, [Next]_vars PROVE PidInv'
  OBVIOUS
<1>1. CASE UNCHANGED vars
  BY <1>1 DEF vars, PidInv
<1>2. CASE BootStep
  BY <1>2, PidInvKept DEF BootStep, BootCrontab, BootDisable, BootLaunch
<1>3. ASSUME NEW ps \in SUBSET Pids, CronTick(ps) PROVE PidInv'
  BY <1>3, PidInvKept DEF CronTick
<1>4. ASSUME NEW p \in Pids, ScriptStep(p) PROVE PidInv'
  <2>1. CASE PidHeld(p) \/ ClientsFound(p) \/ EndPass(p)
    BY <2>1, PidInvKept DEF PidHeld, ClientsFound, EndPass, Exit
  <2>2. CASE PidFree(p)
    <3>1. raced' \/ \A q \in Pids : pc[q] \notin Starting
      BY <2>2 DEF PidFree
    <3>2. raced \/ \A q \in Pids : pc[q] \notin Looping
      BY <2>2 DEF PidFree, PidInv, Alive
    <3>3. pc' = [pc EXCEPT ![p] = "truncate"] /\ (raced => raced')
      BY <2>2 DEF PidFree
    <3> QED
      BY <3>1, <3>2, <3>3 DEF PidInv
  <2>3. CASE TruncatePid(p)
    BY <2>3 DEF TruncatePid, PidInv
  <2>4. CASE WritePid(p)
    BY <2>4 DEF WritePid, PidInv
  <2>5. CASE NoClients(p)
    BY <2>5, PidInvKept DEF NoClients
  <2>6. CASE KnifeAnswers(p) \/ KnifeFails(p)
    BY <2>6, PidInvKept DEF KnifeAnswers, KnifeFails, ListNodes
  <2>7. ASSUME NEW n \in Nodes, StartClient(p, n) PROVE PidInv'
    BY <2>7, PidInvKept DEF StartClient
  <2>8. CASE ClientReturns(p)
    BY <2>8, PidInvKept DEF ClientReturns, ClientFails, ClientSucceeds, FinishNode
  <2>9. CASE TouchDone(p) \/ PostReturns(p)
    BY <2>9, PidInvKept DEF TouchDone, PostReturns, ReportReady, ReportLost, FinishNode
  <2>10. CASE RetryPass(p)
    BY <2>10, PidInvKept DEF RetryPass
  <2> QED
    BY <1>4, <2>1, <2>2, <2>3, <2>4, <2>5, <2>6, <2>7, <2>8, <2>9, <2>10
       DEF ScriptStep
<1>5. CASE Environment
  <2>1. CASE Reboot
    BY <2>1 DEF Reboot, PidInv
  <2>2. ASSUME NEW p \in Pids, ForeignStart(p) \/ ForeignExit(p) PROVE PidInv'
    BY <2>2, PidInvKept DEF ForeignStart, ForeignExit
  <2>3. CASE StrayStart \/ StrayExit
    BY <2>3, PidInvKept DEF StrayStart, StrayExit
  <2>4. ASSUME NEW n \in Nodes, RegisterNode(n) PROVE PidInv'
    BY <2>4, PidInvKept DEF RegisterNode
  <2> QED
    BY <1>5, <2>1, <2>2, <2>3, <2>4 DEF Environment
<1> QED
  BY <1>1, <1>2, <1>3, <1>4, <1>5 DEF Next

\* The pid file keeps two scripts from running at a time as long as no two of
\* them were between the test and the write of it together (lines 31-39).
THEOREM PidFileExcludes == Spec => []OneScriptUnlessRaced
<1>1. Init => PidInv
  BY DEF Init, PidInv, Past, Starting, Looping
<1>2. TypeOK /\ PidInv /\ [Next]_vars => PidInv'
  BY PidStep
<1>3. PidInv => OneScriptUnlessRaced
  BY DEF PidInv, OneScriptUnlessRaced, Past
<1> QED
  BY <1>1, <1>2, <1>3, TypeCorrect, PTL DEF Spec

-----------------------------------------------------------------------------
(* The work of the loop                                                     *)

\* What the loop's variables mean: the nodes of the list a pass is through with
\* are converged as long as all_nodes_success stands, and the node at hand is one
\* of the list; what Compass has been told is true.
WorkInv ==
    /\ ready \subseteq done
    /\ done \subseteq registered
    /\ \A p \in Pids :
        /\ listed[p] \subseteq registered
        /\ todo[p] \subseteq listed[p]
        /\ pc[p] \in {"client", "touch", "report"} => current[p] \in todo[p]
        /\ pc[p] = "report" => current[p] \in done
        /\ success[p] => listed[p] \ todo[p] \subseteq done

\* A step that leaves the scripts' variables and the servers alone, and starts
\* no chef-client and no report, keeps WorkInv.
LEMMA WorkInvKept ==
    ASSUME TypeOK, WorkInv,
           UNCHANGED <<listed, todo, current, success, done, ready>>,
           registered \subseteq registered',
           \A p \in Pids : pc'[p] \in {"client", "touch", "report"} =>
               /\ pc[p] \in {"client", "touch", "report"}
               /\ pc'[p] = "report" => pc[p] = "report"
    PROVE  WorkInv'
BY DEF WorkInv

\* Every step of the loop keeps the meaning of its variables.
LEMMA WorkStep == TypeOK /\ WorkInv /\ [Next]_vars => WorkInv'
<1> USE DEF TypeOK, fileVars, scriptVars, serverVars
<1> SUFFICES ASSUME TypeOK, WorkInv, [Next]_vars PROVE WorkInv'
  OBVIOUS
<1>1. CASE UNCHANGED vars
  BY <1>1, WorkInvKept DEF vars
<1>2. CASE BootStep
  BY <1>2, WorkInvKept DEF BootStep, BootCrontab, BootDisable, BootLaunch
<1>3. ASSUME NEW ps \in SUBSET Pids, CronTick(ps) PROVE WorkInv'
  BY <1>3, WorkInvKept DEF CronTick
<1>4. ASSUME NEW p \in Pids, ScriptStep(p) PROVE WorkInv'
  <2>1. CASE PidHeld(p) \/ ClientsFound(p) \/ EndPass(p)
    BY <2>1 DEF PidHeld, ClientsFound, EndPass, Exit, WorkInv
  <2>2. CASE PidFree(p) \/ TruncatePid(p) \/ WritePid(p) \/ NoClients(p) \/ RetryPass(p)
    BY <2>2, WorkInvKept DEF PidFree, TruncatePid, WritePid, NoClients, RetryPass
  <2>3. CASE KnifeAnswers(p) \/ KnifeFails(p)
    BY <2>3 DEF KnifeAnswers, KnifeFails, ListNodes, WorkInv
  <2>4. ASSUME NEW n \in Nodes, StartClient(p, n) PROVE WorkInv'
    BY <2>4 DEF StartClient, WorkInv
  <2>5. CASE ClientFails(p)
    BY <2>5 DEF ClientFails, FinishNode, WorkInv
  <2>6. CASE ClientSucceeds(p)
    BY <2>6 DEF ClientSucceeds, WorkInv
  <2>7. CASE TouchDone(p)
    BY <2>7 DEF TouchDone, WorkInv
  <2>8. CASE PostReturns(p)
    BY <2>8 DEF PostReturns, ReportReady, ReportLost, FinishNode, WorkInv
  <2> QED
    BY <1>4, <2>1, <2>2, <2>3, <2>4, <2>5, <2>6, <2>7, <2>8
       DEF ScriptStep, ClientReturns
<1>5. CASE Environment
  <2>1. CASE Reboot
    BY <2>1 DEF Reboot, WorkInv
  <2>2. ASSUME NEW p \in Pids, ForeignStart(p) \/ ForeignExit(p) PROVE WorkInv'
    BY <2>2, WorkInvKept DEF ForeignStart, ForeignExit
  <2>3. CASE StrayStart \/ StrayExit
    BY <2>3, WorkInvKept DEF StrayStart, StrayExit
  <2>4. ASSUME NEW n \in Nodes, RegisterNode(n) PROVE WorkInv'
    BY <2>4, WorkInvKept DEF RegisterNode
  <2> QED
    BY <1>5, <2>1, <2>2, <2>3, <2>4 DEF Environment
<1> QED
  BY <1>1, <1>2, <1>3, <1>4, <1>5 DEF Next

LEMMA WorkInvariant == Spec => [](TypeOK /\ WorkInv)
<1>1. Init => WorkInv
  BY DEF Init, WorkInv
<1>2. TypeOK /\ WorkInv /\ [Next]_vars => WorkInv'
  BY WorkStep
<1> QED
  BY <1>1, <1>2, TypeCorrect, PTL DEF Spec

\* Compass has a node as ready only when it is converged (lines 93-96).
THEOREM ReadyCorrect == Spec => []ReadyIsConverged
<1>1. WorkInv => ReadyIsConverged
  BY DEF WorkInv, ReadyIsConverged
<1> QED
  BY <1>1, WorkInvariant, PTL

\* A script that ends with all_nodes_success leaves nothing of its list undone
\* (lines 53, 92, 99-103).
THEOREM CleanExitCorrect == Spec => CleanExit
<1> DEFINE Clean == \A p \in Pids : EndPass(p) => listed[p] \subseteq done
<1>1. TypeOK /\ WorkInv => Clean
  BY DEF WorkInv, EndPass, TypeOK
<1> QED
  BY <1>1, WorkInvariant, PTL DEF CleanExit

-----------------------------------------------------------------------------
(* Refinement                                                               *)

\* Every step of the runner, reboots and lost reports included, is a step of the
\* progress Compass relies on, or none.
THEOREM RunnerImplementsProgress == Spec => ProgressSpec
<1>1. Init => Progress!ProgressInit
  BY DEF Init, Progress!ProgressInit
<1>2. TypeOK /\ WorkInv /\ [Next]_vars => [Progress!ProgressNext]_(Progress!progressVars)
  <2> USE DEF Progress!progressVars, TypeOK, serverVars, fileVars
  <2> SUFFICES ASSUME TypeOK, WorkInv, [Next]_vars
               PROVE  Progress!ProgressNext \/ UNCHANGED Progress!progressVars
    OBVIOUS
  <2>1. CASE UNCHANGED vars
    BY <2>1 DEF vars
  <2>2. CASE BootStep
    BY <2>2 DEF BootStep, BootCrontab, BootDisable, BootLaunch
  <2>3. ASSUME NEW ps \in SUBSET Pids, CronTick(ps) PROVE UNCHANGED Progress!progressVars
    BY <2>3 DEF CronTick
  <2>4. ASSUME NEW p \in Pids, TouchDone(p) PROVE Progress!ProgressNext
    <3>1. current[p] \in Nodes /\ current[p] \in registered
      BY <2>4 DEF TouchDone, WorkInv
    <3>2. Progress!Converge(current[p])
      BY <2>4, <3>1 DEF TouchDone, Progress!Converge
    <3> QED
      BY <3>1, <3>2 DEF Progress!ProgressNext
  <2>5. ASSUME NEW p \in Pids, ReportReady(p) PROVE Progress!ProgressNext
    <3>1. current[p] \in Nodes /\ current[p] \in done
      BY <2>5 DEF ReportReady, WorkInv
    <3>2. Progress!Report(current[p])
      BY <2>5, <3>1 DEF ReportReady, Progress!Report
    <3> QED
      BY <3>1, <3>2 DEF Progress!ProgressNext
  <2>6. ASSUME NEW p \in Pids, ScriptStep(p), ~ TouchDone(p), ~ ReportReady(p)
        PROVE  UNCHANGED Progress!progressVars
    BY <2>6 DEF ScriptStep, ClientReturns, PostReturns, PidHeld, PidFree, TruncatePid,
                WritePid, ClientsFound, NoClients, KnifeAnswers, KnifeFails, ListNodes,
                StartClient, ClientFails, ClientSucceeds, ReportLost, EndPass, RetryPass
  <2>7. CASE \E n \in Nodes : RegisterNode(n)
    BY <2>7 DEF RegisterNode, Progress!ProgressNext, Progress!Register
  <2>8. CASE Reboot \/ StrayStart \/ StrayExit
    BY <2>8 DEF Reboot, StrayStart, StrayExit
  <2>9. ASSUME NEW p \in Pids, ForeignStart(p) \/ ForeignExit(p)
        PROVE  UNCHANGED Progress!progressVars
    BY <2>9 DEF ForeignStart, ForeignExit
  <2> QED
    BY <2>1, <2>2, <2>3, <2>4, <2>5, <2>6, <2>7, <2>8, <2>9 DEF Next, Environment
<1> QED
  BY <1>1, <1>2, WorkInvariant, PTL DEF Spec, ProgressSpec, Progress!ProgressSpec
=============================================================================
