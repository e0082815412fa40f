----------------------------- MODULE HealthReport ---------------------------
(***************************************************************************)
(* How check_health.py turns the results of a Rally task into a report:    *)
(* collect_and_send_report picks the actions, _get_action_dur_report goes  *)
(* through the executions once per action, _get_total_errors counts, and   *)
(* send_report settles the state.  One behaviour is the work on one task's *)
(* output, one action of the scenario at a time.                           *)
(*                                                                         *)
(* A scenario is a list of steps, its atomic actions.  An execution has    *)
(* gone through some of them, each with its duration, and has stopped at a *)
(* step that failed (Rally's None, here 0) or with an error outside of     *)
(* any step; one without an error went through them all.                   *)
(***************************************************************************)
EXTENDS Integers, Sequences, FiniteSets

CONSTANTS
    MaxSteps,     \* bound on the steps of a scenario
    MaxTimes,     \* bound on runner times
    MaxDuration   \* bound on a duration

ASSUME BoundsAssumption ==
    MaxSteps \in Nat /\ MaxTimes \in Nat \ {0} /\ MaxDuration \in Nat \ {0}

Infinity == MaxDuration + 1     \* sys.maxint: above every duration
Durations == 1..MaxDuration

Prefixes(n) == UNION {[1..k -> Durations] : k \in 0..n}

\* The executions a scenario of n steps can have.
Executions(n) ==
    LET Stopped == Prefixes(n) \union {Append(s, 0) : s \in {p \in Prefixes(n) : Len(p) < n}}
    IN  [error : {TRUE}, atomic : Stopped, duration : Durations]
        \union [error : {FALSE}, atomic : [1..n -> Durations], duration : Durations]

ResultLists(n, times) == UNION {[1..k -> Executions(n)] : k \in 0..times}

VARIABLES
    results,   \* output['result']
    times,     \* output['key']['kw']['runner']['times']
    actions,   \* the actions still to report on; 0 is the task's own name
    action,    \* the action at hand
    i,         \* how many results its loop has seen
    acc,       \* the loop's variables
    report,    \* the summaries made so far, by action
    phase      \* "pick", "next", "loop", "sum", "send", "done", "raised"

vars == <<results, times, actions, action, i, acc, report, phase>>

EmptyAcc == [min |-> Infinity, max |-> 0, total |-> 0, skipped |-> 0, errors |-> 0, data |-> <<>>]

Init ==
    /\ times \in 1..MaxTimes
    /\ \E n \in 0..MaxSteps : results \in ResultLists(n, times)
    /\ actions = {}
    /\ action = 0
    /\ i = 0
    /\ acc = EmptyAcc
    /\ report = {}
    /\ phase = "pick"

-----------------------------------------------------------------------------
(* collect_and_send_report                                                  *)

ActionsOf(result) == 1..Len(result.atomic)

\* The actions of the first execution without an error, otherwise of the first
\* execution; with none of these, the task itself.
PickedActions ==
    LET clean == {k \in 1..Len(results) : ~ results[k].error}
        first == IF clean = {} THEN 1 ELSE CHOOSE k \in clean : \A j \in clean : k <= j
        picked == IF results = <<>> THEN {} ELSE ActionsOf(results[first])
    IN  IF picked = {} THEN {0} ELSE picked

PickActions ==
    /\ phase = "pick"
    /\ actions' = PickedActions
    /\ phase' = "next"
    /\ UNCHANGED <<results, times, action, i, acc, report>>

NextAction(a) ==
    /\ phase = "next"
    /\ a \in actions
    /\ action' = a
    /\ actions' = actions \ {a}
    /\ i' = 0
    /\ acc' = EmptyAcc
    /\ phase' = "loop"
    /\ UNCHANGED <<results, times, report>>

-----------------------------------------------------------------------------
(* _get_action_dur_report                                                   *)

Current == results[i + 1]
HasAction == action \in ActionsOf(Current)

Skip == [acc EXCEPT !.skipped = @ + 1, !.data = Append(@, 0)]
Fail == [acc EXCEPT !.errors = @ + 1, !.data = Append(@, 0)]
Measure(d) ==
    [acc EXCEPT !.total = @ + d,
                !.min = IF d < @ THEN d ELSE @,
                !.max = IF d > @ THEN d ELSE @,
                !.data = Append(@, d)]

\* mutant: an execution with an error failed at every action
LoopBodyByError ==
    IF Current.error THEN Fail
    ELSE IF Current.atomic # <<>> /\ ~ HasAction THEN Skip
         ELSE Measure(IF HasAction THEN Current.atomic[action] ELSE Current.duration)

\* Which of the three branches of the loop an execution takes.
LoopBody ==
    IF Current.atomic # <<>> /\ ~ HasAction THEN Skip
    ELSE IF (HasAction /\ Current.atomic[action] = 0) \/ (Current.atomic = <<>> /\ Current.error)
         THEN Fail
         ELSE Measure(IF HasAction THEN Current.atomic[action] ELSE Current.duration)

Iterate ==
    /\ phase = "loop"
    /\ i < Len(results)
    /\ acc' = LoopBody
    /\ i' = i + 1
    /\ UNCHANGED <<results, times, actions, action, report, phase>>

LoopEnds ==
    /\ phase = "loop"
    /\ i = Len(results)
    /\ phase' = "sum"
    /\ UNCHANGED <<results, times, actions, action, i, acc, report>>

\* mutant: the executions that skipped the action are counted
MeasuredSkips == times - acc.errors

Measured == times - acc.errors - acc.skipped     \* the divisor of the average

\* Quotients are kept as what is divided by what: the average is sum by count, the
\* percentage of success is the first number of success by the second.
Summary ==
    CASE results = <<>> ->
            [action |-> action, min |-> 0, max |-> 0, sum |-> 0, count |-> 0, errors |-> times,
             success |-> <<0, 1>>, total |-> 0, data |-> acc.data]
      [] results # <<>> /\ times = acc.errors ->
            [action |-> action, min |-> 0, max |-> acc.max, sum |-> 0, count |-> 0,
             errors |-> acc.errors, success |-> <<Measured, Len(results)>>, total |-> times,
             data |-> acc.data]
      [] OTHER ->
            [action |-> action, min |-> acc.min, max |-> acc.max, sum |-> acc.total,
             count |-> Measured, errors |-> acc.errors,
             success |-> <<Measured, Len(results)>>, total |-> times, data |-> acc.data]

DividesByZero == results # <<>> /\ times # acc.errors /\ Measured = 0

Summarise ==
    /\ phase = "sum"
    /\ ~ DividesByZero
    /\ report' = report \union {Summary}
    /\ phase' = IF actions = {} THEN "send" ELSE "next"
    /\ UNCHANGED <<results, times, actions, action, i, acc>>

\* ZeroDivisionError: no report is sent.
SummariseRaises ==
    /\ phase = "sum"
    /\ DividesByZero
    /\ phase' = "raised"
    /\ UNCHANGED <<results, times, actions, action, i, acc, report>>

-----------------------------------------------------------------------------
(* _get_total_errors and send_report                                        *)

TotalErrors ==
    IF results = <<>> THEN 1 ELSE Cardinality({k \in 1..Len(results) : results[k].error})

\* mutant: some errors are no reason to worry
StateLenient == IF TotalErrors >= times THEN "error" ELSE "success"

State ==
    IF TotalErrors >= times THEN "error"
    ELSE IF TotalErrors > 0 THEN "finished" ELSE "success"

Send ==
    /\ phase = "send"
    /\ phase' = "done"
    /\ UNCHANGED <<results, times, actions, action, i, acc, report>>

Next ==
    \/ PickActions \/ Iterate \/ LoopEnds \/ Summarise \/ SummariseRaises \/ Send
    \/ \E a \in actions : NextAction(a)

Spec == Init /\ [][Next]_vars

-----------------------------------------------------------------------------
(* Properties                                                               *)

\* Rally returned a result for each of the times it was to run the scenario.
Complete == Len(results) = times

\* The durations of the executions that went through an action, and those that
\* failed at it, said without the loop.
Passed(a) ==
    {k \in 1..Len(results) :
        IF results[k].atomic = <<>> THEN ~ results[k].error
        ELSE a \in ActionsOf(results[k]) /\ results[k].atomic[a] # 0}
FailedAt(a) ==
    {k \in 1..Len(results) :
        IF results[k].atomic = <<>> THEN results[k].error
        ELSE a \in ActionsOf(results[k]) /\ results[k].atomic[a] = 0}
DurationAt(a, k) == IF results[k].atomic = <<>> THEN results[k].duration ELSE results[k].atomic[a]

\* The summary of an action over complete results is that of the reference
\* definition: extremes, count, rate of success and errors over the executions that
\* passed it, one datum per execution (the loop of _get_action_dur_report and the sums
\* after it).
SummaryIsReference ==
    Complete => \A s \in report :
        LET a == s.action
            durations == {DurationAt(a, k) : k \in Passed(a)}
        IN  /\ s.errors = Cardinality(FailedAt(a))
            /\ s.count = Cardinality(Passed(a))
            /\ s.success = <<Cardinality(Passed(a)), Len(results)>> /\ s.total = Len(results)
            /\ \A k \in 1..Len(results) : s.data[k] = IF k \in Passed(a) THEN DurationAt(a, k) ELSE 0
            /\ Passed(a) # {} => /\ s.min \in durations /\ \A d \in durations : s.min <= d
                                 /\ s.max \in durations /\ \A d \in durations : s.max >= d

\* The average lies between the extremes when Rally returned all results: the
\* divisor, made of times and not of the results counted, is the right one then.
AverageBetweenExtremes ==
    Complete => \A s \in report : s.min * s.count <= s.sum /\ s.sum <= s.max * s.count

\* The state and the summaries of one report agree: a task reported as a success
\* shows no failed execution for any action, none that skipped it, and 100%.
SuccessIsClean ==
    phase = "done" /\ State = "success" =>
        \A s \in report : s.errors = 0 /\ (Complete => s.count = times /\ s.success = <<times, times>>)
=============================================================================
