-------------------------- MODULE HealthReportProofs -------------------------
(***************************************************************************)
(* Proofs about HealthReport, for any number of results, steps and any     *)
(* durations.                                                              *)
(*                                                                         *)
(* The loop's variables are at every turn what the reference definition    *)
(* says of the results seen so far (LoopInv); each of those has passed the *)
(* action, failed at it or skipped it, so that the three numbers add up to *)
(* the turns (Parted), and the divisor made of times is the number that    *)
(* passed.  A summary is made of the last turn's variables.                *)
(***************************************************************************)
EXTENDS HealthReport, FiniteSetTheorems, SequenceTheorems, TLAPS

-----------------------------------------------------------------------------
(* The results                                                              *)

Times == 0..MaxDuration

\* What is known of one execution: an action that was run has a duration, or 0.
Wellformed(e) ==
    /\ e.error \in BOOLEAN
    /\ e.duration \in Durations
    /\ e.atomic \in Seq(Times)

\* The scenario has n steps, all of which an execution without an error has gone through.
Through(e, n) == Len(e.atomic) = n /\ \A a \in 1..n : e.atomic[a] \in Durations

ResultInv ==
    /\ times \in 1..MaxTimes
    /\ results \in Seq(UNION {Executions(n) : n \in Nat})
    /\ \A k \in 1..Len(results) : Wellformed(results[k])
    /\ \E n \in Nat : \A k \in 1..Len(results) : ~ results[k].error => Through(results[k], n)

LEMMA ExecutionsWellformed ==
    ASSUME NEW n \in Nat, NEW e \in Executions(n)
    PROVE  Wellformed(e) /\ (~ e.error => Through(e, n))
<1>1. Durations \subseteq Times /\ 0 \in Times /\ MaxDuration \in Nat
  BY BoundsAssumption DEF BoundsAssumption, Durations, Times
<1>2. ASSUME NEW s \in Prefixes(n) PROVE s \in Seq(Times)
  <2>1. PICK k \in 0..n : s \in [1..k -> Durations]
    BY DEF Prefixes
  <2>2. k \in Nat /\ s \in [1..k -> Times]
    BY <1>1, <2>1
  <2> QED
    BY <2>2, SeqDef
<1>3. ASSUME NEW s \in Seq(Times) PROVE Append(s, 0) \in Seq(Times)
  BY <1>1, AppendProperties
<1>4. CASE e \in [error : {FALSE}, atomic : [1..n -> Durations], duration : Durations]
  <2>1. e.atomic \in [1..n -> Durations] /\ e.error = FALSE /\ e.duration \in Durations
    BY <1>4
  <2>2. e.atomic \in Seq(Durations)
    BY <2>1, SeqDef
  <2>3. Len(e.atomic) = n /\ e.atomic \in Seq(Times)
    BY <1>1, <2>1, <2>2, LenProperties, SeqMonotonic
  <2> QED
    BY <2>1, <2>3 DEF Wellformed, Through
<1>5. CASE e \notin [error : {FALSE}, atomic : [1..n -> Durations], duration : Durations]
  <2> DEFINE Stopped == Prefixes(n) \union {Append(s, 0) : s \in {p \in Prefixes(n) : Len(p) < n}}
  <2>1. e \in [error : {TRUE}, atomic : Stopped, duration : Durations]
    BY <1>5 DEF Executions
  <2>2. Stopped \subseteq Seq(Times)
    BY <1>2, <1>3
  <2> QED
    BY <2>1, <2>2 DEF Wellformed
<1> QED
  BY <1>4, <1>5

LEMMA ResultInit == Init => ResultInv
<1> SUFFICES ASSUME Init PROVE ResultInv
  OBVIOUS
<1>1. PICK n \in 0..MaxSteps : results \in ResultLists(n, times)
  BY DEF Init
<1>2. n \in Nat /\ times \in 1..MaxTimes /\ MaxTimes \in Nat
  BY <1>1, BoundsAssumption DEF Init, BoundsAssumption
<1>3. PICK m \in 0..times : results \in [1..m -> Executions(n)]
  BY <1>1 DEF ResultLists
<1>4. m \in Nat
  BY <1>2, <1>3
<1>5. results \in Seq(Executions(n))
  BY <1>3, <1>4, SeqDef
<1>6. \A k \in 1..Len(results) : results[k] \in Executions(n)
  BY <1>5, ElementOfSeq
<1>7. results \in Seq(UNION {Executions(j) : j \in Nat})
  BY <1>2, <1>5, SeqMonotonic
<1> QED
  BY <1>2, <1>6, <1>7, ExecutionsWellformed DEF ResultInv

LEMMA ResultStep == ResultInv /\ [Next]_vars => ResultInv'
<1> SUFFICES ASSUME ResultInv, [Next]_vars PROVE ResultInv'
  OBVIOUS
<1>1. UNCHANGED <<results, times>>
  BY DEF vars, Next, PickActions, NextAction, Iterate, LoopEnds, Summarise, SummariseRaises, Send
<1> QED
  BY <1>1 DEF ResultInv

-----------------------------------------------------------------------------
(* The three ways an execution can go at an action                          *)

HasPassed(a, e) ==
    IF e.atomic = <<>> THEN ~ e.error ELSE a \in ActionsOf(e) /\ e.atomic[a] # 0
HasFailed(a, e) ==
    IF e.atomic = <<>> THEN e.error ELSE a \in ActionsOf(e) /\ e.atomic[a] = 0
HasSkipped(a, e) == e.atomic # <<>> /\ a \notin ActionsOf(e)

\* Those among the first j results.
PassedIn(a, j) == {k \in 1..j : HasPassed(a, results[k])}
FailedIn(a, j) == {k \in 1..j : HasFailed(a, results[k])}
SkippedIn(a, j) == {k \in 1..j : HasSkipped(a, results[k])}

LEMMA ReferenceSets ==
    ASSUME NEW a
    PROVE  Passed(a) = PassedIn(a, Len(results)) /\ FailedAt(a) = FailedIn(a, Len(results))
  BY DEF Passed, FailedAt, PassedIn, FailedIn, HasPassed, HasFailed

LEMMA OneWay ==
    ASSUME ResultInv, NEW k \in 1..Len(results), NEW a
    PROVE  /\ HasPassed(a, results[k]) \in BOOLEAN
           /\ HasPassed(a, results[k]) \/ HasFailed(a, results[k]) \/ HasSkipped(a, results[k])
           /\ ~ (HasPassed(a, results[k]) /\ HasFailed(a, results[k]))
           /\ ~ (HasPassed(a, results[k]) /\ HasSkipped(a, results[k]))
           /\ ~ (HasFailed(a, results[k]) /\ HasSkipped(a, results[k]))
  BY DEF HasPassed, HasFailed, HasSkipped

\* Who passed an action took some time for it.
LEMMA PassedDuration ==
    ASSUME ResultInv, NEW k \in 1..Len(results), NEW a, HasPassed(a, results[k])
    PROVE  DurationAt(a, k) \in Durations
<1> DEFINE e == results[k]
<1>1. Wellformed(e)
  BY DEF ResultInv
<1>2. CASE e.atomic = <<>>
  BY <1>1, <1>2 DEF Wellformed, DurationAt
<1>3. CASE e.atomic # <<>>
  <2>1. a \in 1..Len(e.atomic) /\ e.atomic[a] # 0
    BY <1>3 DEF HasPassed, ActionsOf
  <2>2. e.atomic[a] \in Times
    BY <1>1, <2>1, ElementOfSeq DEF Wellformed
  <2>3. e.atomic[a] \in Durations
    BY <2>1, <2>2 DEF Times, Durations
  <2> QED
    BY <1>3, <2>3 DEF DurationAt
<1> QED
  BY <1>2, <1>3

\* A set of the first j results, without the next one and with it.
LEMMA CountNext ==
    ASSUME NEW j \in Nat, NEW S \in SUBSET (1..j)
    PROVE  /\ IsFiniteSet(S) /\ Cardinality(S) \in Nat
           /\ Cardinality(S \union {j + 1}) = Cardinality(S) + 1
<1>1. IsFiniteSet(1..j)
  BY FS_Interval
<1>2. IsFiniteSet(S)
  BY <1>1, FS_Subset
<1>3. j + 1 \notin S
  OBVIOUS
<1> QED
  BY <1>2, <1>3, FS_CardinalityType, FS_AddElement

LEMMA ApartAdd ==
    ASSUME NEW S, NEW T, IsFiniteSet(S), IsFiniteSet(T), S \intersect T = {}
    PROVE  /\ IsFiniteSet(S \union T)
           /\ Cardinality(S \union T) = Cardinality(S) + Cardinality(T)
<1>1. /\ IsFiniteSet(S \union T)
      /\ Cardinality(S \union T) = Cardinality(S) + Cardinality(T) - Cardinality(S \intersect T)
  BY FS_Union
<1>2. Cardinality(S \intersect T) = 0
  BY FS_EmptySet
<1>3. Cardinality(S) \in Nat /\ Cardinality(T) \in Nat
  BY FS_CardinalityType
<1> QED
  BY <1>1, <1>2, <1>3

\* Every result has gone one way, so that the three numbers add up.
LEMMA Parted ==
    ASSUME ResultInv, NEW a, NEW j \in 0..Len(results)
    PROVE  /\ Cardinality(PassedIn(a, j)) \in Nat
           /\ Cardinality(FailedIn(a, j)) \in Nat
           /\ Cardinality(SkippedIn(a, j)) \in Nat
           /\ Cardinality(PassedIn(a, j)) + Cardinality(FailedIn(a, j)) + Cardinality(SkippedIn(a, j)) = j
<1> DEFINE P == PassedIn(a, j)
           F == FailedIn(a, j)
           K == SkippedIn(a, j)
<1>1. Len(results) \in Nat /\ j \in Nat
  BY LenProperties DEF ResultInv
<1>2. P \in SUBSET (1..j) /\ F \in SUBSET (1..j) /\ K \in SUBSET (1..j)
  BY DEF PassedIn, FailedIn, SkippedIn
<1>3. ASSUME NEW k \in 1..j
      PROVE  /\ k \in P \/ k \in F \/ k \in K
             /\ ~ (k \in P /\ k \in F) /\ ~ (k \in P /\ k \in K) /\ ~ (k \in F /\ k \in K)
  <2>1. k \in 1..Len(results)
    BY <1>1
  <2>2. /\ k \in P <=> HasPassed(a, results[k])
        /\ k \in F <=> HasFailed(a, results[k])
        /\ k \in K <=> HasSkipped(a, results[k])
    BY DEF PassedIn, FailedIn, SkippedIn
  <2> QED
    BY <2>1, <2>2, OneWay
<1> HIDE DEF P, F, K
<1>4. P \union F \union K = 1..j /\ P \intersect F = {} /\ (P \union F) \intersect K = {}
  BY <1>2, <1>3
<1>5. /\ IsFiniteSet(P) /\ IsFiniteSet(F) /\ IsFiniteSet(K)
      /\ Cardinality(P) \in Nat /\ Cardinality(F) \in Nat /\ Cardinality(K) \in Nat
  BY <1>1, <1>2, CountNext
<1>6. IsFiniteSet(P \union F) /\ Cardinality(P \union F) = Cardinality(P) + Cardinality(F)
  BY <1>4, <1>5, ApartAdd
<1>7. Cardinality((P \union F) \union K) = Cardinality(P \union F) + Cardinality(K)
  BY <1>4, <1>5, <1>6, ApartAdd
<1>8. Cardinality(1..j) = j
  BY <1>1, FS_Interval
<1> QED
  BY <1>4, <1>5, <1>6, <1>7, <1>8 DEF P, F, K

-----------------------------------------------------------------------------
(* The loop of _get_action_dur_report                                       *)

Accs == [min : Nat, max : Nat, total : Nat, skipped : Nat, errors : Nat, data : Seq(Times)]

\* What the loop's variables c are after the first j results.
Counted(a, j, c) ==
    /\ c.errors = Cardinality(FailedIn(a, j))
    /\ c.skipped = Cardinality(SkippedIn(a, j))
    /\ Len(c.data) = j
    /\ \A k \in 1..j : c.data[k] = IF HasPassed(a, results[k]) THEN DurationAt(a, k) ELSE 0

Bounded(a, j, c) ==
    /\ PassedIn(a, j) = {} => c.min = Infinity /\ c.max = 0
    /\ PassedIn(a, j) # {} => \E k, m \in PassedIn(a, j) : c.min = DurationAt(a, k) /\ c.max = DurationAt(a, m)
    /\ \A k \in PassedIn(a, j) : c.min <= DurationAt(a, k) /\ DurationAt(a, k) <= c.max

Averaged(a, j, c) ==
    LET n == Cardinality(PassedIn(a, j))
    IN  c.min * n <= c.total /\ c.total <= c.max * n

LoopInv ==
    /\ i \in Nat
    /\ acc \in Accs
    /\ phase \in {"loop", "sum"} =>
          /\ i <= Len(results)
          /\ Counted(action, i, acc) /\ Bounded(action, i, acc) /\ Averaged(action, i, acc)
    /\ phase = "sum" => i = Len(results)

LEMMA NoneSeen ==
    ASSUME NEW a
    PROVE  /\ EmptyAcc \in Accs
           /\ Counted(a, 0, EmptyAcc) /\ Bounded(a, 0, EmptyAcc) /\ Averaged(a, 0, EmptyAcc)
<1>1. PassedIn(a, 0) = {} /\ FailedIn(a, 0) = {} /\ SkippedIn(a, 0) = {}
  BY DEF PassedIn, FailedIn, SkippedIn
<1>2. Cardinality({}) = 0
  BY FS_EmptySet
<1>3. Infinity \in Nat
  BY BoundsAssumption DEF BoundsAssumption, Infinity
<1>4. EmptyAcc \in Accs
  BY <1>3 DEF EmptyAcc, Accs
<1>5. Counted(a, 0, EmptyAcc)
  BY <1>1, <1>2 DEF EmptyAcc, Counted
<1>6. Bounded(a, 0, EmptyAcc)
  BY <1>1 DEF EmptyAcc, Bounded
<1>7. Averaged(a, 0, EmptyAcc)
  BY <1>1, <1>2, <1>3 DEF EmptyAcc, Averaged
<1> QED
  BY <1>4, <1>5, <1>6, <1>7

\* The extremes move apart and the total grows by the one that is counted.
LEMMA AverageNext ==
    ASSUME NEW n \in Nat, NEW t \in Nat, NEW d \in Nat, NEW lo \in Nat, NEW hi \in Nat,
           NEW lo2 \in Nat, NEW hi2 \in Nat,
           lo * n <= t, t <= hi * n, lo2 <= lo, lo2 <= d, hi <= hi2, d <= hi2
    PROVE  lo2 * (n + 1) <= t + d /\ t + d <= hi2 * (n + 1)
<1>1. lo2 * n <= lo * n /\ hi * n <= hi2 * n
  OBVIOUS
<1>2. lo2 * (n + 1) = lo2 * n + lo2 /\ hi2 * (n + 1) = hi2 * n + hi2
  OBVIOUS
<1>3. /\ lo * n \in Nat /\ hi * n \in Nat /\ lo2 * n \in Nat /\ hi2 * n \in Nat
  OBVIOUS
<1> QED
  BY <1>1, <1>2, <1>3

\* One more result, and each of the sets it is in or not.
LEMMA SetsNext ==
    ASSUME ResultInv, NEW a, NEW j \in Nat, j < Len(results)
    PROVE  /\ PassedIn(a, j + 1) =
                IF HasPassed(a, results[j + 1]) THEN PassedIn(a, j) \union {j + 1} ELSE PassedIn(a, j)
           /\ FailedIn(a, j + 1) =
                IF HasFailed(a, results[j + 1]) THEN FailedIn(a, j) \union {j + 1} ELSE FailedIn(a, j)
           /\ SkippedIn(a, j + 1) =
                IF HasSkipped(a, results[j + 1]) THEN SkippedIn(a, j) \union {j + 1} ELSE SkippedIn(a, j)
<1>1. 1..(j + 1) = (1..j) \union {j + 1}
  OBVIOUS
<1> QED
  BY <1>1 DEF PassedIn, FailedIn, SkippedIn

\* The three branches of the loop are the three ways an execution can go.
LEMMA BranchOfLoop ==
    ASSUME ResultInv, LoopInv, Iterate
    PROVE  LET e == results[i + 1]
           IN  /\ HasSkipped(action, e) => acc' = Skip
               /\ HasFailed(action, e) => acc' = Fail
               /\ HasPassed(action, e) =>
                     DurationAt(action, i + 1) \in Durations /\ acc' = Measure(DurationAt(action, i + 1))
<1> DEFINE e == results[i + 1]
<1>1. i + 1 \in 1..Len(results)
  BY LenProperties DEF ResultInv, LoopInv, Iterate
<1>2. acc' = LoopBody /\ Current = e
  BY DEF Iterate, Current
<1>3. Wellformed(e)
  BY <1>1 DEF ResultInv
<1>4. e.atomic = <<>> => ActionsOf(e) = {}
  BY DEF ActionsOf
<1>5. HasSkipped(action, e) => acc' = Skip
  BY <1>2 DEF HasSkipped, HasAction, LoopBody
<1>6. HasFailed(action, e) => acc' = Fail
  BY <1>2, <1>4 DEF HasFailed, HasAction, LoopBody
<1>7. HasPassed(action, e) => acc' = Measure(DurationAt(action, i + 1))
  BY <1>2, <1>4 DEF HasPassed, HasAction, LoopBody, DurationAt
<1> QED
  BY <1>1, <1>5, <1>6, <1>7, PassedDuration

LEMMA LoopNext ==
    ASSUME ResultInv, UNCHANGED <<results, action, phase>>, phase = "loop", i \in Nat,
           i < Len(results), i' = i + 1, acc' \in Accs,
           Counted(action, i + 1, acc'), Bounded(action, i + 1, acc'), Averaged(action, i + 1, acc')
    PROVE  LoopInv'
<1>1. Len(results) \in Nat
  BY LenProperties DEF ResultInv
<1> QED
  BY <1>1 DEF LoopInv, Counted, Bounded, Averaged, PassedIn, FailedIn, SkippedIn, DurationAt

\* What has been counted is still there when the next result is looked at.
LEMMA LoopIterate ==
    ASSUME ResultInv, LoopInv, Iterate
    PROVE  LoopInv'
<1> DEFINE j == i + 1
           e == results[j]
           d == DurationAt(action, j)
<1>1. /\ i \in Nat /\ i < Len(results) /\ j \in 1..Len(results)
      /\ UNCHANGED <<results, times, action, phase>> /\ phase = "loop" /\ i' = j
  BY LenProperties DEF ResultInv, LoopInv, Iterate
<1>2. acc \in Accs /\ Counted(action, i, acc) /\ Bounded(action, i, acc) /\ Averaged(action, i, acc)
  BY <1>1 DEF LoopInv
<1>3. /\ HasPassed(action, e) \/ HasFailed(action, e) \/ HasSkipped(action, e)
      /\ ~ (HasPassed(action, e) /\ HasFailed(action, e))
      /\ ~ (HasPassed(action, e) /\ HasSkipped(action, e))
      /\ ~ (HasFailed(action, e) /\ HasSkipped(action, e))
  BY <1>1, OneWay
<1>4. /\ HasSkipped(action, e) => acc' = Skip
      /\ HasFailed(action, e) => acc' = Fail
      /\ HasPassed(action, e) => d \in Durations /\ acc' = Measure(d)
  BY BranchOfLoop
<1>5. 0 \in Times /\ Durations \subseteq Times /\ Durations \subseteq Nat /\ Infinity \in Nat
      /\ \A x \in Durations : x < Infinity /\ 0 < x
  BY BoundsAssumption DEF BoundsAssumption, Times, Durations, Infinity
<1> DEFINE datum == IF HasPassed(action, e) THEN d ELSE 0
<1>6. /\ acc'.data = Append(acc.data, datum) /\ datum \in Times
      /\ acc'.errors = IF HasFailed(action, e) THEN acc.errors + 1 ELSE acc.errors
      /\ acc'.skipped = IF HasSkipped(action, e) THEN acc.skipped + 1 ELSE acc.skipped
      /\ acc'.total = acc.total + datum
      /\ acc'.min = IF HasPassed(action, e) /\ d < acc.min THEN d ELSE acc.min
      /\ acc'.max = IF HasPassed(action, e) /\ d > acc.max THEN d ELSE acc.max
      /\ acc' = [min |-> acc'.min, max |-> acc'.max, total |-> acc'.total,
                 skipped |-> acc'.skipped, errors |-> acc'.errors, data |-> acc'.data]
  <2>1. CASE HasPassed(action, e)
    <3>1. d \in Durations /\ acc' = Measure(d) /\ datum = d /\ ~ HasFailed(action, e) /\ ~ HasSkipped(action, e)
      BY <1>3, <1>4, <2>1
    <3> HIDE DEF d, datum, e
    <3> QED
      BY <1>2, <1>5, <2>1, <3>1 DEF Accs, Measure
  <2>2. CASE HasFailed(action, e)
    <3>1. acc' = Fail /\ datum = 0 /\ ~ HasPassed(action, e) /\ ~ HasSkipped(action, e)
      BY <1>3, <1>4, <2>2
    <3> HIDE DEF d, datum, e
    <3>2. acc' = [min |-> acc.min, max |-> acc.max, total |-> acc.total, skipped |-> acc.skipped,
                  errors |-> acc.errors + 1, data |-> Append(acc.data, 0)]
      BY <1>2, <3>1 DEF Accs, Fail
    <3>3. acc.total + 0 = acc.total
      BY <1>2 DEF Accs
    <3> QED
      BY <1>5, <2>2, <3>1, <3>2, <3>3
  <2>3. CASE HasSkipped(action, e)
    <3>1. acc' = Skip /\ datum = 0 /\ ~ HasPassed(action, e) /\ ~ HasFailed(action, e)
      BY <1>3, <1>4, <2>3
    <3> HIDE DEF d, datum, e
    <3>2. acc' = [min |-> acc.min, max |-> acc.max, total |-> acc.total, skipped |-> acc.skipped + 1,
                  errors |-> acc.errors, data |-> Append(acc.data, 0)]
      BY <1>2, <3>1 DEF Accs, Skip
    <3>3. acc.total + 0 = acc.total
      BY <1>2 DEF Accs
    <3> QED
      BY <1>5, <2>3, <3>1, <3>2, <3>3
  <2> QED
    BY <1>3, <2>1, <2>2, <2>3
<1> HIDE DEF j, e, d
<1>7. acc' \in Accs
  <2>1. Append(acc.data, datum) \in Seq(Times)
    BY <1>2, <1>6, AppendProperties DEF Accs
  <2>2. /\ acc.errors \in Nat /\ acc.skipped \in Nat /\ acc.total \in Nat
        /\ acc.min \in Nat /\ acc.max \in Nat
    BY <1>2 DEF Accs
  <2>3. /\ datum \in Nat
        /\ HasPassed(action, e) => d \in Nat
    BY <1>4, <1>5
  <2> HIDE DEF datum
  <2>4. /\ acc'.errors \in Nat /\ acc'.skipped \in Nat /\ acc'.total \in Nat
        /\ acc'.min \in Nat /\ acc'.max \in Nat
    BY <1>6, <2>2, <2>3
  <2>5. /\ acc'.data \in Seq(Times)
        /\ acc' = [min |-> acc'.min, max |-> acc'.max, total |-> acc'.total,
                   skipped |-> acc'.skipped, errors |-> acc'.errors, data |-> acc'.data]
    BY <1>6, <2>1
  <2> QED
    BY <2>4, <2>5 DEF Accs
<1>8. /\ PassedIn(action, j) =
            IF HasPassed(action, e) THEN PassedIn(action, i) \union {j} ELSE PassedIn(action, i)
      /\ FailedIn(action, j) =
            IF HasFailed(action, e) THEN FailedIn(action, i) \union {j} ELSE FailedIn(action, i)
      /\ SkippedIn(action, j) =
            IF HasSkipped(action, e) THEN SkippedIn(action, i) \union {j} ELSE SkippedIn(action, i)
  BY <1>1, SetsNext DEF j, e
<1>9. /\ Cardinality(FailedIn(action, i)) \in Nat
      /\ Cardinality(FailedIn(action, i) \union {j}) = Cardinality(FailedIn(action, i)) + 1
      /\ Cardinality(SkippedIn(action, i)) \in Nat
      /\ Cardinality(SkippedIn(action, i) \union {j}) = Cardinality(SkippedIn(action, i)) + 1
      /\ Cardinality(PassedIn(action, i)) \in Nat
      /\ Cardinality(PassedIn(action, i) \union {j}) = Cardinality(PassedIn(action, i)) + 1
  <2>1. /\ FailedIn(action, i) \in SUBSET (1..i)
        /\ SkippedIn(action, i) \in SUBSET (1..i)
        /\ PassedIn(action, i) \in SUBSET (1..i)
    BY DEF FailedIn, SkippedIn, PassedIn
  <2> QED
    BY <1>1, <2>1, CountNext DEF j
<1>10. Counted(action, j, acc')
  <2>1. /\ acc'.errors = Cardinality(FailedIn(action, j))
        /\ acc'.skipped = Cardinality(SkippedIn(action, j))
    BY <1>2, <1>6, <1>8, <1>9 DEF Counted
  <2>2. acc.data \in Seq(Times) /\ Len(acc.data) = i
    BY <1>2 DEF Accs, Counted
  <2>3. Len(acc'.data) = j /\ acc'.data[j] = datum /\ \A k \in 1..i : acc'.data[k] = acc.data[k]
    BY <1>1, <1>6, <2>2, AppendProperties DEF j
  <2>4. ASSUME NEW k \in 1..j
        PROVE  acc'.data[k] = IF HasPassed(action, results[k]) THEN DurationAt(action, k) ELSE 0
    <3>1. CASE k = j
      BY <2>3, <3>1 DEF e, d
    <3>2. CASE k # j
      <4>1. k \in 1..i
        BY <1>1, <3>2 DEF j
      <4> QED
        BY <1>2, <2>3, <4>1 DEF Counted
    <3> QED
      BY <3>1, <3>2
  <2> QED
    BY <2>1, <2>3, <2>4 DEF Counted
<1>11. /\ acc.min \in Nat /\ acc.max \in Nat /\ acc.total \in Nat
       /\ acc'.min \in Nat /\ acc'.max \in Nat /\ acc'.total \in Nat
  BY <1>2, <1>7 DEF Accs
<1>12. CASE HasPassed(action, e)
  <2>1. d \in Nat /\ d \in Durations /\ d < Infinity /\ 0 < d /\ datum = d
    BY <1>4, <1>5, <1>12
  <2>2. acc'.min <= acc.min /\ acc'.min <= d /\ acc.max <= acc'.max /\ d <= acc'.max
    BY <1>6, <1>11, <1>12, <2>1
  <2>3. \A k \in PassedIn(action, i) : DurationAt(action, k) \in Nat
    <3>1. ASSUME NEW k \in PassedIn(action, i) PROVE DurationAt(action, k) \in Nat
      <4>1. k \in 1..Len(results) /\ HasPassed(action, results[k])
        BY <1>1, <3>1 DEF PassedIn
      <4> QED
        BY <1>5, <4>1, PassedDuration
    <3> QED
      BY <3>1
  <2>4. Bounded(action, j, acc')
    <3>1. \A k \in PassedIn(action, j) : acc'.min <= DurationAt(action, k) /\ DurationAt(action, k) <= acc'.max
      <4>1. ASSUME NEW k \in PassedIn(action, i)
            PROVE  acc'.min <= DurationAt(action, k) /\ DurationAt(action, k) <= acc'.max
        <5>1. acc.min <= DurationAt(action, k) /\ DurationAt(action, k) <= acc.max
          BY <1>2, <4>1 DEF Bounded
        <5> QED
          BY <1>11, <2>2, <2>3, <4>1, <5>1
      <4> QED
        BY <1>8, <1>12, <2>2, <4>1 DEF d
    <3>2. \E k, m \in PassedIn(action, j) : acc'.min = DurationAt(action, k) /\ acc'.max = DurationAt(action, m)
      <4>1. CASE PassedIn(action, i) = {}
        <5>1. acc.min = Infinity /\ acc.max = 0
          BY <1>2, <4>1 DEF Bounded
        <5>2. acc'.min = d /\ acc'.max = d
          BY <1>6, <1>12, <2>1, <5>1
        <5> QED
          BY <1>8, <1>12, <5>2 DEF d
      <4>2. CASE PassedIn(action, i) # {}
        <5>1. PICK k, m \in PassedIn(action, i) :
                 acc.min = DurationAt(action, k) /\ acc.max = DurationAt(action, m)
          BY <1>2, <4>2 DEF Bounded
        <5>2. acc'.min \in {acc.min, d} /\ acc'.max \in {acc.max, d}
          BY <1>6
        <5> QED
          BY <1>8, <1>12, <5>1, <5>2 DEF d
      <4> QED
        BY <4>1, <4>2
    <3>3. PassedIn(action, j) # {}
      BY <1>8, <1>12
    <3> QED
      BY <3>1, <3>2, <3>3 DEF Bounded
  <2>5. Averaged(action, j, acc')
    <3> DEFINE n == Cardinality(PassedIn(action, i))
    <3>1. n \in Nat /\ acc.min * n <= acc.total /\ acc.total <= acc.max * n
      BY <1>2, <1>9 DEF Averaged
    <3>2. acc'.total = acc.total + d
      BY <1>6, <2>1
    <3> HIDE DEF n
    <3>3. acc'.min * (n + 1) <= acc.total + d /\ acc.total + d <= acc'.max * (n + 1)
      BY <1>11, <2>1, <2>2, <3>1, AverageNext
    <3>4. Cardinality(PassedIn(action, j)) = n + 1
      BY <1>8, <1>9, <1>12 DEF n
    <3> QED
      BY <3>2, <3>3, <3>4 DEF Averaged
  <2> QED
    BY <1>1, <1>7, <1>10, <2>4, <2>5, LoopNext DEF j
<1>13. CASE ~ HasPassed(action, e)
  <2>1. acc'.min = acc.min /\ acc'.max = acc.max /\ acc'.total = acc.total
    BY <1>6, <1>11, <1>13
  <2>2. PassedIn(action, j) = PassedIn(action, i)
    BY <1>8, <1>13
  <2>3. Bounded(action, j, acc') /\ Averaged(action, j, acc')
    BY <1>2, <2>1, <2>2 DEF Bounded, Averaged
  <2> QED
    BY <1>1, <1>7, <1>10, <2>3, LoopNext DEF j
<1> QED
  BY <1>12, <1>13

LEMMA LoopInit == Init => LoopInv
  BY NoneSeen DEF Init, LoopInv

LEMMA LoopStep ==
    ASSUME ResultInv, LoopInv, [Next]_vars
    PROVE  LoopInv'
<1> DEFINE Known == Counted(action, i, acc) /\ Bounded(action, i, acc) /\ Averaged(action, i, acc)
<1>1. ASSUME UNCHANGED <<results, action, i, acc>>, Known
      PROVE  Known'
  <2>1. Counted(action, i, acc)'
    BY <1>1 DEF Counted, FailedIn, SkippedIn, DurationAt
  <2>2. Bounded(action, i, acc)'
    BY <1>1 DEF Bounded, PassedIn, DurationAt
  <2>3. Averaged(action, i, acc)'
    BY <1>1 DEF Averaged, PassedIn
  <2> QED
    BY <2>1, <2>2, <2>3
<1>2. phase \in {"loop", "sum"} => Known
  BY DEF LoopInv
<1> HIDE DEF Known
<1>3. ASSUME UNCHANGED <<results, action, i, acc>>,
              phase' = phase \/ phase' \notin {"loop", "sum"} \/ (phase = "loop" /\ i = Len(results))
       PROVE  LoopInv'
  <2>1. phase' \in {"loop", "sum"} => Known' /\ i' <= Len(results')
    BY <1>1, <1>2, <1>3 DEF LoopInv
  <2>2. i' \in Nat /\ acc' \in Accs' /\ (phase' = "sum" => i' = Len(results'))
    BY <1>3 DEF LoopInv, Accs
  <2> QED
    BY <2>1, <2>2 DEF LoopInv, Known
<1>4. ASSUME UNCHANGED <<results, action, i, acc>>, phase' = phase \/ phase' \notin {"loop", "sum"}
      PROVE  LoopInv'
  BY <1>4, <1>3
<1>5. CASE PickActions
  BY <1>4, <1>5 DEF PickActions
<1>6. CASE LoopEnds
  BY <1>6, <1>3 DEF LoopEnds
<1>7. CASE Summarise
  BY <1>4, <1>7 DEF Summarise
<1>8. CASE SummariseRaises
  BY <1>4, <1>8 DEF SummariseRaises
<1>9. CASE Send
  BY <1>4, <1>9 DEF Send
<1>10. ASSUME NEW a \in actions, NextAction(a) PROVE LoopInv'
  <2>1. results' = results /\ action' = a /\ i' = 0 /\ acc' = EmptyAcc /\ phase' = "loop"
    BY <1>10 DEF NextAction
  <2>2. EmptyAcc \in Accs /\ Counted(a, 0, EmptyAcc) /\ Bounded(a, 0, EmptyAcc) /\ Averaged(a, 0, EmptyAcc)
    BY NoneSeen
  <2>3. Len(results) \in Nat
    BY LenProperties DEF ResultInv
  <2> QED
    BY <2>1, <2>2, <2>3 DEF LoopInv, Counted, Bounded, Averaged, PassedIn, FailedIn, SkippedIn, DurationAt
<1>11. CASE UNCHANGED vars
  BY <1>4, <1>11 DEF vars
<1> QED
  BY <1>5, <1>6, <1>7, <1>8, <1>9, <1>10, <1>11, LoopIterate DEF Next

-----------------------------------------------------------------------------
(* The summaries                                                            *)

\* What SummaryIsReference and AverageBetweenExtremes say of one summary.
IsReference(s) ==
    LET a == s.action
        durations == {DurationAt(a, k) : k \in Passed(a)}
    IN  /\ s.errors = Cardinality(FailedAt(a))
        /\ s.count = Cardinality(Passed(a))
        /\ s.success = <<Cardinality(Passed(a)), Len(results)>> /\ s.total = Len(results)
        /\ \A k \in 1..Len(results) : s.data[k] = IF k \in Passed(a) THEN DurationAt(a, k) ELSE 0
        /\ Passed(a) # {} => /\ s.min \in durations /\ \A d \in durations : s.min <= d
                             /\ s.max \in durations /\ \A d \in durations : s.max >= d

IsBetween(s) == s.min * s.count <= s.sum /\ s.sum <= s.max * s.count

\* When the loop is through, the numbers are those of all the results.
LEMMA AllSeen ==
    ASSUME ResultInv, LoopInv, phase = "sum"
    PROVE  /\ acc \in Accs /\ Len(results) \in Nat
           /\ Counted(action, Len(results), acc) /\ Bounded(action, Len(results), acc)
           /\ Averaged(action, Len(results), acc)
           /\ acc.errors = Cardinality(FailedAt(action))
           /\ acc.errors \in Nat /\ acc.skipped \in Nat
           /\ Cardinality(Passed(action)) \in Nat
           /\ Cardinality(Passed(action)) + acc.errors + acc.skipped = Len(results)
<1>1. /\ acc \in Accs /\ i = Len(results) /\ Counted(action, i, acc)
      /\ Bounded(action, i, acc) /\ Averaged(action, i, acc)
  BY DEF LoopInv
<1>2. Len(results) \in Nat
  BY LenProperties DEF ResultInv
<1>3. /\ acc.errors = Cardinality(FailedIn(action, Len(results)))
      /\ acc.skipped = Cardinality(SkippedIn(action, Len(results)))
  BY <1>1 DEF Counted
<1> QED
  BY <1>1, <1>2, <1>3, Parted, ReferenceSets DEF Accs

\* The summary of complete results is the reference's, in the two cases that
\* Summary can take then: all have failed, or the divisor is the number that passed.
LEMMA SummaryAdded ==
    ASSUME ResultInv, LoopInv, Summarise, Complete
    PROVE  IsReference(Summary) /\ IsBetween(Summary)
<1> DEFINE P == Passed(action)
<1>1. phase = "sum" /\ times \in Nat /\ times > 0 /\ Len(results) = times
  BY BoundsAssumption DEF Summarise, ResultInv, Complete, BoundsAssumption
<1>2. results # <<>>
  BY <1>1
<1>3. /\ acc \in Accs /\ Counted(action, Len(results), acc) /\ Bounded(action, Len(results), acc)
      /\ Averaged(action, Len(results), acc)
      /\ acc.errors = Cardinality(FailedAt(action)) /\ acc.errors \in Nat /\ acc.skipped \in Nat
      /\ Cardinality(P) \in Nat /\ Cardinality(P) + acc.errors + acc.skipped = times
  BY <1>1, AllSeen
<1>4. IsFiniteSet(P)
  <2>1. P \subseteq 1..Len(results) /\ IsFiniteSet(1..Len(results))
    BY <1>1, FS_Interval DEF Passed
  <2> QED
    BY <2>1, FS_Subset
<1>5. P = PassedIn(action, Len(results))
  BY ReferenceSets
<1>6. \A k \in 1..Len(results) : acc.data[k] = IF k \in P THEN DurationAt(action, k) ELSE 0
  BY <1>3, <1>5 DEF Counted, PassedIn
<1>7. CASE times = acc.errors
  <2>1. Cardinality(P) = 0
    BY <1>1, <1>3, <1>7
  <2>2. P = {}
    BY <1>4, <2>1, FS_EmptySet
  <2>3. Summary = [action |-> action, min |-> 0, max |-> acc.max, sum |-> 0, count |-> 0,
                   errors |-> acc.errors, success |-> <<0, Len(results)>>,
                   total |-> times, data |-> acc.data]
    <3>1. Measured = 0
      BY <1>1, <1>3, <1>7 DEF Measured
    <3> QED
      BY <1>2, <1>7, <3>1 DEF Summary
  <2>4. IsReference(Summary)
    <3>1. /\ Summary.action = action /\ Summary.count = 0 /\ Summary.errors = acc.errors
          /\ Summary.success = <<0, Len(results)>> /\ Summary.total = Len(results)
          /\ Summary.data = acc.data
      BY <1>1, <2>3
    <3> QED
      BY <1>3, <1>6, <2>1, <2>2, <3>1 DEF IsReference
  <2>5. IsBetween(Summary)
    BY <1>3, <2>3 DEF IsBetween, Accs
  <2> QED
    BY <2>4, <2>5
<1>8. CASE times # acc.errors
  <2>1. Summary = [action |-> action, min |-> acc.min, max |-> acc.max, sum |-> acc.total,
                   count |-> Measured, errors |-> acc.errors,
                   success |-> <<Measured, Len(results)>>, total |-> times, data |-> acc.data]
    BY <1>2, <1>8 DEF Summary
  <2>2. Measured = Cardinality(P)
    BY <1>1, <1>3 DEF Measured
  <2> DEFINE durations == {DurationAt(action, k) : k \in P}
  <2>3. ASSUME P # {}
        PROVE  /\ acc.min \in durations /\ \A d \in durations : acc.min <= d
               /\ acc.max \in durations /\ \A d \in durations : acc.max >= d
    <3>1. PICK k, m \in P : acc.min = DurationAt(action, k) /\ acc.max = DurationAt(action, m)
      BY <1>3, <1>5, <2>3 DEF Bounded
    <3>2. \A n \in P : acc.min <= DurationAt(action, n) /\ DurationAt(action, n) <= acc.max
      BY <1>3, <1>5 DEF Bounded
    <3>3. acc.max \in Nat /\ \A n \in P : DurationAt(action, n) \in Nat
      <4>1. \A n \in P : n \in 1..Len(results) /\ HasPassed(action, results[n])
        BY <1>5 DEF PassedIn
      <4> QED
        BY <1>3, <4>1, PassedDuration DEF Accs, Durations
    <3> QED
      BY <3>1, <3>2, <3>3
  <2> HIDE DEF durations
  <2>4. IsReference(Summary)
    <3>1. /\ Summary.action = action /\ Summary.min = acc.min /\ Summary.max = acc.max
          /\ Summary.count = Cardinality(P) /\ Summary.errors = acc.errors /\ Summary.data = acc.data
          /\ Summary.success = <<Cardinality(P), Len(results)>> /\ Summary.total = Len(results)
      BY <1>1, <2>1, <2>2
    <3> QED
      BY <1>3, <1>6, <2>3, <3>1 DEF IsReference, durations
  <2>5. IsBetween(Summary)
    BY <1>3, <1>5, <2>1, <2>2 DEF IsBetween, Averaged
  <2> QED
    BY <2>4, <2>5
<1> QED
  BY <1>7, <1>8

SummaryInv == Complete => \A s \in report : IsReference(s) /\ IsBetween(s)

LEMMA SummaryStep ==
    ASSUME ResultInv, LoopInv, SummaryInv, [Next]_vars
    PROVE  SummaryInv'
<1>1. UNCHANGED <<results, times>>
  BY DEF vars, Next, PickActions, NextAction, Iterate, LoopEnds, Summarise, SummariseRaises, Send
<1>2. \A s : IsReference(s)' <=> IsReference(s)
  BY <1>1 DEF IsReference, Passed, FailedAt, DurationAt
<1>3. \A s : IsBetween(s)' <=> IsBetween(s)
  BY DEF IsBetween
<1>4. CASE Summarise
  <2>1. report' = report \union {Summary}
    BY <1>4 DEF Summarise
  <2> QED
    BY <1>1, <1>2, <1>3, <1>4, <2>1, SummaryAdded DEF SummaryInv, Complete
<1>5. CASE ~ Summarise
  <2>1. report' = report
    BY <1>5 DEF vars, Next, PickActions, NextAction, Iterate, LoopEnds, Summarise, SummariseRaises, Send
  <2> QED
    BY <1>1, <1>2, <1>3, <2>1 DEF SummaryInv, Complete
<1> QED
  BY <1>4, <1>5

-----------------------------------------------------------------------------
(* A success                                                                *)

\* Every execution has gone through the action.
AllPass(a) == \A k \in 1..Len(results) : HasPassed(a, results[k])

SuccessInv ==
    State = "success" =>
        /\ \A a \in actions : AllPass(a)
        /\ phase \in {"loop", "sum"} => AllPass(action)
        /\ \A s \in report : s.errors = 0 /\ s.count = times /\ s.success = <<times, Len(results)>>

\* A task that is a success has results, and none of them an error.
LEMMA SuccessMeans ==
    ASSUME ResultInv, State = "success"
    PROVE  results # <<>> /\ \A k \in 1..Len(results) : ~ results[k].error
<1> DEFINE E == {k \in 1..Len(results) : results[k].error}
<1>1. Len(results) \in Nat /\ times \in Nat /\ times >= 1
  BY LenProperties, BoundsAssumption DEF ResultInv, BoundsAssumption
<1>2. ~ (TotalErrors >= times) /\ ~ (TotalErrors > 0)
  BY DEF State
<1>3. results # <<>>
  BY <1>1, <1>2 DEF TotalErrors
<1>4. IsFiniteSet(E) /\ Cardinality(E) \in Nat
  <2>1. E \subseteq 1..Len(results) /\ IsFiniteSet(1..Len(results))
    BY <1>1, FS_Interval
  <2> QED
    BY <2>1, FS_Subset, FS_CardinalityType
<1>5. Cardinality(E) = 0
  BY <1>2, <1>3, <1>4 DEF TotalErrors
<1>6. E = {}
  BY <1>4, <1>5, FS_EmptySet
<1> QED
  BY <1>3, <1>6

\* The actions are those of an execution without an error: all went through them.
LEMMA SuccessPick ==
    ASSUME ResultInv, State = "success", NEW a \in PickedActions
    PROVE  AllPass(a)
<1> DEFINE clean == {k \in 1..Len(results) : ~ results[k].error}
           first == CHOOSE k \in clean : \A j \in clean : k <= j
<1>1. results # <<>> /\ \A k \in 1..Len(results) : ~ results[k].error
  BY SuccessMeans
<1>2. Len(results) \in Nat /\ Len(results) # 0
  BY <1>1, LenProperties, EmptySeq DEF ResultInv
<1>3. 1 \in clean /\ \A j \in clean : 1 <= j
  BY <1>1, <1>2
<1>4. first \in clean
  BY <1>3
<1>5. PickedActions = IF ActionsOf(results[first]) = {} THEN {0} ELSE ActionsOf(results[first])
  BY <1>1, <1>3 DEF PickedActions
<1> HIDE DEF first
<1>6. PICK n \in Nat : \A k \in 1..Len(results) : Through(results[k], n)
  BY <1>1 DEF ResultInv
<1>7. ActionsOf(results[first]) = 1..n
  BY <1>4, <1>6 DEF Through, ActionsOf
<1>8. ASSUME NEW k \in 1..Len(results) PROVE HasPassed(a, results[k])
  <2> DEFINE e == results[k]
  <2>1. ~ e.error /\ Len(e.atomic) = n /\ (\A x \in 1..n : e.atomic[x] # 0) /\ e.atomic \in Seq(Times)
    <3>1. ~ e.error /\ Through(e, n) /\ Wellformed(e)
      BY <1>1, <1>6 DEF ResultInv
    <3> QED
      BY <3>1 DEF Through, Durations, Wellformed
  <2>2. CASE n = 0
    <3>1. e.atomic = <<>>
      BY <2>1, <2>2, EmptySeq
    <3> QED
      BY <2>1, <3>1 DEF HasPassed
  <2>3. CASE n # 0
    <3>1. a \in 1..n
      BY <1>5, <1>7, <2>3
    <3> QED
      BY <2>1, <3>1 DEF HasPassed, ActionsOf
  <2> QED
    BY <2>2, <2>3
<1> QED
  BY <1>8 DEF AllPass

\* Nobody failed or skipped an action that all have gone through.
LEMMA SuccessSummary ==
    ASSUME ResultInv, LoopInv, Summarise, State = "success", AllPass(action)
    PROVE  Summary.errors = 0 /\ Summary.count = times /\ Summary.success = <<times, Len(results)>>
<1>1. results # <<>> /\ times \in Nat /\ times # 0 /\ phase = "sum"
  BY SuccessMeans, BoundsAssumption DEF ResultInv, BoundsAssumption, Summarise
<1>2. /\ Len(results) \in Nat
      /\ acc.errors = Cardinality(FailedIn(action, Len(results)))
      /\ acc.skipped = Cardinality(SkippedIn(action, Len(results)))
  BY <1>1, AllSeen DEF Counted
<1>3. FailedIn(action, Len(results)) = {} /\ SkippedIn(action, Len(results)) = {}
  BY OneWay DEF AllPass, FailedIn, SkippedIn
<1>4. acc.errors = 0 /\ acc.skipped = 0
  BY <1>2, <1>3, FS_EmptySet
<1> QED
  BY <1>1, <1>4 DEF Summary, Measured

LEMMA SuccessStep ==
    ASSUME ResultInv, LoopInv, SuccessInv, [Next]_vars
    PROVE  SuccessInv'
<1>1. UNCHANGED <<results, times>>
  BY DEF vars, Next, PickActions, NextAction, Iterate, LoopEnds, Summarise, SummariseRaises, Send
<1>2. State' = State /\ \A a : AllPass(a)' <=> AllPass(a)
  BY <1>1 DEF State, TotalErrors, AllPass
<1> SUFFICES ASSUME State = "success" PROVE SuccessInv'
  BY <1>2 DEF SuccessInv
<1>3. /\ \A a \in actions : AllPass(a)
      /\ phase \in {"loop", "sum"} => AllPass(action)
      /\ \A s \in report : s.errors = 0 /\ s.count = times /\ s.success = <<times, Len(results)>>
  BY DEF SuccessInv
<1>4. CASE PickActions
  BY <1>1, <1>2, <1>3, <1>4, SuccessPick DEF PickActions, SuccessInv
<1>5. CASE Summarise
  <2>1. phase = "sum" /\ report' = report \union {Summary} /\ phase' \notin {"loop", "sum"}
        /\ actions' = actions
    BY <1>5 DEF Summarise
  <2>2. Summary.errors = 0 /\ Summary.count = times /\ Summary.success = <<times, Len(results)>>
    BY <1>3, <1>5, <2>1, SuccessSummary
  <2> QED
    BY <1>1, <1>2, <1>3, <2>1, <2>2 DEF SuccessInv
<1>6. CASE \E a \in actions : NextAction(a)
  BY <1>1, <1>2, <1>3, <1>6 DEF NextAction, SuccessInv
<1>7. CASE Iterate \/ LoopEnds \/ SummariseRaises \/ Send \/ UNCHANGED vars
  BY <1>1, <1>2, <1>3, <1>7 DEF Iterate, LoopEnds, SummariseRaises, Send, vars, SuccessInv
<1> QED
  BY <1>4, <1>5, <1>6, <1>7 DEF Next

-----------------------------------------------------------------------------
(* The theorems                                                             *)

ReportInv == ResultInv /\ LoopInv /\ SummaryInv /\ SuccessInv

LEMMA ReportInvariant == Spec => []ReportInv
<1>1. Init => ReportInv
  <2> SUFFICES ASSUME Init PROVE ReportInv
    OBVIOUS
  <2>1. SummaryInv /\ SuccessInv
    BY DEF Init, SummaryInv, SuccessInv
  <2> QED
    BY <2>1, ResultInit, LoopInit DEF ReportInv
<1>2. ReportInv /\ [Next]_vars => ReportInv'
  BY ResultStep, LoopStep, SummaryStep, SuccessStep DEF ReportInv
<1> QED
  BY <1>1, <1>2, PTL DEF Spec

\* However many results, steps and durations: the summary of an action over complete
\* results is that of the reference definition, which knows of no loop
\* (_get_action_dur_report).
THEOREM SummaryCorrect == Spec => []SummaryIsReference
<1>1. ReportInv => SummaryIsReference
  BY DEF ReportInv, SummaryInv, IsReference, SummaryIsReference
<1> QED
  BY <1>1, ReportInvariant, PTL

\* The average over complete results lies between the extremes: the divisor that is
\* made of times is the number of executions that were measured.
THEOREM AverageCorrect == Spec => []AverageBetweenExtremes
<1>1. ReportInv => AverageBetweenExtremes
  BY DEF ReportInv, SummaryInv, IsBetween, AverageBetweenExtremes
<1> QED
  BY <1>1, ReportInvariant, PTL

\* A task reported as a success has summaries without failed or skipped executions
\* (send_report and _get_action_dur_report agree on what an error is).
THEOREM SuccessCorrect == Spec => []SuccessIsClean
<1>1. ReportInv => SuccessIsClean
  BY DEF ReportInv, SuccessInv, SuccessIsClean, Complete
<1> QED
  BY <1>1, ReportInvariant, PTL
=============================================================================
