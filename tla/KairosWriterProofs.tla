------------------------- MODULE KairosWriterProofs -------------------------
(* Theorems about KairosWriter, for any threads and any interval.           *)
EXTENDS KairosWriter, TLAPS

\* The places between an acquire and its release.
Guarded == {"connect", "attempt", "connecting", "build", "sending", "rest", "failed"}

Inside == \A t \in Threads : pc[t] \in Guarded => lock = t

\* Nobody has changed what a thread in kairosdb_connect has read.
Noted == \A t \in Threads :
    /\ pc[t] = "attempt" => sock = "none" /\ since = Interval
    /\ pc[t] = "connecting" => sock = "made"

Halves == half # NoThread => protocol = "tcp" /\ pc[half] = "rest" /\ sock = "open"

IInv == TypeOK /\ Inside /\ Noted /\ Halves

LEMMA InitIInv == Init => IInv
BY NoThreadAssumption, IntervalAssumption
   DEF Init, IInv, TypeOK, Places, Inside, Guarded, Noted, Halves

LEMMA NextIInv == IInv /\ [Next]_vars => IInv'
<1> SUFFICES ASSUME IInv, [Next]_vars PROVE IInv'
    OBVIOUS
<1> USE NoThreadAssumption, IntervalAssumption
        DEF IInv, TypeOK, Places, Inside, Guarded, Noted, Halves, Goto, Acquire, Release, shared
<1>1. ASSUME NEW t \in Threads, Step(t) PROVE IInv'
    <2>1. CASE Enter(t)
        BY <2>1 DEF Enter
    <2>2. CASE InUse(t) \/ TooSoon(t)
        BY <2>2 DEF InUse, TooSoon
    <2>3. CASE LongAgo(t)
        BY <2>3 DEF LongAgo, Connected
    <2>4. CASE Attempt(t)
        BY <2>4 DEF Attempt
    <2>5. CASE Connect(t)
        BY <2>5 DEF Connect
    <2>6. CASE ConnectFails(t)
        BY <2>6 DEF ConnectFails
    <2>7. CASE Drop(t) \/ Build(t) \/ Built(t)
        BY <2>7 DEF Drop, Build, Built
    <2>8. CASE Lock(t)
        BY <2>8 DEF Lock
    <2>9. CASE SendTo(t)
        BY <2>9 DEF SendTo
    <2>10. CASE Send(t)
        BY <2>10 DEF Send
    <2>11. CASE SendRest(t)
        BY <2>11 DEF SendRest
    <2>12. CASE SocketError(t)
        BY <2>12 DEF SocketError
    <2>13. CASE NoSocket(t)
        BY <2>13 DEF NoSocket
    <2>14. CASE Unlock(t)
        BY <2>14 DEF Unlock
    <2> QED
        BY <1>1, <2>1, <2>2, <2>3, <2>4, <2>5, <2>6, <2>7, <2>8, <2>9, <2>10, <2>11,
           <2>12, <2>13, <2>14 DEF Step
<1>2. ASSUME NEW t \in Threads, NEW m \in BOOLEAN, Write(t, m) PROVE IInv'
    BY <1>2 DEF Write
<1>3. CASE Down \/ Up \/ Reset
    BY <1>3 DEF Down, Up, Reset
<1>4. CASE Tick
    BY <1>4 DEF Tick
<1>5. CASE UNCHANGED vars
    BY <1>5 DEF vars
<1> QED
    BY <1>1, <1>2, <1>3, <1>4, <1>5 DEF Next

LEMMA AlwaysIInv == Spec => []IInv
BY InitIInv, NextIInv, PTL DEF Spec

\* The variables keep their types: among them, the lock is always some thread's or free.
THEOREM TypeCorrect == Spec => []TypeOK
BY AlwaysIInv, PTL DEF IInv

\* kairosdb_write_data: messages of different threads are never mixed on a connection.
THEOREM LinesIntactCorrect == Spec => LinesIntact
<1>1. IInv /\ [Next]_vars => [half # NoThread => half' \in {half, NoThread}]_vars
    <2> SUFFICES ASSUME IInv, Next, half # NoThread PROVE half' \in {half, NoThread}
        OBVIOUS
    <2>1. ASSUME NEW t \in Threads, Step(t) PROVE half' \in {half, NoThread}
        BY <2>1 DEF IInv, TypeOK, Inside, Guarded, Halves, Goto, shared, Step, Enter, InUse,
           TooSoon, LongAgo, Attempt, Connect, ConnectFails, Drop, Build, Built, Lock, SendTo,
           Send, SendRest, SocketError, NoSocket, Unlock
    <2> QED
        BY <2>1 DEF Next, Write, Down, Up, Reset, Tick, shared
<1> QED
    BY <1>1, AlwaysIInv, PTL DEF Spec, LinesIntact

\* kairosdb_connect: attempts to connect are an interval apart, whatever threads make them.
THEOREM AttemptsSpacedCorrect == Spec => AttemptsSpaced
<1>1. IInv /\ [Next]_vars => [since' < since => since = Interval]_vars
    <2> SUFFICES ASSUME IInv, Next PROVE since' < since => since = Interval
        BY DEF vars
    <2>1. ASSUME NEW t \in Threads, Step(t) PROVE since' < since => since = Interval
        BY <2>1, IntervalAssumption
           DEF IInv, TypeOK, Noted, Goto, shared, Step, Enter, InUse, TooSoon, LongAgo,
           Attempt, Connect, ConnectFails, Drop, Build, Built, Lock, SendTo, Send, SendRest,
           SocketError, NoSocket, Unlock
    <2> QED
        BY <2>1, IntervalAssumption DEF IInv, TypeOK, Next, Write, Down, Up, Reset, Tick, shared
<1> QED
    BY <1>1, AlwaysIInv, PTL DEF Spec, AttemptsSpaced
=============================================================================
