---------------------------- MODULE KairosWriter ----------------------------
(***************************************************************************)
(* The collectd plugin that writes to KairosDB (kairosdb_writer.py).       *)
(* collectd's write threads share one socket and one lock; Python lets     *)
(* another thread run wherever one blocks: in acquire, connect, sendall.   *)
(*                                                                         *)
(* The socket is "made" before it is connected, "open" with the server at  *)
(* its other end, "lost" when the server has gone, and "reset" when the    *)
(* kernel knows.  A message takes two sends.                               *)
(***************************************************************************)
EXTENDS Integers

CONSTANTS
    Threads,
    NoThread,
    Interval    \* time between attempts to connect, the code's 10 seconds

ASSUME NoThreadAssumption == NoThread \notin Threads
ASSUME IntervalAssumption == Interval \in Nat \ {0}

VARIABLES
    protocol,   \* KairosDBProtocol
    pc,         \* where each thread is in kairosdb_write
    metric,     \* whether the type of what it writes is known and fits
    lock,       \* data['lock']
    sock,       \* data['sock']
    since,      \* time since data['last_connect_time'], as far as Interval
    up,         \* the server accepts connections
    half        \* history: whose message the server has half of, on the connection

shared == <<lock, sock, since, half>>
vars == <<protocol, pc, metric, shared, up>>

Places == {"idle", "enter", "connect", "attempt", "connecting", "check",
           "build", "send", "sending", "rest", "failed"}

TypeOK ==
    /\ protocol \in {"tcp", "udp"}
    /\ pc \in [Threads -> Places]
    /\ metric \in [Threads -> BOOLEAN]
    /\ lock \in Threads \union {NoThread}
    /\ sock \in {"none", "made", "open", "lost", "reset"}
    /\ since \in 0..Interval
    /\ up \in BOOLEAN
    /\ half \in Threads \union {NoThread}

\* kairosdb_init: the first attempt, before collectd knows of the callback.
Init ==
    /\ protocol \in {"tcp", "udp"}
    /\ pc = [t \in Threads |-> "idle"]
    /\ metric = [t \in Threads |-> FALSE]
    /\ lock = NoThread
    /\ up \in BOOLEAN
    /\ IF protocol = "tcp"
       THEN since = 0 /\ sock = IF up THEN "open" ELSE "made"
       ELSE since = Interval /\ sock = "none"
    /\ half = NoThread

Goto(t, from, to) == pc[t] = from /\ pc' = [pc EXCEPT ![t] = to]
Acquire(t) == lock = NoThread /\ lock' = t
Release(t) == lock' = NoThread

-----------------------------------------------------------------------------
(* kairosdb_write and kairosdb_connect                                      *)

Write(t, m) ==
    /\ Goto(t, "idle", "enter")
    /\ metric' = [metric EXCEPT ![t] = m]
    /\ UNCHANGED <<protocol, shared, up>>

Enter(t) ==
    /\ Goto(t, "enter", "connect")
    /\ Acquire(t)
    /\ UNCHANGED <<protocol, metric, sock, since, up, half>>

Connected == sock # "none" \/ protocol # "tcp"

InUse(t) ==
    /\ Connected
    /\ Goto(t, "connect", "check")
    /\ Release(t)
    /\ UNCHANGED <<protocol, metric, sock, since, up, half>>

TooSoon(t) ==
    /\ ~ Connected /\ since < Interval
    /\ Goto(t, "connect", "idle")
    /\ Release(t)
    /\ UNCHANGED <<protocol, metric, sock, since, up, half>>

\* mutant: the time of the last attempt is not looked at
LongAgoOrNot(t) ==
    /\ ~ Connected
    /\ Goto(t, "connect", "attempt")
    /\ UNCHANGED <<protocol, metric, shared, up>>

LongAgo(t) ==
    /\ ~ Connected /\ since >= Interval
    /\ Goto(t, "connect", "attempt")
    /\ UNCHANGED <<protocol, metric, shared, up>>

\* mutant: the time the next attempt is due is noted, and compared as before
AttemptDue(t) ==
    /\ Goto(t, "attempt", "connecting")
    /\ since' = 0 - Interval
    /\ sock' = "made"
    /\ UNCHANGED <<protocol, metric, lock, up, half>>

\* The time is noted and the socket stored before connect() is called.
Attempt(t) ==
    /\ Goto(t, "attempt", "connecting")
    /\ since' = 0
    /\ sock' = "made"
    /\ UNCHANGED <<protocol, metric, lock, up, half>>

Connect(t) ==
    /\ up
    /\ Goto(t, "connecting", "check")
    /\ sock' = "open"
    /\ Release(t)
    /\ UNCHANGED <<protocol, metric, since, up, half>>

ConnectFails(t) ==
    /\ ~ up
    /\ Goto(t, "connecting", "idle")
    /\ Release(t)
    /\ UNCHANGED <<protocol, metric, sock, since, up, half>>

\* The type is not in types.db, or has another number of values.
Drop(t) ==
    /\ ~ metric[t]
    /\ Goto(t, "check", "idle")
    /\ UNCHANGED <<protocol, metric, shared, up>>

\* The lines are made under the lock, though nothing in them is shared ...
Build(t) ==
    /\ metric[t]
    /\ Goto(t, "check", "build")
    /\ Acquire(t)
    /\ UNCHANGED <<protocol, metric, sock, since, up, half>>

\* ... with no handler around them: the values collectd hands over can be formatted.
Built(t) ==
    /\ Goto(t, "build", "send")
    /\ Release(t)
    /\ UNCHANGED <<protocol, metric, sock, since, up, half>>

-----------------------------------------------------------------------------
(* kairosdb_write_data                                                      *)

\* mutant: the lock is not taken to send
LockAtOnce(t) ==
    /\ Goto(t, "send", "sending")
    /\ UNCHANGED <<protocol, metric, shared, up>>

Lock(t) ==
    /\ Goto(t, "send", "sending")
    /\ Acquire(t)
    /\ UNCHANGED <<protocol, metric, sock, since, up, half>>

\* One datagram of a socket of its own.
SendTo(t) ==
    /\ protocol = "udp"
    /\ Goto(t, "sending", "idle")
    /\ Release(t)
    /\ UNCHANGED <<protocol, metric, sock, since, up, half>>

Send(t) ==
    /\ protocol = "tcp" /\ sock \in {"open", "lost"}
    /\ Goto(t, "sending", "rest")
    /\ half' = IF sock = "open" THEN t ELSE half
    /\ UNCHANGED <<protocol, metric, lock, sock, since, up>>

SendRest(t) ==
    /\ sock \in {"open", "lost"}
    /\ Goto(t, "rest", "idle")
    /\ half' = NoThread
    /\ Release(t)
    /\ UNCHANGED <<protocol, metric, sock, since, up>>

\* mutant: the socket is kept
SocketErrorKept(t) ==
    /\ protocol = "tcp" => sock \in {"made", "reset"}
    /\ \E from \in {"sending", "rest"} : Goto(t, from, "failed")
    /\ UNCHANGED <<protocol, metric, shared, up>>

\* except socket.error; a datagram can fail at any time.
SocketError(t) ==
    /\ protocol = "tcp" => sock \in {"made", "reset"}
    /\ \E from \in {"sending", "rest"} : Goto(t, from, "failed")
    /\ sock' = "none"
    /\ UNCHANGED <<protocol, metric, lock, since, up, half>>

\* except: another thread has given the socket up, None has no sendall.
NoSocket(t) ==
    /\ protocol = "tcp" /\ sock = "none"
    /\ Goto(t, "sending", "failed")
    /\ UNCHANGED <<protocol, metric, shared, up>>

\* mutant: the lock is kept after an error
UnlockForgotten(t) ==
    /\ Goto(t, "failed", "idle")
    /\ UNCHANGED <<protocol, metric, shared, up>>

Unlock(t) ==
    /\ Goto(t, "failed", "idle")
    /\ Release(t)
    /\ UNCHANGED <<protocol, metric, sock, since, up, half>>

-----------------------------------------------------------------------------
(* The server, the network and time                                         *)

Down ==
    /\ up
    /\ up' = FALSE
    /\ sock' = IF sock = "open" THEN "lost" ELSE sock
    /\ half' = NoThread
    /\ UNCHANGED <<protocol, pc, metric, lock, since>>

Up ==
    /\ ~ up
    /\ up' = TRUE
    /\ UNCHANGED <<protocol, pc, metric, shared>>

Reset ==
    /\ sock = "lost"
    /\ sock' = "reset"
    /\ UNCHANGED <<protocol, pc, metric, lock, since, up, half>>

Tick ==
    /\ since < Interval
    /\ since' = since + 1
    /\ UNCHANGED <<protocol, pc, metric, lock, sock, up, half>>

Step(t) ==
    \/ Enter(t) \/ InUse(t) \/ TooSoon(t) \/ LongAgo(t) \/ Attempt(t) \/ Connect(t)
    \/ ConnectFails(t) \/ Drop(t) \/ Build(t) \/ Built(t) \/ Lock(t) \/ SendTo(t) \/ Send(t)
    \/ SendRest(t) \/ SocketError(t) \/ NoSocket(t) \/ Unlock(t)

Next ==
    \/ \E t \in Threads : Step(t) \/ \E m \in BOOLEAN : Write(t, m)
    \/ Down \/ Up \/ Reset \/ Tick

Spec == Init /\ [][Next]_vars

\* Threads run, time passes, a lost connection is noticed, and collectd goes on to
\* have something to write that its types.db describes.
FairSpec ==
    /\ Spec
    /\ \A t \in Threads : WF_vars(Step(t))
    /\ SF_vars(\E t \in Threads : Write(t, TRUE))
    /\ WF_vars(Reset) /\ WF_vars(Tick)

-----------------------------------------------------------------------------
(* Properties                                                               *)

\* What the server gets on a connection are whole messages: the one that is half there
\* is completed, by its own thread, before another begins, or the connection is lost
\* (sendall gives the interpreter up between its sends).
LinesIntact == [][half # NoThread => half' \in {half, NoThread}]_vars

\* However many threads find no connection, attempts begin Interval apart (line 151): a
\* server that is down is not flooded. Those that come while one thread is in connect()
\* wait for it at the lock, but do not try in their turn.
AttemptsSpaced == [][since' < since => since = Interval]_vars

\* No way through kairosdb_write keeps the lock: neither the returns of its first part, nor
\* the two exception handlers around the sends, of a stream or of a datagram.
LockReleased == \A t \in Threads : lock = t ~> lock # t

\* Once the server stays, the writer comes to be connected and stays so, whatever state
\* its socket was left in: that of a refused connection, of a lost one, or none.
EventuallyConnected == <>[]up => (protocol = "tcp" => <>[](sock = "open"))
=============================================================================
