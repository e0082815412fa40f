------------------------------ MODULE Plumgrid ------------------------------
(***************************************************************************)
(* The Neutron plugin for PLUMgrid (plumgrid_plugin.py): every request of  *)
(* Neutron's API that changes something goes to Neutron's database and to  *)
(* the PLUMgrid Director.  Most methods call the Director inside of the    *)
(* database transaction, floating ips and the deletion of rules have none; *)
(* the methods for ports hold a lock that all API workers share.           *)
(*                                                                         *)
(* A method is the sequence of its steps; the database and the Director    *)
(* are modelled by what the plugin relies on.  One tenant.                 *)
(***************************************************************************)
EXTENDS SubnetPools, Sequences, FiniteSets

CONSTANTS
    Requests,    \* workers of the Neutron API
    Ids,         \* objects; an id is used once
    Kind,        \* Kind[i]: what i is an id of
    Parents,     \* Parents[i]: the objects i belongs to
    Layouts,     \* the objects that are there at first, and the ids left to use
    Versions,    \* what an object looks like, floating ips aside
    Free,        \* a floating ip without a port
    Cidrs,       \* networks of subnets, as their first and last addresses
    MaxFaults,   \* bound on failing calls, failing commits and crashes
    NoId, NoRequest, NoPlan, Unknown

Kinds == {"network", "subnet", "port", "router", "interface", "floatingip", "group", "default", "rule"}
Ports == {i \in Ids : Kind[i] = "port"}
Values == Versions \union Ports \union {Free}
ValuesOf(i) == IF Kind[i] = "floatingip" THEN Ports \union {Free} ELSE Versions
Row == Values \union {"none", "gone"}

ASSUME KindAssumption == Kind \in [Ids -> Kinds]
ASSUME ParentsAssumption ==
    /\ Parents \in [Ids -> SUBSET Ids]
    /\ \A i, j \in Ids : j \in Parents[i] => i # j /\ Kind[j] \notin {"floatingip", "rule"}
    /\ \A i \in Ids : Kind[i] = "default" => Parents[i] = {}
ASSUME LayoutsAssumption ==
    /\ Layouts \subseteq [made : SUBSET Ids, fresh : SUBSET Ids]
    /\ \A l \in Layouts :
          /\ l.made \intersect l.fresh = {}
          /\ \A i \in l.made : Parents[i] \subseteq l.made
          /\ \A i \in l.made : Kind[i] # "floatingip"
ASSUME ValuesAssumption ==
    /\ Free \notin Ids \union Versions
    /\ Versions \intersect (Ids \union {"none", "gone", "same"}) = {}
    /\ {"none", "gone", "same", Free} \intersect Ids = {}
    /\ Free \notin {"none", "gone", "same"}
ASSUME MarkersAssumption ==
    /\ NoId \notin Ids /\ NoRequest \notin Requests
    /\ Unknown \notin Row
ASSUME CidrsAssumption == Cidrs \subseteq Int \X Int
ASSUME FaultsAssumption == MaxFaults \in Nat

-----------------------------------------------------------------------------
(* The methods of the plugin                                                *)

\* op: what becomes of the object; on: its kinds; tx: whether the steps are those of
\* a transaction, with what precedes it and the commit.
Transaction(op, on, steps) == [op |-> op, on |-> on, tx |-> TRUE, steps |-> steps]
Plain(op, on, steps) == [op |-> op, on |-> on, tx |-> FALSE, steps |-> steps]

CreateNetwork == Transaction("create", {"network"}, <<"write", "ensure", "announce", "tell", "commit">>)

\* mutant: the Director is told when the transaction is over
UpdateNetworkLate == Transaction("update", {"network"}, <<"write", "commit", "tell">>)

UpdateNetwork == Transaction("update", {"network"}, <<"write", "tell", "commit">>)

\* mutant: the Director is told first
DeleteNetworkEarly == Transaction("delete", {"network"}, <<"find", "tell", "write", "commit">>)

DeleteNetwork == Transaction("delete", {"network"}, <<"find", "write", "tell", "commit">>)

CreatePort == Transaction("create", {"port"}, <<"lock", "write", "ensure", "announce", "tell", "commit">>)
UpdatePort == Transaction("update", {"port"}, <<"lock", "write", "tell", "commit">>)
DeletePort == Transaction("delete", {"port"},
                          <<"lock", "look", "unhook", "clear", "write", "tell", "commit">>)

CreateSubnet == Transaction("create", {"subnet"}, <<"settle", "write", "tell", "commit">>)
UpdateSubnet == Transaction("update", {"subnet"}, <<"find", "write", "tell", "commit">>)
DeleteSubnet == Transaction("delete", {"subnet"}, <<"find", "write", "tell", "commit">>)

CreateRouter == Transaction("create", {"router"}, <<"write", "tell", "commit">>)
UpdateRouter == Transaction("update", {"router"}, <<"write", "tell", "commit">>)
DeleteRouter == Transaction("delete", {"router"}, <<"write", "tell", "commit">>)
AddRouterInterface == Transaction("create", {"interface"}, <<"write", "tell", "commit">>)
RemoveRouterInterface == Transaction("delete", {"interface"}, <<"write", "tell", "commit">>)

CreateFloatingip == Plain("create", {"floatingip"}, <<"write", "tell">>)
UpdateFloatingip == Plain("update", {"floatingip"}, <<"find", "write", "tell">>)
DeleteFloatingip == Plain("delete", {"floatingip"}, <<"find", "tell", "write">>)
\* disassociate_floatingips where update_floatingip calls it for the port asked for.
DisassociateFloatingips == Plain("free", {"floatingip"}, <<"look", "unhook", "clear">>)

CreateSecurityGroup == Transaction("create", {"group"}, <<"ensure", "announce", "write", "tell", "commit">>)
UpdateSecurityGroup == Transaction("update", {"group", "default"}, <<"write", "tell", "commit">>)
DeleteSecurityGroup == Transaction("delete", {"group", "default"}, <<"write", "tell", "commit">>)
CreateSecurityGroupRule == Transaction("create", {"rule"}, <<"write", "tell", "commit">>)
DeleteSecurityGroupRule == Plain("delete", {"rule"}, <<"find", "write", "tell">>)

Methods == {CreateNetwork, UpdateNetwork, DeleteNetwork, CreatePort, UpdatePort, DeletePort,
            CreateSubnet, UpdateSubnet, DeleteSubnet, CreateRouter, UpdateRouter, DeleteRouter,
            AddRouterInterface, RemoveRouterInterface,
            CreateFloatingip, UpdateFloatingip, DeleteFloatingip,
            CreateSecurityGroup, UpdateSecurityGroup, DeleteSecurityGroup,
            CreateSecurityGroupRule, DeleteSecurityGroupRule}

-----------------------------------------------------------------------------
VARIABLES
    db,         \* the rows Neutron has committed
    pending,    \* what the transaction of each request has written
    director,   \* the Director's objects, as far as its answers tell
    method,     \* the method each request is in
    at,         \* the step it is at, 0 when idle
    id,         \* its object
    value,      \* what the object shall look like
    found,      \* the floating ip or the default group it came across
    plan,       \* gateway and pools of the subnet it creates
    lock,       \* the request that holds the lock "plumlib"
    fresh,      \* ids not used yet
    faults,
    astray,     \* history: objects that a failure left different in the two places
    behind,     \* history: objects whose last change the Director was not told, or
                \* did not take
    crossed     \* history: two requests about floating ips were under way at once

stores == <<db, pending, director>>
request == <<method, at, id, value, found, plan>>
history == <<astray, behind, crossed>>
vars == <<stores, request, lock, fresh, faults, history>>

Nothing == [i \in Ids |-> "same"]

TypeOK ==
    /\ db \in [Ids -> Row]
    /\ pending \in [Requests -> [Ids -> Row \union {"same"}]]
    /\ director \in [Ids -> Row]
    /\ method \in [Requests -> Methods \union {DisassociateFloatingips}]
    /\ at \in [Requests -> Nat]
    /\ \A q \in Requests : at[q] <= Len(method[q].steps)
    /\ id \in [Requests -> Ids \union {NoId}]
    /\ value \in [Requests -> Values]
    /\ found \in [Requests -> Ids \union {NoId}]
    /\ lock \in Requests \union {NoRequest}
    /\ fresh \in SUBSET Ids
    /\ faults \in 0..MaxFaults
    /\ astray \in SUBSET Ids
    /\ behind \in SUBSET Ids
    /\ crossed \in BOOLEAN

Init ==
    /\ \E l \in Layouts, v \in Versions :
          /\ db = [i \in Ids |-> IF i \in l.made THEN v ELSE "none"]
          /\ fresh = l.fresh
    /\ director = db
    /\ pending = [q \in Requests |-> Nothing]
    /\ method = [q \in Requests |-> CreateNetwork]
    /\ at = [q \in Requests |-> 0]
    /\ id = [q \in Requests |-> NoId]
    /\ value = [q \in Requests |-> Free]
    /\ found = [q \in Requests |-> NoId]
    /\ lock = NoRequest
    /\ plan = [q \in Requests |-> NoPlan]
    /\ faults = 0
    /\ astray = {}
    /\ behind = {}
    /\ crossed = FALSE

-----------------------------------------------------------------------------
(* Sessions and their end                                                   *)

Step(q) == IF at[q] = 0 THEN "idle" ELSE method[q].steps[at[q]]

\* A session sees what is committed and what it has written.
Sees(q, i) == IF pending[q][i] = "same" THEN db[i] ELSE pending[q][i]
Exists(q, i) == Sees(q, i) \in Values

\* No other transaction holds the row.
Unlocked(q, i) == \A p \in Requests \ {q} : pending[p][i] = "same"

Put(q, S, v) ==
    IF method[q].tx
    THEN /\ pending' = [pending EXCEPT ![q] = [i \in Ids |-> IF i \in S THEN v ELSE @[i]]]
         /\ UNCHANGED db
    ELSE /\ db' = [i \in Ids |-> IF i \in S THEN v ELSE db[i]]
         /\ UNCHANGED pending

\* The request is answered; the decorator of the port methods releases the lock.
End(q) ==
    /\ method' = [method EXCEPT ![q] = CreateNetwork]
    /\ at' = [at EXCEPT ![q] = 0]
    /\ id' = [id EXCEPT ![q] = NoId]
    /\ value' = [value EXCEPT ![q] = Free]
    /\ found' = [found EXCEPT ![q] = NoId]
    /\ plan' = [plan EXCEPT ![q] = NoPlan]
    /\ lock' = IF lock = q THEN NoRequest ELSE lock

\* mutant: the end of a method is missed
AdvancePast(q, o) ==
    IF at[q] > Len(method[q].steps) THEN End(q)
    ELSE /\ at' = [at EXCEPT ![q] = @ + 1]
         /\ found' = [found EXCEPT ![q] = o]
         /\ UNCHANGED <<method, id, value, plan, lock>>

Advance(q, o) ==
    IF at[q] = Len(method[q].steps) THEN End(q)
    ELSE /\ at' = [at EXCEPT ![q] = @ + 1]
         /\ found' = [found EXCEPT ![q] = o]
         /\ UNCHANGED <<method, id, value, plan, lock>>

Absent == {"none", "gone"}
Alike(x, y) == x = y \/ (x \in Absent /\ y \in Absent)
Near(late, i, x, y) == Alike(x, y) \/ (i \in late /\ x \in Values /\ y \in Values)

\* What a request is about.
Touched(q) == {i \in Ids : i = id[q] \/ i = found[q] \/ pending[q][i] # "same"}

\* An exception leaves the method: what it has written is rolled back, what it has
\* told the Director is not.
Leave(q) ==
    /\ pending' = [pending EXCEPT ![q] = Nothing]
    /\ End(q)
    /\ astray' = astray \union {i \in Touched(q) : ~ Near(behind, i, db'[i], director'[i])}
    /\ UNCHANGED behind

\* An except clause goes on with another method.
GoOnWith(q, m) ==
    /\ method' = [method EXCEPT ![q] = m]
    /\ at' = [at EXCEPT ![q] = 1]
    /\ found' = [found EXCEPT ![q] = NoId]
    /\ UNCHANGED <<pending, id, value, plan, lock, astray, behind>>

Raise(q) ==
    CASE method[q] = CreateFloatingip /\ Step(q) = "tell" -> GoOnWith(q, DeleteFloatingip)
      [] method[q] = UpdateFloatingip /\ value[q] \in Ports -> GoOnWith(q, DisassociateFloatingips)
      [] OTHER -> Leave(q)

Fault == faults < MaxFaults /\ faults' = faults + 1

-----------------------------------------------------------------------------
(* The steps                                                                *)

AboutFloatingips(m) == "floatingip" \in m.on \/ m = DeletePort

\* A request comes in; what it names was made by an earlier one.
Start(q, m, i, v) ==
    /\ at[q] = 0
    /\ Kind[i] \in m.on
    /\ IF m.op = "create" THEN i \in fresh ELSE db[i] # "none"
    /\ v \in IF m.op = "delete" THEN {Free} ELSE ValuesOf(i)
    /\ method' = [method EXCEPT ![q] = m]
    /\ at' = [at EXCEPT ![q] = 1]
    /\ id' = [id EXCEPT ![q] = i]
    /\ value' = [value EXCEPT ![q] = v]
    /\ fresh' = fresh \ {i}
    /\ crossed' = \/ crossed
                  \/ /\ AboutFloatingips(m)
                     /\ \E p \in Requests : at[p] # 0 /\ AboutFloatingips(method[p])
    /\ UNCHANGED <<stores, found, plan, lock, faults, astray, behind>>

\* get_port and get_ports change nothing, and may come in whatever else happens: the
\* system stands still only where every request waits for another one.
GetPorts(q) == at[q] = 0 /\ UNCHANGED vars

\* @utils.synchronized('plumlib', external=True)
Lock(q) ==
    /\ Step(q) = "lock"
    /\ lock = NoRequest
    /\ lock' = q
    /\ at' = [at EXCEPT ![q] = @ + 1]
    /\ UNCHANGED <<stores, method, id, value, found, plan, fresh, faults, history>>

\* What is read before the transaction begins.
Find(q) ==
    /\ Step(q) = "find"
    /\ db[id[q]] \in Values
    /\ Advance(q, found[q])
    /\ UNCHANGED <<stores, fresh, faults, history>>

\* The floating ip of the port that is deleted, or was asked for.
PortOf(q) == IF method[q] = DeletePort THEN id[q] ELSE value[q]

\* An object is gone with its rules.
Rules(i) == {j \in Ids : Kind[j] = "rule" /\ i \in Parents[j]}
Written(q) ==
    IF method[q].op = "delete"
    THEN {id[q]} \union {j \in Rules(id[q]) : Exists(q, j)}
    ELSE {id[q]}
Becomes(q) == IF method[q].op = "delete" THEN "gone" ELSE value[q]

FloatingipsAt(q, p) == {f \in Ids : Kind[f] = "floatingip" /\ Sees(q, f) = p}

Look(q) ==
    /\ Step(q) = "look"
    /\ method[q] = DeletePort => Exists(q, id[q])
    /\ LET there == FloatingipsAt(q, PortOf(q))
       IN  \E f \in there \union {NoId} : (f = NoId <=> there = {}) /\ Advance(q, f)
    /\ UNCHANGED <<stores, fresh, faults, history>>

Clear(q) ==
    /\ Step(q) = "clear"
    /\ \A f \in FloatingipsAt(q, PortOf(q)) : Unlocked(q, f)
    /\ Put(q, FloatingipsAt(q, PortOf(q)), Free)
    /\ Advance(q, found[q])
    /\ UNCHANGED <<director, fresh, faults, history>>

\* What Neutron's own methods ask for, by rows and foreign keys: the objects it belongs
\* to are there, none that belongs to it is, one floating ip per port.
MayCreate(q, i) == \A j \in Parents[i] : Exists(q, j) /\ Unlocked(q, j)

MayDelete(q, i) ==
    /\ \A j \in Ids : i \in Parents[j] =>
          /\ Unlocked(q, j)
          /\ j \notin Rules(i) => ~ Exists(q, j)
    /\ FloatingipsAt(q, i) = {}

MayAssociate(q, i, p) ==
    p \in Ports => /\ Exists(q, p) /\ Unlocked(q, p)
                   /\ FloatingipsAt(q, p) \subseteq {i}

MayWrite(q, i) ==
    /\ \A j \in Written(q) : Unlocked(q, j)
    /\ method[q].op = "create" => MayCreate(q, i)
    /\ method[q].op # "create" => Exists(q, i)
    /\ method[q].op = "delete" => MayDelete(q, i)
    /\ Kind[i] = "floatingip" /\ method[q].op # "delete" => MayAssociate(q, i, value[q])

\* create_subnet: the gateway and the pools the request does not name.
Settle(q) ==
    /\ Step(q) = "settle"
    /\ \E c \in Cidrs : \E g \in (c[1] + 1)..c[2] \union {Unspecified, NoGateway} :
           plan' = [plan EXCEPT ![q] = Subnet(c[1], c[2], g)]
    /\ at' = [at EXCEPT ![q] = @ + 1]
    /\ UNCHANGED <<stores, method, id, value, found, lock, fresh, faults, history>>

Write(q) ==
    /\ Step(q) = "write"
    /\ MayWrite(q, id[q])
    /\ Put(q, Written(q), Becomes(q))
    /\ Advance(q, found[q])
    /\ UNCHANGED <<director, fresh, faults, history>>

\* _ensure_default_security_group: create_security_group with default_sg.
Ensure(q) ==
    /\ Step(q) = "ensure"
    /\ IF \E g \in Ids : Kind[g] = "default" /\ Exists(q, g)
       THEN Advance(q, NoId) /\ UNCHANGED <<db, pending, fresh>>
       ELSE \E g \in fresh, v \in Versions :
                /\ Kind[g] = "default"
                /\ Put(q, {g}, v)
                /\ Advance(q, g)
                /\ fresh' = fresh \ {g}
    /\ UNCHANGED <<director, faults, history>>

\* NotFound, in use, already associated, over quota, no valid request.
Refused(q) ==
    /\ \/ Step(q) \in {"settle", "write", "ensure", "clear"}
       \/ Step(q) = "look" /\ method[q] = DeletePort
       \/ Step(q) = "find" /\ db[id[q]] \notin Values
    /\ UNCHANGED <<db, director>>
    /\ Raise(q)
    /\ UNCHANGED <<fresh, faults, crossed>>

-----------------------------------------------------------------------------
(* Calls of the Director                                                    *)

Subject(q) == IF Step(q) = "tell" THEN id[q] ELSE found[q]

ToldValue(q) ==
    CASE Step(q) = "unhook" -> Free
      [] Step(q) = "announce" -> Sees(q, found[q])
      [] Step(q) = "tell" -> Becomes(q)

Calling(q) == Step(q) \in {"unhook", "announce", "tell"}

\* No floating ip, or a default group that is there already.
Needless(q) == Subject(q) = NoId

\* The Director is not told that a group changes unless the request gives it a name, and
\* never of a group that is then called default; of a subnet it is told, but "does not
\* support updating resources yet" (the comment in update_subnet).
LeftBehind(q) == method[q] \in {UpdateSecurityGroup, UpdateSubnet}
Unnamed(q) == method[q] = UpdateSecurityGroup /\ Kind[id[q]] = "default"

Skip(q) ==
    /\ Calling(q)
    /\ IF Needless(q)
       THEN UNCHANGED behind
       ELSE LeftBehind(q) /\ behind' = behind \union {Subject(q)}
    /\ Advance(q, found[q])
    /\ UNCHANGED <<stores, fresh, faults, astray, crossed>>

Told(i, v) ==
    [j \in Ids |->
        IF j = i \/ (v = "gone" /\ j \in Rules(i) /\ director[j] \in Values)
        THEN v ELSE director[j]]

\* It makes what it has not, changes what it has, and deletes what it may not have.
Possible(q, i, v) ==
    IF Step(q) = "announce" \/ method[q].op = "create" THEN director[i] = "none"
    ELSE v = "gone" \/ director[i] \in Values

Call(q) ==
    /\ Calling(q)
    /\ ~ Needless(q) /\ ~ Unnamed(q)
    /\ Possible(q, Subject(q), ToldValue(q))
    /\ director' = Told(Subject(q), ToldValue(q))
    /\ behind' = behind \ {Subject(q)}
    /\ Advance(q, found[q])
    /\ UNCHANGED <<db, pending, fresh, faults, astray, crossed>>

\* It raises, before or after it has done what was asked for.
CallRaises(q) ==
    /\ Calling(q)
    /\ ~ Needless(q) /\ ~ Unnamed(q)
    /\ IF Possible(q, Subject(q), ToldValue(q))
       THEN Fault /\ director' \in {director, Told(Subject(q), ToldValue(q))}
       ELSE UNCHANGED <<faults, director>>
    /\ UNCHANGED db
    /\ Raise(q)
    /\ UNCHANGED <<fresh, crossed>>

-----------------------------------------------------------------------------
(* The end of the transaction                                               *)

Session(q) == [i \in Ids |-> Sees(q, i)]

Commit(q) ==
    /\ Step(q) = "commit"
    /\ db' = Session(q)
    /\ pending' = [pending EXCEPT ![q] = Nothing]
    /\ Advance(q, found[q])
    /\ UNCHANGED <<director, fresh, faults, history>>

\* It fails, or its answer is lost.
CommitFails(q) ==
    /\ Step(q) = "commit"
    /\ Fault
    /\ db' \in {db, Session(q)}
    /\ UNCHANGED director
    /\ Leave(q)
    /\ UNCHANGED <<fresh, crossed>>

\* The worker dies.
Crash(q) ==
    /\ at[q] # 0
    /\ Fault
    /\ UNCHANGED <<db, director>>
    /\ Leave(q)
    /\ UNCHANGED <<fresh, crossed>>

-----------------------------------------------------------------------------
RequestStep(q) ==
    \/ Lock(q) \/ Find(q) \/ Look(q) \/ Clear(q) \/ Settle(q) \/ Write(q) \/ Ensure(q) \/ Refused(q)
    \/ Skip(q) \/ Call(q) \/ CallRaises(q)
    \/ Commit(q) \/ CommitFails(q) \/ Crash(q)

Next ==
    \E q \in Requests :
        \/ \E m \in Methods, i \in Ids, v \in Values : Start(q, m, i, v)
        \/ GetPorts(q)
        \/ RequestStep(q)

Spec == Init /\ [][Next]_vars

-----------------------------------------------------------------------------
(* Properties                                                               *)

\* Neutron and the Director have the same objects, alike, but for what a request is
\* still about and what an exception, a lost commit or a crash has left different:
\* concurrent requests alone do not part the two, since the Director is called while
\* the rows are locked.  For floating ips, which have no transaction, only as long as
\* requests about them come one at a time.  A group or a subnet is in both, but may look
\* different, when its last change did not get through (behind): the next that does
\* makes it alike again.
Agree ==
    \A i \in Ids \ astray :
        \/ \E q \in Requests : i \in Touched(q)
        \/ Kind[i] = "floatingip" /\ crossed
        \/ Near(behind, i, db[i], director[i])

\* The Director, too, gets every object after those it belongs to and loses it before
\* them, in whatever order the requests come, and gets no object twice: what it knows
\* for certain is a Fabric (the calls inside of the transactions).
Certain == [i \in Ids |-> IF i \in astray THEN Unknown ELSE director[i]]

AtDirector == INSTANCE Fabric WITH net <- Certain
DirectorIsFabric == AtDirector!FabricSpec

\* A subnet is handed to Neutron with the pools it should have.
PoolsSound == \A q \in Requests : plan[q] # NoPlan => Sound(plan[q])
=============================================================================
