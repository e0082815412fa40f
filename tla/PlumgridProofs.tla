--------------------------- MODULE PlumgridProofs ---------------------------
(***************************************************************************)
(* Theorems about Plumgrid, for any objects, requests and methods at work: *)
(* its types, the pools a subnet is handed to Neutron with, that what the  *)
(* Director goes through is what a Fabric may go through, and that the     *)
(* Director has what Neutron's database has.                               *)
(*                                                                         *)
(* The last two are the long ones. A row that a transaction has written is *)
(* its own until the commit (LocalInv), so for objects with transactions   *)
(* the Director has what the database has until the owner has told it, and *)
(* then what the owner has written (FollowInv); where the Director is not  *)
(* told of a change, both have the object at least, since what changes was *)
(* there before (HeldInv). Floating ips only follow the order of their     *)
(* calls (FloatInv). What the Director has thus has everything it belongs  *)
(* to beside it (Rooting).                                                 *)
(*                                                                         *)
(* For Agree, a rule is followed too, or is gone in the database while the *)
(* request that deletes it is still to tell the Director (RuleInv,         *)
(* UnbornInv); and for floating ips, as long as the requests about them    *)
(* come one at a time (OneInv), what the one request knows at each of its  *)
(* steps says what is still to be evened out (InHand).                     *)
(***************************************************************************)
EXTENDS Plumgrid, TLAPS

AllMethods == Methods \union {DisassociateFloatingips}

\* What the proofs need to know of the sequences of steps.
WellFormed(m) ==
    /\ Len(m.steps) \in Nat \ {0} /\ m.tx \in BOOLEAN
    /\ m.op \in {"create", "update", "delete", "free"}
    /\ \A k \in 1..Len(m.steps) :
          /\ m.steps[k] # "idle"
          /\ m.steps[k] = "commit" <=> m.tx /\ k = Len(m.steps)
          /\ m.steps[k] \in {"lock", "settle"} => k < Len(m.steps)
          /\ m.tx /\ m.steps[k] = "tell" => k = Len(m.steps) - 1
          /\ m.steps[k] = "ensure" => m.tx /\ m.op = "create" /\ m.steps[k + 1] = "announce"
          /\ m.steps[k] \in {"look", "unhook", "clear"} => m \in {DeletePort, DisassociateFloatingips}
          /\ m.steps[k] = "announce" => k > 1 /\ m.steps[k - 1] = "ensure"
    /\ \A j, k \in 1..Len(m.steps) :
          /\ m.steps[j] = m.steps[k] => j = k
          /\ m.steps[j] = "ensure" /\ m.steps[k] = "tell" => j + 1 < k
          /\ m.tx /\ m.steps[j] = "write" /\ m.steps[k] = "tell" => j < k
    /\ m.tx => /\ \E j \in 1..Len(m.steps) : m.steps[j] = "write"
               /\ \E j \in 1..Len(m.steps) : m.steps[j] = "tell"
    /\ m.tx => "floatingip" \notin m.on
    /\ m.op = "create" => "default" \notin m.on
    /\ "rule" \in m.on => m.op # "update"

LEMMA MethodsWellFormed == \A m \in AllMethods : WellFormed(m)
<1>1. WellFormed(CreateNetwork)
  <2>1. Len(CreateNetwork.steps) = 5
    BY DEF CreateNetwork, Transaction
  <2> QED
    BY <2>1 DEF CreateNetwork, Transaction, WellFormed
<1>2. WellFormed(UpdateNetwork)
  <2>1. Len(UpdateNetwork.steps) = 3
    BY DEF UpdateNetwork, Transaction
  <2> QED
    BY <2>1 DEF UpdateNetwork, Transaction, WellFormed
<1>3. WellFormed(DeleteNetwork)
  <2>1. Len(DeleteNetwork.steps) = 4
    BY DEF DeleteNetwork, Transaction
  <2> QED
    BY <2>1 DEF DeleteNetwork, Transaction, WellFormed
<1>4. WellFormed(CreatePort)
  <2>1. Len(CreatePort.steps) = 6
    BY DEF CreatePort, Transaction
  <2> QED
    BY <2>1 DEF CreatePort, Transaction, WellFormed
<1>5. WellFormed(UpdatePort)
  <2>1. Len(UpdatePort.steps) = 4
    BY DEF UpdatePort, Transaction
  <2> QED
    BY <2>1 DEF UpdatePort, Transaction, WellFormed
<1>6. WellFormed(DeletePort)
  <2>1. Len(DeletePort.steps) = 7
    BY DEF DeletePort, Transaction
  <2> QED
    BY <2>1 DEF DeletePort, Transaction, WellFormed
<1>7. WellFormed(CreateSubnet)
  <2>1. Len(CreateSubnet.steps) = 4
    BY DEF CreateSubnet, Transaction
  <2> QED
    BY <2>1 DEF CreateSubnet, Transaction, WellFormed
<1>8. WellFormed(UpdateSubnet)
  <2>1. Len(UpdateSubnet.steps) = 4
    BY DEF UpdateSubnet, Transaction
  <2> QED
    BY <2>1 DEF UpdateSubnet, Transaction, WellFormed
<1>9. WellFormed(DeleteSubnet)
  <2>1. Len(DeleteSubnet.steps) = 4
    BY DEF DeleteSubnet, Transaction
  <2> QED
    BY <2>1 DEF DeleteSubnet, Transaction, WellFormed
<1>10. WellFormed(CreateRouter)
  <2>1. Len(CreateRouter.steps) = 3
    BY DEF CreateRouter, Transaction
  <2> QED
    BY <2>1 DEF CreateRouter, Transaction, WellFormed
<1>11. WellFormed(UpdateRouter)
  <2>1. Len(UpdateRouter.steps) = 3
    BY DEF UpdateRouter, Transaction
  <2> QED
    BY <2>1 DEF UpdateRouter, Transaction, WellFormed
<1>12. WellFormed(DeleteRouter)
  <2>1. Len(DeleteRouter.steps) = 3
    BY DEF DeleteRouter, Transaction
  <2> QED
    BY <2>1 DEF DeleteRouter, Transaction, WellFormed
<1>13. WellFormed(AddRouterInterface)
  <2>1. Len(AddRouterInterface.steps) = 3
    BY DEF AddRouterInterface, Transaction
  <2> QED
    BY <2>1 DEF AddRouterInterface, Transaction, WellFormed
<1>14. WellFormed(RemoveRouterInterface)
  <2>1. Len(RemoveRouterInterface.steps) = 3
    BY DEF RemoveRouterInterface, Transaction
  <2> QED
    BY <2>1 DEF RemoveRouterInterface, Transaction, WellFormed
<1>15. WellFormed(CreateFloatingip)
  <2>1. Len(CreateFloatingip.steps) = 2
    BY DEF CreateFloatingip, Plain
  <2> QED
    BY <2>1 DEF CreateFloatingip, Plain, WellFormed
<1>16. WellFormed(UpdateFloatingip)
  <2>1. Len(UpdateFloatingip.steps) = 3
    BY DEF UpdateFloatingip, Plain
  <2> QED
    BY <2>1 DEF UpdateFloatingip, Plain, WellFormed
<1>17. WellFormed(DeleteFloatingip)
  <2>1. Len(DeleteFloatingip.steps) = 3
    BY DEF DeleteFloatingip, Plain
  <2> QED
    BY <2>1 DEF DeleteFloatingip, Plain, WellFormed
<1>18. WellFormed(CreateSecurityGroup)
  <2>1. Len(CreateSecurityGroup.steps) = 5
    BY DEF CreateSecurityGroup, Transaction
  <2> QED
    BY <2>1 DEF CreateSecurityGroup, Transaction, WellFormed
<1>19. WellFormed(UpdateSecurityGroup)
  <2>1. Len(UpdateSecurityGroup.steps) = 3
    BY DEF UpdateSecurityGroup, Transaction
  <2> QED
    BY <2>1 DEF UpdateSecurityGroup, Transaction, WellFormed
<1>20. WellFormed(DeleteSecurityGroup)
  <2>1. Len(DeleteSecurityGroup.steps) = 3
    BY DEF DeleteSecurityGroup, Transaction
  <2> QED
    BY <2>1 DEF DeleteSecurityGroup, Transaction, WellFormed
<1>21. WellFormed(CreateSecurityGroupRule)
  <2>1. Len(CreateSecurityGroupRule.steps) = 3
    BY DEF CreateSecurityGroupRule, Transaction
  <2> QED
    BY <2>1 DEF CreateSecurityGroupRule, Transaction, WellFormed
<1>22. WellFormed(DeleteSecurityGroupRule)
  <2>1. Len(DeleteSecurityGroupRule.steps) = 3
    BY DEF DeleteSecurityGroupRule, Plain
  <2> QED
    BY <2>1 DEF DeleteSecurityGroupRule, Plain, WellFormed
<1>23. WellFormed(DisassociateFloatingips)
  <2>1. Len(DisassociateFloatingips.steps) = 3
    BY DEF DisassociateFloatingips, Plain
  <2> QED
    BY <2>1 DEF DisassociateFloatingips, Plain, WellFormed
<1> QED
  BY <1>1, <1>2, <1>3, <1>4, <1>5, <1>6, <1>7, <1>8, <1>9, <1>10, <1>11, <1>12, <1>13, <1>14, <1>15, <1>16, <1>17, <1>18, <1>19, <1>20, <1>21, <1>22, <1>23 DEF AllMethods, Methods

-----------------------------------------------------------------------------
(* Type correctness                                                         *)

Asked == Int \X Int \X (Int \union {Unspecified, NoGateway})
Plans == {NoPlan} \union {Subnet(a[1], a[2], a[3]) : a \in Asked}

\* The place of every request, and what it has at hand.
LocalOK ==
    /\ method \in [Requests -> AllMethods]
    /\ at \in [Requests -> Nat]
    /\ \A q \in Requests : at[q] <= Len(method[q].steps)
    /\ id \in [Requests -> Ids \union {NoId}]
    /\ value \in [Requests -> Values]
    /\ found \in [Requests -> Ids \union {NoId}]
    /\ lock \in Requests \union {NoRequest}
    /\ plan \in [Requests -> Plans]

StoreOK ==
    /\ db \in [Ids -> Row]
    /\ pending \in [Requests -> [Ids -> Row \union {"same"}]]
    /\ director \in [Ids -> Row]
    /\ fresh \in SUBSET Ids
    /\ faults \in 0..MaxFaults
    /\ astray \in SUBSET Ids
    /\ behind \in SUBSET Ids
    /\ crossed \in BOOLEAN

Typed == LocalOK /\ StoreOK

LEMMA TypedTypeOK == Typed => TypeOK
BY DEF Typed, LocalOK, StoreOK, TypeOK, AllMethods

LEMMA StepKnown ==
    ASSUME LocalOK, NEW q \in Requests, at[q] # 0
    PROVE  /\ at[q] \in 1..Len(method[q].steps)
           /\ Step(q) = method[q].steps[at[q]]
           /\ method[q] \in AllMethods /\ WellFormed(method[q])
<1>1. at[q] \in Nat /\ method[q] \in AllMethods /\ at[q] <= Len(method[q].steps)
  BY DEF LocalOK
<1>2. WellFormed(method[q])
  BY <1>1, MethodsWellFormed
<1>3. Len(method[q].steps) \in Nat
  BY <1>2 DEF WellFormed
<1> QED
  BY <1>1, <1>2, <1>3 DEF Step

LEMMA MethodsKnown == CreateNetwork \in AllMethods /\ DeleteFloatingip \in AllMethods
                      /\ DisassociateFloatingips \in AllMethods /\ Methods \subseteq AllMethods
BY DEF AllMethods, Methods

LEMMA NotIdle == ASSUME NEW q \in Requests, Step(q) # "idle" PROVE at[q] # 0
BY DEF Step

LEMMA EndLocal ==
    ASSUME LocalOK, NEW q \in Requests, End(q)
    PROVE  LocalOK'
<1>1. 0 \in Nat /\ Free \in Values /\ NoPlan \in Plans /\ 0 <= Len(CreateNetwork.steps)
  BY MethodsKnown, MethodsWellFormed DEF WellFormed, Values, Plans
<1> QED
  BY <1>1, MethodsKnown DEF LocalOK, End

LEMMA AdvanceLocal ==
    ASSUME LocalOK, NEW q \in Requests, at[q] # 0, NEW o \in Ids \union {NoId}, Advance(q, o)
    PROVE  LocalOK'
<1>1. CASE at[q] = Len(method[q].steps)
  BY <1>1, EndLocal DEF Advance
<1>2. CASE at[q] # Len(method[q].steps)
  <2>1. at[q] \in 1..Len(method[q].steps) /\ Len(method[q].steps) \in Nat
    BY StepKnown DEF WellFormed
  <2>2. at[q] + 1 \in Nat /\ at[q] + 1 <= Len(method[q].steps)
    BY <1>2, <2>1
  <2>3. /\ at' = [at EXCEPT ![q] = @ + 1] /\ found' = [found EXCEPT ![q] = o]
        /\ UNCHANGED <<method, id, value, plan, lock>>
    BY <1>2 DEF Advance
  <2> HIDE DEF Advance
  <2> QED
    BY <2>2, <2>3 DEF LocalOK
<1> QED
  BY <1>1, <1>2

LEMMA GoOnLocal ==
    ASSUME LocalOK, NEW q \in Requests, NEW m \in AllMethods, GoOnWith(q, m)
    PROVE  LocalOK'
<1>1. 1 \in Nat /\ 1 <= Len(m.steps)
  BY MethodsWellFormed DEF WellFormed
<1> QED
  BY <1>1 DEF LocalOK, GoOnWith

LEMMA RaiseLocal ==
    ASSUME Typed, NEW q \in Requests, Raise(q)
    PROVE  /\ LocalOK'
           /\ pending' \in [Requests -> [Ids -> Row \union {"same"}]]
           /\ astray' \in SUBSET Ids /\ UNCHANGED behind
<1>1. CASE Leave(q)
  <2>1. Nothing \in [Ids -> Row \union {"same"}]
    BY DEF Nothing
  <2> QED
    BY <1>1, <2>1, EndLocal DEF Leave, Typed, StoreOK, Touched
<1>2. ASSUME NEW m \in AllMethods, GoOnWith(q, m) 
      PROVE  LocalOK' /\ UNCHANGED <<pending, astray, behind>>
  BY <1>2, GoOnLocal DEF GoOnWith, Typed
<1> QED
  BY <1>1, <1>2, MethodsKnown DEF Raise, Typed, StoreOK

LEMMA FaultType == ASSUME Typed, Fault PROVE faults' \in 0..MaxFaults
<1>1. faults \in 0..MaxFaults /\ MaxFaults \in Nat /\ faults < MaxFaults /\ faults' = faults + 1
  BY FaultsAssumption DEF Typed, StoreOK, Fault, FaultsAssumption
<1> QED
  BY <1>1

LEMMA PutType ==
    ASSUME Typed, NEW q \in Requests, NEW S, NEW v \in Row, Put(q, S, v)
    PROVE  /\ db' \in [Ids -> Row]
           /\ pending' \in [Requests -> [Ids -> Row \union {"same"}]]
BY DEF Put, Typed, StoreOK

LEMMA BecomesType == ASSUME Typed, NEW q \in Requests PROVE Becomes(q) \in Row /\ Free \in Row
BY DEF Becomes, Typed, LocalOK, Row, Values

LEMMA SeesType == ASSUME Typed, NEW q \in Requests, NEW i \in Ids PROVE Sees(q, i) \in Row
BY DEF Sees, Typed, StoreOK

LEMMA SubjectType ==
    ASSUME Typed, NEW q \in Requests, Calling(q), Subject(q) # NoId
    PROVE  /\ Subject(q) \in Ids
           /\ ToldValue(q) \in Row
           /\ Told(Subject(q), ToldValue(q)) \in [Ids -> Row]
<1>1. Subject(q) \in Ids
  BY DEF Subject, Typed, LocalOK
<1>2. ToldValue(q) \in Row
  <2>1. CASE Step(q) = "unhook"
    BY <2>1, BecomesType DEF ToldValue
  <2>2. CASE Step(q) = "announce"
    BY <1>1, <2>2, SeesType DEF ToldValue, Subject
  <2>3. CASE Step(q) = "tell"
    BY <2>3, BecomesType DEF ToldValue
  <2> QED
    BY <2>1, <2>2, <2>3 DEF Calling
<1>3. Told(Subject(q), ToldValue(q)) \in [Ids -> Row]
  BY <1>2 DEF Told, Typed, StoreOK
<1> QED
  BY <1>1, <1>2, <1>3

LEMMA SessionType == ASSUME Typed, NEW q \in Requests PROVE Session(q) \in [Ids -> Row]
BY SeesType DEF Session

LEMMA TypeInit == Init => Typed
<1> SUFFICES ASSUME Init PROVE Typed
  OBVIOUS
<1>1. LocalOK
  <2>1. 0 \in Nat /\ Free \in Values /\ NoPlan \in Plans /\ 0 <= Len(CreateNetwork.steps)
    BY MethodsKnown, MethodsWellFormed DEF WellFormed, Values, Plans
  <2> QED
    BY <2>1, MethodsKnown DEF LocalOK, Init
<1>2. PICK l \in Layouts, v \in Versions :
         db = [i \in Ids |-> IF i \in l.made THEN v ELSE "none"] /\ fresh = l.fresh
  BY DEF Init
<1>3. l.fresh \in SUBSET Ids
  BY LayoutsAssumption DEF LayoutsAssumption
<1>4. db \in [Ids -> Row]
  BY <1>2 DEF Row, Values
<1>5. Nothing \in [Ids -> Row \union {"same"}]
  BY DEF Nothing
<1>6. faults \in 0..MaxFaults
  BY FaultsAssumption DEF FaultsAssumption, Init
<1> QED
  BY <1>1, <1>2, <1>3, <1>4, <1>5, <1>6 DEF Typed, StoreOK, Init

LEMMA TypeStart ==
    ASSUME Typed, NEW q \in Requests, NEW m \in Methods, NEW i \in Ids, NEW v \in Values,
           Start(q, m, i, v)
    PROVE  Typed'
<1>1. 1 \in Nat /\ 1 <= Len(m.steps) /\ m \in AllMethods
  BY MethodsKnown, MethodsWellFormed DEF WellFormed
<1>2. LocalOK'
  BY <1>1 DEF Start, LocalOK, Typed
<1>3. StoreOK'
  <2>1. crossed' \in BOOLEAN
    BY DEF Start, StoreOK, Typed
  <2> QED
    BY <2>1 DEF Start, StoreOK, Typed, stores
<1> QED
  BY <1>2, <1>3 DEF Typed

LEMMA TypeStep == ASSUME Typed, [Next]_vars PROVE Typed'
<1>1. ASSUME NEW q \in Requests, RequestStep(q) PROVE Typed'
  <2> USE DEF stores, history
  <2>1. CASE Lock(q)
    <3>1. at[q] # 0 /\ Step(q) = "lock"
      BY <2>1, NotIdle DEF Lock
    <3>2. at[q] + 1 \in Nat /\ at[q] + 1 <= Len(method[q].steps)
      BY <3>1, StepKnown DEF WellFormed, Typed
    <3>3. LocalOK'
      BY <2>1, <3>2 DEF Lock, LocalOK, Typed
    <3>4. StoreOK'
      BY <2>1 DEF Lock, StoreOK, Typed
    <3> QED
      BY <3>3, <3>4 DEF Typed
  <2>2. CASE Find(q)
    <3>1. at[q] # 0 /\ found[q] \in Ids \union {NoId}
      BY <2>2, NotIdle DEF Find, Typed, LocalOK
    <3>2. LocalOK'
      BY <2>2, <3>1, AdvanceLocal DEF Find, Typed
    <3> QED
      BY <2>2, <3>2 DEF Find, StoreOK, Typed
  <2>3. CASE Look(q)
    <3>1. PICK f \in FloatingipsAt(q, PortOf(q)) \union {NoId} : Advance(q, f)
      BY <2>3 DEF Look
    <3>2. at[q] # 0 /\ f \in Ids \union {NoId}
      BY <2>3, NotIdle DEF Look, FloatingipsAt
    <3>3. LocalOK'
      BY <3>1, <3>2, AdvanceLocal DEF Typed
    <3> QED
      BY <2>3, <3>3 DEF Look, StoreOK, Typed
  <2>4. CASE Clear(q)
    <3>1. at[q] # 0 /\ found[q] \in Ids \union {NoId} /\ Free \in Row
      BY <2>4, NotIdle, BecomesType DEF Clear, Typed, LocalOK
    <3>2. LocalOK'
      BY <2>4, <3>1, AdvanceLocal DEF Clear, Typed
    <3>3. StoreOK'
      BY <2>4, <3>1, PutType DEF Clear, StoreOK, Typed
    <3> QED
      BY <3>2, <3>3 DEF Typed
  <2>5. CASE Settle(q)
    <3>1. at[q] # 0 /\ Step(q) = "settle"
      BY <2>5, NotIdle DEF Settle
    <3>2. at[q] + 1 \in Nat /\ at[q] + 1 <= Len(method[q].steps)
      BY <3>1, StepKnown DEF WellFormed, Typed
    <3>3. PICK c \in Cidrs : \E g \in (c[1] + 1)..c[2] \union {Unspecified, NoGateway} :
             plan' = [plan EXCEPT ![q] = Subnet(c[1], c[2], g)]
      BY <2>5 DEF Settle
    <3>4. c[1] \in Int /\ c[2] \in Int
      BY CidrsAssumption DEF CidrsAssumption
    <3>5. (c[1] + 1)..c[2] \subseteq Int
      BY <3>4
    <3>6. \E s \in Plans : plan' = [plan EXCEPT ![q] = s]
      <4>1. PICK g \in Int \union {Unspecified, NoGateway} :
               plan' = [plan EXCEPT ![q] = Subnet(c[1], c[2], g)]
        BY <3>3, <3>5
      <4> DEFINE a == <<c[1], c[2], g>>
      <4>2. a \in Asked /\ a[1] = c[1] /\ a[2] = c[2] /\ a[3] = g
        BY <3>4 DEF Asked
      <4> HIDE DEF a
      <4>3. Subnet(c[1], c[2], g) \in Plans
        BY <4>2 DEF Plans
      <4> QED
        BY <4>1, <4>3
    <3>7. LocalOK'
      BY <2>5, <3>2, <3>6 DEF Settle, LocalOK, Typed
    <3> QED
      BY <2>5, <3>7 DEF Settle, StoreOK, Typed
  <2>6. CASE Write(q)
    <3>1. at[q] # 0 /\ found[q] \in Ids \union {NoId} /\ Becomes(q) \in Row
      BY <2>6, NotIdle, BecomesType DEF Write, Typed, LocalOK
    <3>2. LocalOK'
      BY <2>6, <3>1, AdvanceLocal DEF Write, Typed
    <3>3. StoreOK'
      BY <2>6, <3>1, PutType DEF Write, StoreOK, Typed
    <3> QED
      BY <3>2, <3>3 DEF Typed
  <2>7. CASE Ensure(q)
    <3>1. at[q] # 0
      BY <2>7, NotIdle DEF Ensure
    <3>2. CASE Advance(q, NoId) /\ UNCHANGED <<db, pending, fresh>>
      <4>1. LocalOK'
        BY <3>1, <3>2, AdvanceLocal DEF Typed
      <4> QED
        BY <2>7, <3>2, <4>1 DEF Ensure, StoreOK, Typed
    <3>3. ASSUME NEW g \in fresh, NEW v \in Versions, Put(q, {g}, v), Advance(q, g),
                 fresh' = fresh \ {g}
          PROVE  Typed'
      <4>1. g \in Ids /\ v \in Row
        BY DEF Typed, StoreOK, Row, Values
      <4>2. LocalOK'
        BY <3>1, <3>3, <4>1, AdvanceLocal DEF Typed
      <4>3. StoreOK'
        BY <2>7, <3>3, <4>1, PutType DEF Ensure, StoreOK, Typed
      <4> QED
        BY <4>2, <4>3 DEF Typed
    <3> QED
      BY <2>7, <3>2, <3>3 DEF Ensure
  <2>8. CASE Refused(q)
    BY <2>8, RaiseLocal DEF Refused, StoreOK, Typed
  <2>9. CASE Skip(q)
    <3>1. at[q] # 0 /\ found[q] \in Ids \union {NoId}
      BY <2>9, NotIdle DEF Skip, Calling, Typed, LocalOK
    <3>2. LocalOK'
      BY <2>9, <3>1, AdvanceLocal DEF Skip, Typed
    <3>3. behind' \in SUBSET Ids
      <4>1. ~ Needless(q) => Subject(q) \in Ids
        BY <2>9, SubjectType DEF Skip, Needless
      <4> QED
        BY <2>9, <4>1 DEF Skip, StoreOK, Typed
    <3> QED
      BY <2>9, <3>2, <3>3 DEF Skip, stores, StoreOK, Typed
  <2>10. CASE Call(q)
    <3>1. at[q] # 0 /\ found[q] \in Ids \union {NoId}
      BY <2>10, NotIdle DEF Call, Calling, Typed, LocalOK
    <3>2. LocalOK'
      BY <2>10, <3>1, AdvanceLocal DEF Call, Typed
    <3>3. StoreOK'
      BY <2>10, SubjectType DEF Call, Needless, StoreOK, Typed
    <3> QED
      BY <3>2, <3>3 DEF Typed
  <2>11. CASE CallRaises(q)
    <3>1. director' \in [Ids -> Row]
      BY <2>11, SubjectType DEF CallRaises, Needless, StoreOK, Typed
    <3>2. faults' \in 0..MaxFaults
      BY <2>11, FaultType DEF CallRaises, StoreOK, Typed
    <3> QED
      BY <2>11, <3>1, <3>2, RaiseLocal DEF CallRaises, StoreOK, Typed
  <2>12. CASE Commit(q)
    <3>1. at[q] # 0 /\ found[q] \in Ids \union {NoId}
      BY <2>12, NotIdle DEF Commit, Typed, LocalOK
    <3>2. LocalOK'
      BY <2>12, <3>1, AdvanceLocal DEF Commit, Typed
    <3>3. Nothing \in [Ids -> Row \union {"same"}]
      BY DEF Nothing
    <3>4. StoreOK'
      BY <2>12, <3>3, SessionType DEF Commit, StoreOK, Typed
    <3> QED
      BY <3>2, <3>4 DEF Typed
  <2>13. ASSUME Leave(q) PROVE LocalOK' /\ pending' \in [Requests -> [Ids -> Row \union {"same"}]]
                               /\ astray' \in SUBSET Ids /\ UNCHANGED behind
    <3>1. Nothing \in [Ids -> Row \union {"same"}]
      BY DEF Nothing
    <3> QED
      BY <2>13, <3>1, EndLocal DEF Leave, Typed, StoreOK, Touched
  <2>14. CASE CommitFails(q)
    <3>1. db' \in [Ids -> Row]
      BY <2>14, SessionType DEF CommitFails, StoreOK, Typed
    <3>2. faults' \in 0..MaxFaults
      BY <2>14, FaultType DEF CommitFails
    <3> QED
      BY <2>13, <2>14, <3>1, <3>2 DEF CommitFails, StoreOK, Typed
  <2>15. CASE Crash(q)
    <3>1. faults' \in 0..MaxFaults
      BY <2>15, FaultType DEF Crash
    <3> QED
      BY <2>13, <2>15, <3>1 DEF Crash, StoreOK, Typed
  <2> QED
    BY <1>1, <2>1, <2>2, <2>3, <2>4, <2>5, <2>6, <2>7, <2>8, <2>9, <2>10, <2>11, <2>12,
       <2>14, <2>15 DEF RequestStep
<1>2. CASE UNCHANGED vars
  BY <1>2 DEF vars, stores, request, history, Typed, LocalOK, StoreOK
<1>3. ASSUME NEW q \in Requests, GetPorts(q) PROVE Typed'
  BY <1>2, <1>3 DEF GetPorts
<1> QED
  BY <1>1, <1>2, <1>3, TypeStart DEF Next

\* Types, and: no request leaves the sequence of its method's steps.
THEOREM TypeCorrect == Spec => []TypeOK
BY TypeInit, TypeStep, TypedTypeOK, PTL DEF Spec

-----------------------------------------------------------------------------
(* The pools of a subnet                                                    *)

LEMMA SubnetSound ==
    ASSUME NEW first \in Int, NEW last \in Int,
           NEW asked \in Int \union {Unspecified, NoGateway}
    PROVE  Sound(Subnet(first, last, asked))
<1> DEFINE g == Gateway(last, asked)
<1> DEFINE s == Subnet(first, last, asked)
<1>1. /\ s.first = first /\ s.last = last /\ s.gateway = g
      /\ s.pools = Pools(first, last, g)
  BY DEF Subnet
<1>2. g = NoGateway \/ g \in Int
  BY DEF Gateway
<1> HIDE DEF g, s
<1>3. SUFFICES ASSUME g = NoGateway \/ g \in (first + 1)..last
               PROVE  /\ s.pools.before \intersect s.pools.behind = {}
                      /\ s.pools.before \union s.pools.behind = Spare(s)
  BY <1>1 DEF Sound, GatewayInside, s
<1> DEFINE split == Split(first, last, g)
           low == FirstIp(first, g)
<1>4. /\ s.pools.before = IF split > low THEN low..(split - 1) ELSE {}
      /\ s.pools.behind = IF split < last - 1 THEN (split + 1)..(last - 1) ELSE {}
  BY <1>1 DEF Pools
<1>5. Spare(s) = ((first + 1)..(last - 1)) \ {g, IF g = first + 1 THEN first + 2 ELSE first + 1}
  BY <1>1 DEF Spare, Dhcp
<1>6. /\ g = first + 1 => split = (IF first + 2 < last THEN first + 2 ELSE last) /\ low = first + 3
      /\ g # first + 1 /\ g # NoGateway => split = g /\ low = first + 2
      /\ g = NoGateway => split = last /\ low = first + 2
  <2>1. g = NoGateway => ~ DhcpMoves(first, g)
    BY GatewayAssumption DEF GatewayAssumption, DhcpMoves
  <2>2. CASE g = first + 1
    BY <1>2, <1>3, <2>2, GatewayAssumption
       DEF GatewayAssumption, Split, FirstIp, Boundary, DhcpMoves, Least, Most
  <2>3. CASE g # first + 1 /\ g # NoGateway
    BY <1>2, <1>3, <2>3 DEF Split, FirstIp, Boundary, DhcpMoves, Least, Most
  <2>4. CASE g = NoGateway
    BY <2>1, <2>4 DEF Split, FirstIp, Boundary, DhcpMoves, Least, Most
  <2> QED
    BY <2>2, <2>3, <2>4
<1> HIDE DEF g, s, split, low
<1>7. CASE g = first + 1
  BY <1>3, <1>4, <1>5, <1>6, <1>7
<1>8. CASE g # first + 1 /\ g # NoGateway
  BY <1>2, <1>3, <1>4, <1>5, <1>6, <1>8
<1>9. CASE g = NoGateway
  <2>1. g \notin Int
    BY <1>9, GatewayAssumption DEF GatewayAssumption
  <2> QED
    BY <1>4, <1>5, <1>6, <1>9, <2>1
<1> QED
  BY <1>7, <1>8, <1>9

\* create_subnet and _allocate_pools_for_subnet: whatever the network and the gateway,
\* what Neutron is handed are the addresses that are left, each once.
THEOREM PoolsSoundCorrect == Spec => []PoolsSound
<1>1. Typed => PoolsSound
  <2> SUFFICES ASSUME Typed, NEW q \in Requests, plan[q] # NoPlan PROVE Sound(plan[q])
    BY DEF PoolsSound
  <2>0. plan[q] \in Plans
    BY DEF Typed, LocalOK
  <2>1. PICK a \in Asked : plan[q] = Subnet(a[1], a[2], a[3])
    BY <2>0 DEF Plans
  <2>2. a[1] \in Int /\ a[2] \in Int /\ a[3] \in Int \union {Unspecified, NoGateway}
    BY DEF Asked
  <2> QED
    BY <2>1, <2>2, SubnetSound
<1> QED
  BY <1>1, TypeInit, TypeStep, PTL DEF Spec

-----------------------------------------------------------------------------
(* What a request has done                                                  *)

\* The steps behind the one a request is at.
Done(q) == {method[q].steps[k] : k \in 1..(at[q] - 1)}

LEMMA DoneAdvance ==
    ASSUME LocalOK, NEW q \in Requests, at[q] # 0,
           method'[q] = method[q], at'[q] = at[q] + 1
    PROVE  Done(q)' = Done(q) \union {Step(q)}
<1>1. at[q] \in Nat /\ at[q] >= 1 /\ Step(q) = method[q].steps[at[q]]
  BY StepKnown
<1>2. 1..((at[q] + 1) - 1) = 1..(at[q] - 1) \union {at[q]}
  BY <1>1
<1>3. Done(q)' = {method[q].steps[k] : k \in 1..((at[q] + 1) - 1)}
  BY DEF Done
<1> HIDE DEF Done
<1> QED
  BY <1>1, <1>2, <1>3 DEF Done

LEMMA DoneNothing ==
    ASSUME NEW q \in Requests, at[q] = 0 \/ at[q] = 1
    PROVE  Done(q) = {}
<1>1. 1..(at[q] - 1) = {}
  OBVIOUS
<1> QED
  BY <1>1 DEF Done

\* The order of the steps.
LEMMA Order ==
    ASSUME LocalOK, NEW q \in Requests, at[q] # 0
    PROVE  /\ Step(q) \notin Done(q)
           /\ Step(q) = "commit" <=> method[q].tx /\ at[q] = Len(method[q].steps)
           /\ Step(q) = "commit" => {"write", "tell"} \subseteq Done(q)
           /\ Step(q) = "commit" /\ "ensure" \in Done(q) => "announce" \in Done(q)
           /\ method[q].tx /\ Step(q) = "tell" => "write" \in Done(q)
           /\ Step(q) = "tell" /\ "ensure" \in Done(q) => "announce" \in Done(q)
           /\ method[q].tx /\ Step(q) = "write" => "tell" \notin Done(q)
           /\ Step(q) = "ensure" => method[q].tx /\ method[q].op = "create" /\ "announce" \notin Done(q)
           /\ "ensure" \in Done(q) => method[q].tx /\ method[q].op = "create"
           /\ Step(q) = "announce" => "ensure" \in Done(q)
           /\ Step(q) \in {"look", "unhook", "clear"} =>
                 method[q] \in {DeletePort, DisassociateFloatingips}
<1> DEFINE m == method[q]
<1> DEFINE n == Len(m.steps)
<1>1. /\ at[q] \in 1..n /\ n \in Nat /\ Step(q) = m.steps[at[q]] /\ WellFormed(m)
  BY StepKnown DEF WellFormed
<1>2. \A x : x \in Done(q) <=> \E k \in 1..(at[q] - 1) : m.steps[k] = x
  BY DEF Done
<1>3. \A k \in 1..(at[q] - 1) : k \in 1..n /\ k < at[q] /\ k # at[q]
  BY <1>1
<1>4. \A k \in 1..n : k < at[q] => k \in 1..(at[q] - 1)
  BY <1>1
<1> HIDE DEF m, n
\* What WellFormed says of its steps.
<1>5. \A j, k \in 1..n : m.steps[j] = m.steps[k] => j = k
  BY <1>1 DEF WellFormed, n
<1>6. \A k \in 1..n : m.steps[k] = "commit" <=> m.tx /\ k = n
  BY <1>1 DEF WellFormed, n
<1>8. \A k \in 1..n : m.steps[k] = "ensure" => m.tx /\ m.op = "create" /\ m.steps[k + 1] = "announce"
  BY <1>1 DEF WellFormed, n
<1>9. \A k \in 1..n : m.steps[k] = "announce" => k > 1 /\ m.steps[k - 1] = "ensure"
  BY <1>1 DEF WellFormed, n
<1>10. \A j, k \in 1..n :
          /\ m.steps[j] = "ensure" /\ m.steps[k] = "tell" => j + 1 < k
          /\ m.tx /\ m.steps[j] = "write" /\ m.steps[k] = "tell" => j < k
  BY <1>1 DEF WellFormed, n
<1>11. m.tx => /\ \E j \in 1..n : m.steps[j] = "write"
               /\ \E j \in 1..n : m.steps[j] = "tell"
  BY <1>1 DEF WellFormed, n
<1>12. \A k \in 1..n : m.steps[k] \in {"look", "unhook", "clear"} =>
          m \in {DeletePort, DisassociateFloatingips}
  BY <1>1 DEF WellFormed, n
\* What follows for the steps behind.
<1>21. Step(q) \notin Done(q)
  BY <1>1, <1>2, <1>3, <1>5
<1>22. Step(q) = "commit" <=> m.tx /\ at[q] = n
  BY <1>1, <1>6
<1>23. Step(q) = "commit" => {"write", "tell"} \subseteq Done(q)
  <2>1. ASSUME NEW j \in 1..n, m.steps[j] # "commit", Step(q) = "commit" PROVE m.steps[j] \in Done(q)
    <3>1. j # at[q] /\ at[q] = n
      BY <1>1, <1>22, <2>1
    <3>2. j < at[q]
      BY <1>1, <3>1
    <3> QED
      BY <1>2, <1>4, <3>2
  <2> QED
    BY <1>11, <1>22, <2>1
<1>24. ASSUME "ensure" \in Done(q)
      PROVE  /\ m.tx /\ m.op = "create"
             /\ Step(q) \in {"tell", "commit"} => "announce" \in Done(q)
  <2>1. PICK k \in 1..(at[q] - 1) : m.steps[k] = "ensure"
    BY <1>2, <1>24
  <2>2. k \in 1..n /\ k + 1 \in 1..n /\ k + 1 <= at[q]
    BY <1>1, <1>3, <2>1
  <2>3. m.tx /\ m.op = "create" /\ m.steps[k + 1] = "announce"
    BY <1>8, <2>1, <2>2
  <2>4. Step(q) \in {"tell", "commit"} => k + 1 # at[q]
    BY <1>1, <2>3
  <2>5. k + 1 # at[q] => k + 1 < at[q]
    BY <1>1, <2>2
  <2> QED
    BY <1>2, <1>4, <2>2, <2>3, <2>4, <2>5
<1>25. m.tx /\ Step(q) = "tell" => "write" \in Done(q)
  <2> SUFFICES ASSUME m.tx, Step(q) = "tell" PROVE "write" \in Done(q)
    OBVIOUS
  <2>1. PICK j \in 1..n : m.steps[j] = "write"
    BY <1>11
  <2>2. j < at[q]
    BY <1>1, <1>10, <2>1
  <2> QED
    BY <1>2, <1>4, <2>1, <2>2
<1>26. m.tx /\ Step(q) = "write" => "tell" \notin Done(q)
  <2> SUFFICES ASSUME m.tx, Step(q) = "write", NEW k \in 1..(at[q] - 1), m.steps[k] = "tell"
               PROVE  FALSE
    BY <1>2
  <2>1. k \in 1..n /\ k < at[q] /\ at[q] < k
    BY <1>1, <1>3, <1>10
  <2> QED
    BY <1>1, <2>1
<1>27. Step(q) = "ensure" => m.tx /\ m.op = "create"
  BY <1>1, <1>8
<1>28. Step(q) = "ensure" => "announce" \notin Done(q)
  <2> SUFFICES ASSUME Step(q) = "ensure", NEW k \in 1..(at[q] - 1), m.steps[k] = "announce"
               PROVE  FALSE
    BY <1>2
  <2>1. k \in 1..n /\ k < at[q] /\ k > 1 /\ m.steps[k - 1] = "ensure"
    BY <1>3, <1>9
  <2>2. k - 1 \in 1..n /\ k - 1 # at[q]
    BY <1>1, <2>1
  <2> QED
    BY <1>1, <1>5, <2>1, <2>2
<1>29. Step(q) = "announce" => "ensure" \in Done(q)
  <2>1. Step(q) = "announce" => at[q] > 1 /\ m.steps[at[q] - 1] = "ensure"
    BY <1>1, <1>9
  <2> QED
    BY <1>1, <1>2, <2>1
<1>30. Step(q) \in {"look", "unhook", "clear"} => m \in {DeletePort, DisassociateFloatingips}
  BY <1>1, <1>12
<1> QED
  BY <1>21, <1>22, <1>23, <1>24, <1>25, <1>26, <1>27, <1>28, <1>29, <1>30 DEF m, n

LEMMA Special ==
    /\ DeletePort.tx /\ DeletePort.op = "delete" /\ DeletePort.on = {"port"}
    /\ ~ DisassociateFloatingips.tx /\ DisassociateFloatingips.op = "free"
    /\ DisassociateFloatingips.on = {"floatingip"}
    /\ ~ CreateFloatingip.tx /\ CreateFloatingip.op = "create" /\ CreateFloatingip.on = {"floatingip"}
    /\ ~ UpdateFloatingip.tx /\ UpdateFloatingip.op = "update" /\ UpdateFloatingip.on = {"floatingip"}
    /\ ~ DeleteFloatingip.tx /\ DeleteFloatingip.op = "delete" /\ DeleteFloatingip.on = {"floatingip"}
    /\ ~ DeleteSecurityGroupRule.tx /\ DeleteSecurityGroupRule.op = "delete"
    /\ DeleteSecurityGroupRule.on = {"rule"}
    /\ UpdateSecurityGroup.tx /\ UpdateSecurityGroup.op = "update"
    /\ UpdateSecurityGroup.on = {"group", "default"}
    /\ UpdateSubnet.tx /\ UpdateSubnet.op = "update" /\ UpdateSubnet.on = {"subnet"}
    /\ CreateNetwork.tx
BY DEF DeletePort, DisassociateFloatingips, CreateFloatingip, UpdateFloatingip, DeleteFloatingip,
       DeleteSecurityGroupRule, UpdateSecurityGroup, UpdateSubnet, CreateNetwork, Transaction, Plain

-----------------------------------------------------------------------------
(* Rows and their locks                                                     *)

LEMMA ValuesApart ==
    /\ "none" \notin Values /\ "gone" \notin Values /\ "same" \notin Values
    /\ Free \notin Versions /\ Free \in Values /\ Versions \subseteq Values /\ Ports \subseteq Values
    /\ Versions \intersect Ids = {} /\ Ports \subseteq Ids /\ Free \notin Ids
BY ValuesAssumption DEF ValuesAssumption, Values, Ports

\* A row is locked by whom has written it, and is never written back to what it was.
Locks ==
    /\ \A p, q \in Requests, i \in Ids :
          pending[p][i] # "same" /\ pending[q][i] # "same" => p = q
    /\ \A q \in Requests, i \in Ids : pending[q][i] # "none"

\* What is there has all it belongs to.
DbWhole == \A i \in Ids : db[i] \in Values => \A j \in Parents[i] : db[j] \in Values

\* Who deletes an object has all that belongs to it: deleted, too, or not there.
Alone ==
    \A q \in Requests, i \in Ids : \A j \in Parents[i] :
        pending[q][j] = "gone" =>
            \/ pending[q][i] = "gone"
            \/ db[i] \notin Values /\ \A p \in Requests : pending[p][i] = "same"

\* What an object that was written belongs to stays.
Rooted ==
    \A q \in Requests, i \in Ids : \A j \in Parents[i] :
        pending[q][i] \in Values =>
            /\ Sees(q, j) \in Values
            /\ \A p \in Requests : pending[p][j] # "gone"

RowsInv == Locks /\ DbWhole /\ Alone /\ Rooted

\* What the guards make sure of before v is written to the rows S.
GoodWrite(q, S, v) ==
    /\ v \in Row \ {"none"}
    /\ \A i \in S :
          /\ Unlocked(q, i)
          /\ \/ Exists(q, i)
             \/ v \in Values /\ \A j \in Parents[i] : Exists(q, j) /\ Unlocked(q, j)
    /\ v = "gone" => \A k \in Ids : \A i \in S \intersect Parents[k] :
                        Unlocked(q, k) /\ (k \in S \/ ~ Exists(q, k))

LEMMA ParentsKnown == \A i \in Ids : Parents[i] \subseteq Ids
BY ParentsAssumption DEF ParentsAssumption

LEMMA RowsPending ==
    ASSUME Typed, RowsInv, NEW q \in Requests, NEW S \in SUBSET Ids, NEW v, GoodWrite(q, S, v),
           UNCHANGED db, pending' = [pending EXCEPT ![q] = [i \in Ids |-> IF i \in S THEN v ELSE @[i]]]
    PROVE  RowsInv'
<1>1. \A p \in Requests, i \in Ids :
         pending'[p][i] = IF p = q /\ i \in S THEN v ELSE pending[p][i]
  BY DEF Typed, StoreOK
<1>2. \A i \in S : \A p \in Requests : p # q => pending[p][i] = "same"
  BY DEF GoodWrite, Unlocked
<1>3. v # "none" /\ v # "same"
  BY ValuesApart DEF GoodWrite, Row
<1>4. Locks'
  BY <1>1, <1>2, <1>3 DEF Locks, RowsInv
<1>5. DbWhole'
  BY DEF DbWhole, RowsInv
<1>6. Alone'
  <2> SUFFICES ASSUME NEW r \in Requests, NEW i \in Ids, NEW j \in Parents[i], pending'[r][j] = "gone"
               PROVE  \/ pending'[r][i] = "gone"
                      \/ db[i] \notin Values /\ \A p \in Requests : pending'[p][i] = "same"
    BY DEF Alone
  <2>0. j \in Ids
    BY ParentsKnown
  <2>1. CASE pending[r][j] = "gone"
    <3>1. pending[r][i] = "gone" \/ (db[i] \notin Values /\ \A p \in Requests : pending[p][i] = "same")
      BY <2>1 DEF Alone, RowsInv
    <3>2. CASE i \notin S
      BY <1>1, <3>1, <3>2
    <3>3. CASE i \in S
      <4>1. ~ Exists(q, i)
        <5>1. CASE pending[r][i] = "gone"
          BY <1>2, <3>3, <5>1, ValuesApart DEF Exists, Sees
        <5>2. CASE db[i] \notin Values /\ \A p \in Requests : pending[p][i] = "same"
          BY <5>2 DEF Exists, Sees
        <5> QED
          BY <3>1, <5>1, <5>2
      <4>2. Exists(q, j) /\ Unlocked(q, j)
        BY <3>3, <4>1 DEF GoodWrite
      <4> QED
        BY <2>1, <4>2, ValuesApart DEF Exists, Sees, Unlocked
    <3> QED
      BY <3>2, <3>3
  <2>2. CASE pending[r][j] # "gone"
    <3>1. r = q /\ j \in S /\ v = "gone"
      BY <1>1, <2>0, <2>2
    <3>2. Unlocked(q, i) /\ (i \in S \/ ~ Exists(q, i))
      BY <3>1 DEF GoodWrite
    <3>3. CASE i \in S
      BY <1>1, <3>1, <3>3
    <3>4. CASE i \notin S /\ pending[q][i] = "same"
      BY <1>1, <3>2, <3>4 DEF Exists, Sees, Unlocked
    <3>5. CASE i \notin S /\ pending[q][i] # "same"
      <4>1. pending[q][i] \notin Values /\ pending[q][i] # "none"
        BY <3>2, <3>5 DEF Exists, Sees, RowsInv, Locks
      <4>2. pending[q][i] \in Row \union {"same"}
        BY DEF Typed, StoreOK
      <4> QED
        BY <1>1, <3>1, <3>5, <4>1, <4>2 DEF Row
    <3> QED
      BY <3>3, <3>4, <3>5
  <2> QED
    BY <2>1, <2>2
<1>7. Rooted'
  <2> SUFFICES ASSUME NEW r \in Requests, NEW i \in Ids, NEW j \in Parents[i], pending'[r][i] \in Values
               PROVE  /\ Sees(r, j)' \in Values
                      /\ \A p \in Requests : pending'[p][j] # "gone"
    BY DEF Rooted
  <2>0. j \in Ids
    BY ParentsKnown
  <2>1. Sees(r, j) \in Values /\ \A p \in Requests : pending[p][j] # "gone"
    <3>1. CASE pending[r][i] \in Values
      BY <3>1 DEF Rooted, RowsInv
    <3>2. CASE pending[r][i] \notin Values
      <4>1. r = q /\ i \in S /\ v \in Values
        BY <1>1, <3>2
      <4>2. CASE Exists(q, j) /\ Unlocked(q, j)
        BY <4>1, <4>2, ValuesApart DEF Exists, Sees, Unlocked
      <4>3. CASE Exists(q, i)
        <5>1. pending[q][i] = "same" /\ db[i] \in Values
          BY <3>2, <4>1, <4>3 DEF Exists, Sees
        <5>2. \A p \in Requests : pending[p][i] = "same"
          BY <1>2, <4>1, <5>1
        <5>3. db[j] \in Values
          BY <5>1 DEF DbWhole, RowsInv
        <5>4. \A p \in Requests : pending[p][j] # "gone"
          BY <5>1, <5>2 DEF Alone, RowsInv
        <5>5. pending[q][j] \in Values \union {"same"}
          BY <2>0, <5>4 DEF Typed, StoreOK, Row, Locks, RowsInv
        <5> QED
          BY <4>1, <5>3, <5>4, <5>5 DEF Sees
      <4> QED
        BY <4>1, <4>2, <4>3 DEF GoodWrite
    <3> QED
      BY <3>1, <3>2
  <2>2. \A p \in Requests : pending'[p][j] # "gone"
    <3> SUFFICES ASSUME v = "gone", j \in S PROVE FALSE
      BY <1>1, <2>0, <2>1
    <3>1. Unlocked(q, i) /\ (i \in S \/ ~ Exists(q, i))
      BY DEF GoodWrite
    <3>2. r = q /\ i \notin S /\ pending[q][i] \in Values
      BY <1>1, <3>1, ValuesApart DEF Unlocked
    <3> QED
      BY <3>1, <3>2, ValuesApart DEF Exists, Sees
  <2>3. Sees(r, j)' \in Values
    <3>1. CASE pending'[r][j] = pending[r][j]
      BY <2>1, <3>1 DEF Sees
    <3>2. CASE pending'[r][j] # pending[r][j]
      BY <1>1, <1>3, <2>0, <2>2, <3>2 DEF Sees, GoodWrite, Row
    <3> QED
      BY <3>1, <3>2
  <2> QED
    BY <2>2, <2>3
<1> QED
  BY <1>4, <1>5, <1>6, <1>7 DEF RowsInv

LEMMA RowsDb ==
    ASSUME Typed, RowsInv, NEW q \in Requests, NEW S \in SUBSET Ids, NEW v, GoodWrite(q, S, v),
           pending[q] = Nothing,
           UNCHANGED pending, db' = [i \in Ids |-> IF i \in S THEN v ELSE db[i]]
    PROVE  RowsInv'
<1>1. \A i \in Ids : db'[i] = IF i \in S THEN v ELSE db[i]
  OBVIOUS
<1>2. \A i \in S : \A p \in Requests : pending[p][i] = "same"
  BY DEF GoodWrite, Unlocked, Nothing
<1>3. \A i \in Ids : Sees(q, i) = db[i] /\ pending[q][i] = "same"
  BY DEF Sees, Nothing
<1>4. Locks'
  BY DEF Locks, RowsInv
<1>5. DbWhole'
  <2> SUFFICES ASSUME NEW i \in Ids, NEW j \in Parents[i], db'[i] \in Values PROVE db'[j] \in Values
    BY DEF DbWhole
  <2>0. j \in Ids
    BY ParentsKnown
  <2>1. db[j] \in Values
    BY <1>1, <1>3, <2>0 DEF GoodWrite, Exists, DbWhole, RowsInv
  <2>2. v = "gone" => j \notin S
    BY <1>1, <1>3, <2>0, ValuesApart DEF GoodWrite, Exists
  <2> QED
    BY <1>1, <2>0, <2>1, <2>2 DEF GoodWrite, Row
<1>6. Alone'
  <2> SUFFICES ASSUME NEW r \in Requests, NEW i \in Ids, NEW j \in Parents[i], pending[r][j] = "gone",
                      db[i] \notin Values, \A p \in Requests : pending[p][i] = "same"
               PROVE  db'[i] \notin Values
    BY DEF Alone, RowsInv
  <2>0. j \in Ids
    BY ParentsKnown
  <2> QED
    BY <1>1, <1>3, <2>0 DEF GoodWrite, Exists, Unlocked
<1>7. Rooted'
  <2> SUFFICES ASSUME NEW r \in Requests, NEW i \in Ids, NEW j \in Parents[i], pending[r][i] \in Values
               PROVE  Sees(r, j)' \in Values
    BY DEF Rooted, RowsInv
  <2>0. j \in Ids /\ Sees(r, j) \in Values
    BY ParentsKnown DEF Rooted, RowsInv
  <2>1. v = "gone" => j \notin S
    BY <1>3, <2>0, ValuesApart DEF GoodWrite, Unlocked
  <2> QED
    BY <1>1, <2>0, <2>1 DEF GoodWrite, Row, Sees
<1> QED
  BY <1>4, <1>5, <1>6, <1>7 DEF RowsInv

\* The end of a session, with or without its rows.
LEMMA RowsEnd ==
    ASSUME Typed, RowsInv, NEW q \in Requests, db' = db \/ db' = Session(q),
           pending' = [pending EXCEPT ![q] = Nothing]
    PROVE  RowsInv'
<1>1. \A p \in Requests, i \in Ids :
         pending'[p][i] = IF p = q THEN "same" ELSE pending[p][i]
  BY DEF Typed, StoreOK, Nothing
<1>2. \A i \in Ids : db'[i] = db[i] \/ db'[i] = Sees(q, i)
  BY DEF Session
<1>3. \A i \in Ids : pending[q][i] = "same" => db'[i] = db[i]
  BY <1>2 DEF Sees
<1>4. Locks'
  BY <1>1 DEF Locks, RowsInv
<1>5. DbWhole'
  <2>1. CASE db' = db
    BY <2>1 DEF DbWhole, RowsInv
  <2>2. CASE db' = Session(q)
    <3> SUFFICES ASSUME NEW i \in Ids, NEW j \in Parents[i], Sees(q, i) \in Values
                 PROVE  Sees(q, j) \in Values
      BY <2>2, ParentsKnown DEF DbWhole, Session
    <3>0. j \in Ids
      BY ParentsKnown
    <3>1. CASE pending[q][i] # "same"
      BY <3>1 DEF Sees, Rooted, RowsInv
    <3>2. CASE pending[q][i] = "same"
      <4>1. db[i] \in Values /\ db[j] \in Values
        BY <3>2 DEF Sees, DbWhole, RowsInv
      <4>2. pending[q][j] # "gone"
        BY <3>2, <4>1 DEF Alone, RowsInv
      <4>3. pending[q][j] \in Values \union {"same"}
        BY <3>0, <4>2 DEF Typed, StoreOK, Row, Locks, RowsInv
      <4> QED
        BY <4>1, <4>3 DEF Sees
    <3> QED
      BY <3>1, <3>2
  <2> QED
    BY <2>1, <2>2
<1>6. Alone'
  <2> SUFFICES ASSUME NEW r \in Requests, NEW i \in Ids, NEW j \in Parents[i], pending'[r][j] = "gone"
               PROVE  \/ pending'[r][i] = "gone"
                      \/ db'[i] \notin Values /\ \A p \in Requests : pending'[p][i] = "same"
    BY DEF Alone
  <2>0. j \in Ids /\ r # q /\ pending[r][j] = "gone"
    BY <1>1, ParentsKnown
  <2> QED
    BY <1>1, <1>3, <2>0 DEF Alone, RowsInv
<1>7. Rooted'
  <2> SUFFICES ASSUME NEW r \in Requests, NEW i \in Ids, NEW j \in Parents[i], pending'[r][i] \in Values
               PROVE  /\ Sees(r, j)' \in Values
                      /\ \A p \in Requests : pending'[p][j] # "gone"
    BY DEF Rooted
  <2>0. j \in Ids /\ r # q /\ pending[r][i] \in Values
    BY <1>1, ParentsKnown, ValuesApart
  <2>1. Sees(r, j) \in Values /\ \A p \in Requests : pending[p][j] # "gone"
    BY <2>0 DEF Rooted, RowsInv
  <2>2. \A p \in Requests : pending'[p][j] # "gone"
    BY <1>1, <2>0, <2>1
  <2>3. pending[q][j] \in Values \union {"same"}
    BY <2>0, <2>1 DEF Typed, StoreOK, Row, Locks, RowsInv
  <2>4. Sees(r, j)' \in Values
    BY <1>1, <1>2, <2>0, <2>1, <2>3, SMTT(20) DEF Sees
  <2> QED
    BY <2>2, <2>4
<1> QED
  BY <1>4, <1>5, <1>6, <1>7 DEF RowsInv

-----------------------------------------------------------------------------
(* What a request has at hand                                               *)

\* Whom each written row is due to.
OwnRow(q, i) ==
    \/ i = id[q] /\ pending[q][i] = Becomes(q) /\ "write" \in Done(q)
    \/ i \in Rules(id[q]) /\ pending[q][i] = "gone" /\ method[q].op = "delete" /\ "write" \in Done(q)
    \/ i = found[q] /\ Kind[i] = "default" /\ pending[q][i] \in Versions /\ "ensure" \in Done(q)
    \/ Kind[i] = "floatingip" /\ pending[q][i] = Free /\ method[q] = DeletePort

Own(q) ==
    /\ at[q] = 0 \/ ~ method[q].tx => pending[q] = Nothing
    /\ at[q] = 0 => found[q] = NoId
    /\ at[q] # 0 => id[q] \in Ids /\ Kind[id[q]] \in method[q].on
    /\ \A i \in Ids : pending[q][i] # "same" => OwnRow(q, i)
    /\ method[q].tx /\ "write" \in Done(q) => pending[q][id[q]] = Becomes(q)
    /\ "ensure" \in Done(q) /\ found[q] # NoId =>
          Kind[found[q]] = "default" /\ pending[q][found[q]] \in Versions
    /\ method[q] \in {DeletePort, DisassociateFloatingips} /\ found[q] # NoId =>
          Kind[found[q]] = "floatingip"

\* An id that was not used is nowhere.
FreshInv ==
    \A g \in fresh :
        /\ db[g] = "none" /\ director[g] = "none"
        /\ \A q \in Requests : pending[q][g] = "same" /\ id[q] # g /\ found[q] # g

LocalInv == Typed /\ RowsInv /\ FreshInv /\ \A q \in Requests : Own(q)

LEMMA TxKinds ==
    /\ \A m \in AllMethods : ~ m.tx => m.on \subseteq {"floatingip", "rule"}
    /\ \A m \in AllMethods : m.tx => "floatingip" \notin m.on
<1>1. \A m \in AllMethods : ~ m.tx => m.on \subseteq {"floatingip", "rule"}
  BY Special, SMTT(20)
     DEF AllMethods, Methods, CreateNetwork, UpdateNetwork, DeleteNetwork, CreatePort,
         UpdatePort, DeletePort, CreateSubnet, UpdateSubnet, DeleteSubnet, CreateRouter, UpdateRouter,
         DeleteRouter, AddRouterInterface, RemoveRouterInterface, CreateSecurityGroup,
         UpdateSecurityGroup, DeleteSecurityGroup, CreateSecurityGroupRule, Transaction
<1>2. \A m \in AllMethods : m.tx => "floatingip" \notin m.on
  BY MethodsWellFormed DEF WellFormed
<1> QED
  BY <1>1, <1>2

LEMMA OwnFrame ==
    ASSUME NEW p \in Requests, Own(p), method'[p] = method[p], at'[p] = at[p], id'[p] = id[p],
           value'[p] = value[p], found'[p] = found[p], pending'[p] = pending[p]
    PROVE  Own(p)'
<1>1. Done(p)' = Done(p) /\ Becomes(p)' = Becomes(p)
  BY DEF Done, Becomes
<1>2. \A i : OwnRow(p, i)' <=> OwnRow(p, i)
  BY <1>1 DEF OwnRow
<1> HIDE DEF OwnRow
<1> QED
  BY <1>1, <1>2 DEF Own

LEMMA OwnEnd ==
    ASSUME Typed, NEW q \in Requests, End(q), pending'[q] = Nothing
    PROVE  Own(q)'
<1>1. at'[q] = 0 /\ method'[q] = CreateNetwork /\ found'[q] = NoId
  BY DEF End, Typed, LocalOK
<1>2. Done(q)' = {}
  <2>1. 1..(at'[q] - 1) = {}
    BY <1>1
  <2> QED
    BY <2>1 DEF Done
<1> QED
  BY <1>1, <1>2 DEF Own, Nothing

LEMMA OwnGoOn ==
    ASSUME Typed, NEW q \in Requests, Own(q), at[q] # 0, ~ method[q].tx, "floatingip" \in method[q].on,
           method[q].on = {"floatingip"},
           NEW m \in {DeleteFloatingip, DisassociateFloatingips}, GoOnWith(q, m)
    PROVE  Own(q)'
<1>1. at'[q] = 1 /\ method'[q] = m /\ found'[q] = NoId /\ id'[q] = id[q] /\ pending'[q] = Nothing
  BY DEF GoOnWith, Typed, LocalOK, Own
<1>2. Done(q)' = {}
  <2>1. 1..(at'[q] - 1) = {}
    BY <1>1
  <2> QED
    BY <2>1 DEF Done
<1>3. m.on = {"floatingip"} /\ ~ m.tx
  BY Special
<1> QED
  BY <1>1, <1>2, <1>3 DEF Own, Nothing

LEMMA NoEnd ==
    ASSUME LocalOK, NEW q \in Requests, at[q] # 0, method[q].tx, Step(q) # "commit",
           NEW o, Advance(q, o)
    PROVE  /\ at' = [at EXCEPT ![q] = @ + 1]
           /\ found' = [found EXCEPT ![q] = o]
           /\ UNCHANGED <<method, id, value, plan, lock>>
BY Order DEF Advance

\* A step within a transaction.
LEMMA OwnStep ==
    ASSUME Typed, NEW q \in Requests, Own(q), at[q] # 0, method[q].tx, Step(q) # "commit",
           NEW o \in Ids \union {NoId}, at'[q] = at[q] + 1, found'[q] = o,
           method'[q] = method[q], id'[q] = id[q], value'[q] = value[q],
           \A i \in Ids : pending'[q][i] # "same" /\ pending'[q][i] # pending[q][i] =>
               \/ i = id[q] /\ pending'[q][i] = Becomes(q) /\ Step(q) = "write"
               \/ /\ i \in Rules(id[q]) /\ pending'[q][i] = "gone"
                  /\ method[q].op = "delete" /\ Step(q) = "write"
               \/ i = o /\ Kind[i] = "default" /\ pending'[q][i] \in Versions /\ Step(q) = "ensure"
               \/ Kind[i] = "floatingip" /\ pending'[q][i] = Free /\ method[q] = DeletePort,
           \/ o = found[q] /\ Step(q) # "ensure"
           \/ Step(q) = "ensure"
           \/ Step(q) = "look" /\ (o # NoId => Kind[o] = "floatingip"),
           Step(q) = "write" => pending'[q][id[q]] = Becomes(q),
           Step(q) # "write" => pending'[q][id[q]] = pending[q][id[q]],
           Step(q) = "ensure" /\ o # NoId => Kind[o] = "default" /\ pending'[q][o] \in Versions,
           Step(q) # "ensure" /\ "ensure" \in Done(q) /\ found[q] # NoId =>
               pending'[q][found[q]] = pending[q][found[q]]
    PROVE  Own(q)'
<1>1. Done(q)' = Done(q) \union {Step(q)} /\ Becomes(q)' = Becomes(q)
  BY DoneAdvance DEF Typed, Becomes
<1>2. /\ Step(q) \notin Done(q)
      /\ Step(q) = "ensure" => method[q].op = "create"
      /\ "ensure" \in Done(q) => method[q].op = "create"
      /\ Step(q) \in {"look", "unhook", "clear"} => method[q] \in {DeletePort, DisassociateFloatingips}
  BY Order DEF Typed
<1>3. method[q] \in {DeletePort, DisassociateFloatingips} => method[q].op # "create"
  BY Special
<1>4. at'[q] # 0
  BY DEF Typed, LocalOK
<1>5. ASSUME NEW i \in Ids, pending'[q][i] # "same" PROVE OwnRow(q, i)'
  <2>1. CASE pending'[q][i] = pending[q][i]
    <3>1. OwnRow(q, i)
      BY <1>5, <2>1 DEF Own
    <3> QED
      BY <1>1, <1>2, <1>3, <2>1, <3>1 DEF OwnRow
  <2>2. CASE pending'[q][i] # pending[q][i]
    BY <1>1, <1>5, <2>2 DEF OwnRow
  <2> QED
    BY <2>1, <2>2
<1>6. method[q].tx /\ "write" \in Done(q)' => pending'[q][id[q]] = Becomes(q)
  BY <1>1, <1>2 DEF Own
<1>7. "ensure" \in Done(q)' /\ o # NoId => Kind[o] = "default" /\ pending'[q][o] \in Versions
  BY <1>1, <1>2, <1>3 DEF Own
<1>8. method[q] \in {DeletePort, DisassociateFloatingips} /\ o # NoId => Kind[o] = "floatingip"
  BY <1>2, <1>3 DEF Own
<1>9. Kind[id[q]] \in method[q].on /\ id[q] \in Ids
  BY DEF Own
<1> HIDE DEF OwnRow, Done, Becomes
<1> QED
  BY <1>1, <1>4, <1>5, <1>6, <1>7, <1>8, <1>9 DEF Own

\* A step of a method without a transaction.
LEMMA OwnPlain ==
    ASSUME Typed, NEW q \in Requests, Own(q), at[q] # 0, ~ method[q].tx,
           NEW o \in Ids \union {NoId}, Advance(q, o), pending'[q] = pending[q],
           o = found[q] \/ (o # NoId => Kind[o] = "floatingip")
    PROVE  Own(q)'
<1>1. pending'[q] = Nothing
  BY DEF Own
<1>2. CASE at[q] = Len(method[q].steps)
  BY <1>1, <1>2, OwnEnd DEF Advance
<1>3. CASE at[q] # Len(method[q].steps)
  <2>1. /\ at'[q] = at[q] + 1 /\ found'[q] = o /\ method'[q] = method[q]
        /\ id'[q] = id[q] /\ value'[q] = value[q]
    BY <1>3 DEF Advance, Typed, LocalOK
  <2>2. Done(q)' = Done(q) \union {Step(q)}
    BY <2>1, DoneAdvance DEF Typed
  <2>3. "ensure" \notin Done(q)'
    BY <2>2, Order DEF Typed
  <2>4. at'[q] # 0
    BY <2>1 DEF Typed, LocalOK
  <2> QED
    BY <1>1, <2>1, <2>3, <2>4 DEF Own, Nothing
<1> QED
  BY <1>2, <1>3

-----------------------------------------------------------------------------
(* The steps keep all that                                                  *)

LEMMA OthersAdvance ==
    ASSUME LocalOK, NEW q \in Requests, NEW o, Advance(q, o)
    PROVE  /\ \A p \in Requests \ {q} :
                 /\ method'[p] = method[p] /\ at'[p] = at[p] /\ id'[p] = id[p]
                 /\ value'[p] = value[p] /\ found'[p] = found[p]
           /\ id'[q] \in {id[q], NoId} /\ found'[q] \in {o, NoId}
BY DEF Advance, End, LocalOK

LEMMA OthersEnd ==
    ASSUME LocalOK, NEW q \in Requests, End(q)
    PROVE  /\ \A p \in Requests \ {q} :
                 /\ method'[p] = method[p] /\ at'[p] = at[p] /\ id'[p] = id[p]
                 /\ value'[p] = value[p] /\ found'[p] = found[p]
           /\ id'[q] = NoId /\ found'[q] = NoId
BY DEF End, LocalOK

LEMMA OthersGoOn ==
    ASSUME LocalOK, NEW q \in Requests, NEW m, GoOnWith(q, m)
    PROVE  /\ \A p \in Requests \ {q} :
                 /\ method'[p] = method[p] /\ at'[p] = at[p] /\ id'[p] = id[p]
                 /\ value'[p] = value[p] /\ found'[p] = found[p]
           /\ id'[q] = id[q] /\ found'[q] = NoId
BY DEF GoOnWith, LocalOK

LEMMA IdKnown ==
    ASSUME LocalInv, NEW q \in Requests, at[q] # 0
    PROVE  /\ id[q] \in Ids /\ Kind[id[q]] \in method[q].on
           /\ method[q] \in AllMethods /\ WellFormed(method[q])
BY StepKnown DEF LocalInv, Own, Typed

LEMMA RulesApart ==
    /\ \A i \in Ids : Rules(i) \subseteq Ids /\ \A j \in Rules(i) : Kind[j] = "rule" /\ i \in Parents[j]
    /\ \A i, j \in Ids : j \in Parents[i] => i # j /\ Kind[j] \notin {"floatingip", "rule"}
    /\ \A i \in Ids : Kind[i] = "default" => Parents[i] = {}
    /\ NoId \notin Ids
BY ParentsAssumption, MarkersAssumption DEF ParentsAssumption, MarkersAssumption, Rules

LEMMA FreshAway ==
    ASSUME LocalInv, NEW g \in fresh, NEW q \in Requests
    PROVE  /\ g \in Ids /\ g # id[q] /\ g # found[q]
           /\ Sees(q, g) = "none" /\ ~ Exists(q, g) /\ Unlocked(q, g)
           /\ db[g] = "none" /\ director[g] = "none"
<1>1. g \in Ids
  BY DEF LocalInv, Typed, StoreOK
<1> QED
  BY <1>1, ValuesApart DEF LocalInv, FreshInv, Sees, Exists, Unlocked

LEMMA FreshKept ==
    ASSUME FreshInv, NEW q \in Requests, fresh' \subseteq fresh,
           \A g \in fresh' :
               /\ db'[g] = db[g] /\ director'[g] = director[g]
               /\ \A p \in Requests : pending'[p][g] \in {pending[p][g], "same"}
               /\ id'[q] # g /\ found'[q] # g,
           \A p \in Requests \ {q} : id'[p] = id[p] /\ found'[p] = found[p]
    PROVE  FreshInv'
BY DEF FreshInv

LEMMA WriteGood ==
    ASSUME LocalInv, NEW q \in Requests, at[q] # 0, MayWrite(q, id[q])
    PROVE  Written(q) \subseteq Ids /\ GoodWrite(q, Written(q), Becomes(q))
<1>1. id[q] \in Ids /\ method[q] \in AllMethods /\ value[q] \in Values
  BY IdKnown DEF LocalInv, Typed, LocalOK
<1>2. Written(q) \subseteq Ids
  BY <1>1, RulesApart DEF Written
<1>3. Becomes(q) \in Row \ {"none"}
  BY <1>1, ValuesApart DEF Becomes, Row
<1>4. ASSUME NEW i \in Written(q)
      PROVE  /\ Unlocked(q, i)
             /\ \/ Exists(q, i)
                \/ Becomes(q) \in Values /\ \A j \in Parents[i] : Exists(q, j) /\ Unlocked(q, j)
  <2>1. CASE method[q].op = "create"
    BY <1>1, <1>4, <2>1 DEF MayWrite, MayCreate, Written, Becomes
  <2>2. CASE method[q].op # "create"
    BY <1>4, <2>2 DEF MayWrite, Written
  <2> QED
    BY <2>1, <2>2
<1>5. ASSUME Becomes(q) = "gone", NEW k \in Ids, NEW i \in Written(q) \intersect Parents[k]
      PROVE  Unlocked(q, k) /\ (k \in Written(q) \/ ~ Exists(q, k))
  <2>1. method[q].op = "delete"
    BY <1>1, <1>5, ValuesApart DEF Becomes
  <2>2. i = id[q]
    BY <1>1, <1>2, <2>1, RulesApart DEF Written
  <2>3. Unlocked(q, k) /\ (k \notin Rules(id[q]) => ~ Exists(q, k))
    BY <2>1, <2>2 DEF MayWrite, MayDelete
  <2> QED
    BY <2>1, <2>3 DEF Written
<1> HIDE DEF Becomes, Written
<1> QED
  BY <1>2, <1>3, <1>4, <1>5 DEF GoodWrite

LEMMA ClearGood ==
    ASSUME LocalInv, NEW q \in Requests, Step(q) = "clear",
           \A f \in FloatingipsAt(q, PortOf(q)) : Unlocked(q, f)
    PROVE  /\ FloatingipsAt(q, PortOf(q)) \subseteq Ids
           /\ GoodWrite(q, FloatingipsAt(q, PortOf(q)), Free)
           /\ \A f \in FloatingipsAt(q, PortOf(q)) : Kind[f] = "floatingip" /\ Exists(q, f)
<1>1. at[q] # 0 /\ PortOf(q) \in Values
  <2>1. at[q] # 0
    BY NotIdle
  <2>2. id[q] \in Ids /\ Kind[id[q]] \in method[q].on /\ value[q] \in Values
    BY <2>1, IdKnown DEF LocalInv, Typed, LocalOK
  <2> QED
    BY <2>1, <2>2, Special, ValuesApart DEF PortOf, Ports, Values
<1> QED
  BY <1>1, ValuesApart, BecomesType DEF GoodWrite, FloatingipsAt, Exists, LocalInv, Row

LEMMA EnsureGood ==
    ASSUME LocalInv, NEW q \in Requests, NEW g \in fresh, Kind[g] = "default", NEW v \in Versions
    PROVE  g \in Ids /\ GoodWrite(q, {g}, v)
<1>1. v \in Row \ {"none"} /\ v \in Values /\ v # "gone"
  BY ValuesApart DEF Row
<1> QED
  BY <1>1, FreshAway, RulesApart DEF GoodWrite

LEMMA RowsPut ==
    ASSUME LocalInv, NEW q \in Requests, NEW S \in SUBSET Ids, NEW v, GoodWrite(q, S, v), Put(q, S, v)
    PROVE  RowsInv'
<1>1. CASE method[q].tx
  BY <1>1, RowsPending DEF Put, LocalInv
<1>2. CASE ~ method[q].tx
  BY <1>2, RowsDb DEF Put, LocalInv, Own
<1> QED
  BY <1>1, <1>2

\* A step that writes: to rows that are not fresh any more.
LEMMA PutEffect ==
    ASSUME LocalInv, NEW q \in Requests, NEW S \in SUBSET Ids, NEW v, Put(q, S, v)
    PROVE  /\ \A p \in Requests \ {q} : pending'[p] = pending[p]
           /\ method[q].tx => \A i \in Ids : pending'[q][i] = IF i \in S THEN v ELSE pending[q][i]
           /\ ~ method[q].tx => pending'[q] = pending[q]
           /\ \A i \in Ids \ S : db'[i] = db[i] /\ \A p \in Requests : pending'[p][i] = pending[p][i]
BY DEF Put, LocalInv, Typed, StoreOK

LEMMA LocalInit == Init => LocalInv
<1> SUFFICES ASSUME Init PROVE LocalInv
  OBVIOUS
<1>1. Typed
  BY TypeInit
<1>2. PICK l \in Layouts, v \in Versions :
         db = [i \in Ids |-> IF i \in l.made THEN v ELSE "none"] /\ fresh = l.fresh
  BY DEF Init
<1>3. /\ l.made \intersect l.fresh = {} /\ l.fresh \subseteq Ids
      /\ \A i \in l.made : Parents[i] \subseteq l.made
  BY LayoutsAssumption DEF LayoutsAssumption
<1>4. \A p \in Requests, i \in Ids : pending[p][i] = "same" /\ pending[p] = Nothing
  BY DEF Init, Nothing
<1>5. RowsInv
  <2>1. DbWhole
    BY <1>2, <1>3, ParentsKnown, ValuesApart DEF DbWhole
  <2> QED
    BY <1>4, <2>1, ParentsKnown, ValuesApart DEF RowsInv, Locks, Alone, Rooted
<1>6. FreshInv
  BY <1>2, <1>3, <1>4, RulesApart DEF FreshInv, Init
<1>7. ASSUME NEW q \in Requests PROVE Own(q)
  <2>1. at[q] = 0 /\ found[q] = NoId /\ method[q] = CreateNetwork /\ pending[q] = Nothing
    BY <1>7 DEF Init
  <2>2. Done(q) = {}
    BY <2>1, DoneNothing
  <2> QED
    BY <2>1, <2>2 DEF Own, Nothing
<1> QED
  BY <1>1, <1>5, <1>6, <1>7 DEF LocalInv

LEMMA OthersKeep ==
    ASSUME LocalInv, NEW q \in Requests,
           \A p \in Requests \ {q} :
               /\ method'[p] = method[p] /\ at'[p] = at[p] /\ id'[p] = id[p]
               /\ value'[p] = value[p] /\ found'[p] = found[p] /\ pending'[p] = pending[p],
           Own(q)'
    PROVE  \A p \in Requests : Own(p)'
BY OwnFrame DEF LocalInv

LEMMA LocalStart ==
    ASSUME LocalInv, NEW q \in Requests, NEW m \in Methods, NEW i \in Ids, NEW v \in Values,
           Start(q, m, i, v)
    PROVE  LocalInv'
<1>1. Typed'
  BY TypeStart DEF LocalInv
<1>2. RowsInv'
  BY DEF Start, stores, LocalInv, RowsInv, Locks, DbWhole, Alone, Rooted, Sees
<1>3. FreshInv'
  BY ValuesApart DEF Start, stores, LocalInv, FreshInv, Typed, LocalOK
<1>4. Own(q)'
  <2>1. at'[q] = 1 /\ method'[q] = m /\ id'[q] = i /\ pending'[q] = Nothing /\ found'[q] = found[q]
    BY DEF Start, stores, LocalInv, Typed, LocalOK, Own
  <2>2. Done(q)' = {}
    <3>1. 1..(at'[q] - 1) = {}
      BY <2>1
    <3> QED
      BY <3>1 DEF Done
  <2>3. Kind[i] \in m.on
    BY DEF Start
  <2>4. found[q] = NoId
    BY DEF LocalInv, Own, Start
  <2> QED
    BY <2>1, <2>2, <2>3, <2>4 DEF Own, Nothing
<1>5. \A p \in Requests \ {q} :
         /\ method'[p] = method[p] /\ at'[p] = at[p] /\ id'[p] = id[p]
         /\ value'[p] = value[p] /\ found'[p] = found[p] /\ pending'[p] = pending[p]
  BY DEF Start, stores, LocalInv, Typed, LocalOK
<1> QED
  BY <1>1, <1>2, <1>3, <1>4, <1>5, OthersKeep DEF LocalInv

\* Steps that leave the stores alone.
LEMMA LocalQuiet ==
    ASSUME LocalInv, NEW q \in Requests, UNCHANGED <<stores, fresh>>,
           Lock(q) \/ Find(q) \/ Look(q) \/ Settle(q) \/ Skip(q)
    PROVE  RowsInv' /\ FreshInv' /\ \A p \in Requests : Own(p)'
<1>1. RowsInv'
  BY DEF stores, LocalInv, RowsInv, Locks, DbWhole, Alone, Rooted, Sees
<1>2. at[q] # 0
  BY NotIdle DEF Lock, Find, Look, Settle, Skip, Calling
<1>3. LocalOK /\ found[q] \in Ids \union {NoId} /\ Own(q)
  BY DEF LocalInv, Typed, LocalOK
<1>4. CASE Lock(q) \/ Settle(q)
  <2>1. /\ at'[q] = at[q] + 1 /\ found'[q] = found[q] /\ method'[q] = method[q]
        /\ id'[q] = id[q] /\ value'[q] = value[q] /\ pending'[q] = pending[q]
        /\ Step(q) \in {"lock", "settle"}
    BY <1>3, <1>4 DEF Lock, Settle, stores, LocalOK
  <2>2. Done(q)' = Done(q) \union {Step(q)} /\ at'[q] # 0 /\ Becomes(q)' = Becomes(q)
    BY <1>2, <1>3, <2>1, DoneAdvance DEF LocalOK, Becomes
  <2>3. \A i \in Ids : OwnRow(q, i)' <=> OwnRow(q, i)
    BY <2>1, <2>2 DEF OwnRow
  <2>4. Own(q)'
    <3> HIDE DEF OwnRow, Done, Becomes
    <3> QED
      BY <1>2, <1>3, <2>1, <2>2, <2>3 DEF Own
  <2>5. \A p \in Requests \ {q} :
           /\ method'[p] = method[p] /\ at'[p] = at[p] /\ id'[p] = id[p]
           /\ value'[p] = value[p] /\ found'[p] = found[p] /\ pending'[p] = pending[p]
    BY <1>3, <1>4 DEF Lock, Settle, stores, LocalOK
  <2>6. FreshInv'
    BY <1>4, <2>1 DEF Lock, Settle, stores, LocalInv, FreshInv
  <2> QED
    BY <1>1, <2>4, <2>5, <2>6, OthersKeep
<1>5. ASSUME NEW o \in Ids \union {NoId}, Advance(q, o), Step(q) \notin {"ensure", "write", "commit"},
             o = found[q] \/ (Step(q) = "look" /\ (o # NoId => Kind[o] = "floatingip" /\ Exists(q, o)))
      PROVE  RowsInv' /\ FreshInv' /\ \A p \in Requests : Own(p)'
  <2>1. Own(q)'
    <3>1. CASE ~ method[q].tx
      BY <1>2, <1>3, <1>5, <3>1, OwnPlain DEF stores, LocalInv
    <3>2. CASE method[q].tx
      <4>1. /\ at'[q] = at[q] + 1 /\ found'[q] = o /\ method'[q] = method[q]
            /\ id'[q] = id[q] /\ value'[q] = value[q] /\ pending'[q] = pending[q]
        BY <1>2, <1>3, <1>5, <3>2, NoEnd DEF stores, LocalOK
      <4> QED
        BY <1>2, <1>3, <1>5, <3>2, <4>1, OwnStep DEF LocalInv
    <3> QED
      BY <3>1, <3>2
  <2>2. /\ \A p \in Requests \ {q} :
              /\ method'[p] = method[p] /\ at'[p] = at[p] /\ id'[p] = id[p]
              /\ value'[p] = value[p] /\ found'[p] = found[p] /\ pending'[p] = pending[p]
        /\ id'[q] \in {id[q], NoId} /\ found'[q] \in {o, NoId}
    BY <1>3, <1>5, OthersAdvance DEF stores
  <2>3. FreshInv'
    BY <1>5, <2>2, FreshAway, FreshKept, RulesApart DEF stores, LocalInv
  <2> QED
    BY <1>1, <2>1, <2>2, <2>3, OthersKeep
<1>6. CASE Find(q) \/ Skip(q)
  BY <1>3, <1>5, <1>6 DEF Find, Skip, Calling
<1>7. CASE Look(q)
  <2>1. PICK f \in FloatingipsAt(q, PortOf(q)) \union {NoId} : Advance(q, f)
    BY <1>7 DEF Look
  <2>2. Step(q) = "look"
    BY <1>7 DEF Look
  <2>3. PortOf(q) \in Values
    <3>1. id[q] \in Ids /\ Kind[id[q]] \in method[q].on /\ value[q] \in Values
      BY <1>2, IdKnown DEF LocalInv, Typed, LocalOK
    <3> QED
      BY <3>1, Special, ValuesApart DEF PortOf, Ports, Values
  <2>4. f # NoId => f \in Ids /\ Kind[f] = "floatingip" /\ Exists(q, f)
    BY <2>1, <2>3 DEF FloatingipsAt, Exists
  <2> QED
    BY <1>5, <2>1, <2>2, <2>4
<1> QED
  BY <1>4, <1>6, <1>7

\* Steps that write.
LEMMA LocalPut ==
    ASSUME LocalInv, NEW q \in Requests, at[q] # 0, NEW S \in SUBSET Ids, NEW v, NEW o \in Ids \union {NoId},
           GoodWrite(q, S, v), Put(q, S, v), Advance(q, o), UNCHANGED director,
           fresh' \subseteq fresh \ (S \union {o}),
           \/ Step(q) = "write" /\ S = Written(q) /\ v = Becomes(q) /\ o = found[q]
           \/ Step(q) = "clear" /\ v = Free /\ o = found[q] /\ \A f \in S : Kind[f] = "floatingip"
           \/ Step(q) = "ensure" /\ S = {o} /\ Kind[o] = "default" /\ v \in Versions /\ o \in fresh
    PROVE  RowsInv' /\ FreshInv' /\ \A p \in Requests : Own(p)'
<1>1. RowsInv'
  BY RowsPut
<1>2. LocalOK /\ Own(q)
  BY DEF LocalInv, Typed
<1>3. /\ \A p \in Requests \ {q} :
            /\ method'[p] = method[p] /\ at'[p] = at[p] /\ id'[p] = id[p]
            /\ value'[p] = value[p] /\ found'[p] = found[p] /\ pending'[p] = pending[p]
      /\ id'[q] \in {id[q], NoId} /\ found'[q] \in {o, NoId}
  <2>1. \A p \in Requests \ {q} : pending'[p] = pending[p]
    BY PutEffect
  <2> QED
    BY <1>2, <2>1, OthersAdvance
<1>4. FreshInv'
  <2>1. \A g \in fresh' : /\ g \in fresh /\ g \in Ids \ S
                          /\ id'[q] # g /\ found'[q] # g
    BY <1>3, FreshAway, RulesApart
  <2>2. \A g \in fresh' : db'[g] = db[g] /\ \A p \in Requests : pending'[p][g] = pending[p][g]
    BY <2>1, PutEffect
  <2> QED
    BY <1>3, <2>1, <2>2, FreshKept DEF LocalInv
<1>5. Own(q)'
  <2>1. CASE ~ method[q].tx
    <3>1. Step(q) # "ensure"
      BY <1>2, <2>1, Order
    <3> QED
      BY <1>2, <2>1, <3>1, OwnPlain, PutEffect DEF LocalInv
  <2>2. CASE method[q].tx
    <3>1. /\ at'[q] = at[q] + 1 /\ found'[q] = o /\ method'[q] = method[q]
          /\ id'[q] = id[q] /\ value'[q] = value[q]
      BY <1>2, <2>2, NoEnd, SMTT(20) DEF LocalOK
    <3>2. \A i \in Ids : pending'[q][i] = IF i \in S THEN v ELSE pending[q][i]
      BY <2>2, PutEffect
    <3>3. id[q] \in Ids /\ Kind[id[q]] \in method[q].on /\ WellFormed(method[q])
      BY IdKnown
    <3>4. "ensure" \in Done(q) => method[q].op = "create"
      BY <1>2, Order
    <3>5. Step(q) = "clear" => method[q] = DeletePort
      BY <1>2, <2>2, Order, Special
    <3>6. CASE Step(q) = "write"
      <4>1. v = Becomes(q) /\ S = Written(q) /\ o = found[q] /\ id[q] \in S
        BY <3>6 DEF Written
      <4>2. \A i \in S : i = id[q] \/ (i \in Rules(id[q]) /\ v = "gone" /\ method[q].op = "delete")
        BY <4>1 DEF Written, Becomes
      <4>3. "ensure" \in Done(q) /\ found[q] # NoId => found[q] \notin S /\ found[q] \in Ids
        <5> SUFFICES ASSUME "ensure" \in Done(q), found[q] # NoId
                     PROVE found[q] \notin S /\ found[q] \in Ids
          OBVIOUS
        <5>1. Kind[found[q]] = "default" /\ method[q].op = "create"
          BY <1>2, <3>4 DEF Own
        <5>2. Kind[id[q]] # "default"
          BY <3>3, <5>1 DEF WellFormed
        <5> QED
          BY <1>2, <4>2, <3>3, <5>1, <5>2, RulesApart DEF LocalOK
      <4> HIDE DEF Written, Becomes
      <4> QED
        BY <1>2, <2>2, <3>1, <3>2, <3>3, <3>6, <4>1, <4>2, <4>3, OwnStep DEF LocalInv
    <3>7. CASE Step(q) = "clear"
      <4>1. v = Free /\ o = found[q] /\ id[q] \notin S /\ method[q] = DeletePort
        BY <3>3, <3>5, <3>7, Special
      <4>2. "ensure" \notin Done(q)
        BY <3>4, <4>1, Special
      <4> QED
        BY <1>2, <2>2, <3>1, <3>2, <3>3, <3>7, <4>1, <4>2, OwnStep DEF LocalInv
    <3>8. CASE Step(q) = "ensure"
      <4>1. S = {o} /\ Kind[o] = "default" /\ v \in Versions /\ o \in fresh
        BY <3>8
      <4>2. id[q] \notin S /\ o \in Ids
        BY <4>1, FreshAway
      <4> QED
        BY <1>2, <2>2, <3>1, <3>2, <3>3, <3>8, <4>1, <4>2, OwnStep DEF LocalInv
    <3> QED
      BY <3>6, <3>7, <3>8
  <2> QED
    BY <2>1, <2>2
<1> QED
  BY <1>1, <1>3, <1>4, <1>5, OthersKeep

\* An exception, with or without the rows.
LEMMA LocalLeave ==
    ASSUME LocalInv, NEW q \in Requests, Leave(q), db' = db \/ db' = Session(q),
           \A g \in fresh : director'[g] = director[g], UNCHANGED fresh
    PROVE  RowsInv' /\ FreshInv' /\ \A p \in Requests : Own(p)'
<1>1. RowsInv'
  BY RowsEnd DEF Leave, LocalInv
<1>2. /\ \A p \in Requests \ {q} :
            /\ method'[p] = method[p] /\ at'[p] = at[p] /\ id'[p] = id[p]
            /\ value'[p] = value[p] /\ found'[p] = found[p] /\ pending'[p] = pending[p]
      /\ id'[q] = NoId /\ found'[q] = NoId /\ pending'[q] = Nothing
  BY OthersEnd DEF Leave, LocalInv, Typed, StoreOK
<1>3. Own(q)'
  BY <1>2, OwnEnd DEF Leave, LocalInv
<1>4. FreshInv'
  <2>1. \A g \in fresh : /\ g \in Ids /\ db'[g] = db[g]
                         /\ \A p \in Requests : pending'[p][g] \in {pending[p][g], "same"}
    BY <1>2, FreshAway DEF Session, Nothing
  <2> QED
    BY <1>2, <2>1, FreshKept, RulesApart DEF LocalInv
<1> QED
  BY <1>1, <1>2, <1>3, <1>4, OthersKeep

LEMMA LocalRaise ==
    ASSUME LocalInv, NEW q \in Requests, at[q] # 0, Raise(q), UNCHANGED db,
           \A g \in fresh : director'[g] = director[g], UNCHANGED fresh
    PROVE  RowsInv' /\ FreshInv' /\ \A p \in Requests : Own(p)'
<1>1. CASE Leave(q)
  BY <1>1, LocalLeave
<1>2. ASSUME NEW m \in {DeleteFloatingip, DisassociateFloatingips}, GoOnWith(q, m),
             method[q] \in {CreateFloatingip, UpdateFloatingip}
      PROVE  RowsInv' /\ FreshInv' /\ \A p \in Requests : Own(p)'
  <2>1. RowsInv'
    BY <1>2 DEF GoOnWith, LocalInv, RowsInv, Locks, DbWhole, Alone, Rooted, Sees
  <2>2. /\ \A p \in Requests \ {q} :
              /\ method'[p] = method[p] /\ at'[p] = at[p] /\ id'[p] = id[p]
              /\ value'[p] = value[p] /\ found'[p] = found[p] /\ pending'[p] = pending[p]
        /\ id'[q] = id[q] /\ found'[q] = NoId /\ pending' = pending
    BY <1>2, OthersGoOn DEF GoOnWith, LocalInv, Typed
  <2>3. Own(q)'
    BY <1>2, Special, OwnGoOn DEF LocalInv
  <2>4. FreshInv'
    BY <2>2, FreshAway, FreshKept, RulesApart DEF LocalInv
  <2> QED
    BY <2>1, <2>2, <2>3, <2>4, OthersKeep
<1> QED
  BY <1>1, <1>2 DEF Raise

LEMMA ToldKnown ==
    ASSUME LocalInv, NEW q \in Requests, Calling(q), Subject(q) # NoId
    PROVE  /\ Subject(q) \in Ids
           /\ \A i \in Ids : Told(Subject(q), ToldValue(q))[i] =
                 IF i = Subject(q) \/ (ToldValue(q) = "gone" /\ i \in Rules(Subject(q)) /\ director[i] \in Values)
                 THEN ToldValue(q) ELSE director[i]
           /\ \A g \in fresh : Told(Subject(q), ToldValue(q))[g] = director[g]
<1>1. Subject(q) \in Ids
  BY SubjectType DEF LocalInv
<1>2. Subject(q) \in {id[q], found[q]}
  BY DEF Subject
<1> QED
  BY <1>1, <1>2, FreshAway, ValuesApart DEF Told

LEMMA LocalRequest ==
    ASSUME LocalInv, NEW q \in Requests, RequestStep(q)
    PROVE  RowsInv' /\ FreshInv' /\ \A p \in Requests : Own(p)'
<1> DEFINE Goal == RowsInv' /\ FreshInv' /\ \A p \in Requests : Own(p)'
<1>0. LocalOK /\ Typed /\ found[q] \in Ids \union {NoId}
  BY DEF LocalInv, Typed, LocalOK
<1>1. CASE Lock(q) \/ Find(q) \/ Look(q) \/ Settle(q) \/ Skip(q)
  BY <1>1, LocalQuiet DEF Lock, Find, Look, Settle, Skip, stores
<1>2. CASE Clear(q)
  <2>1. fresh' \subseteq fresh \ (FloatingipsAt(q, PortOf(q)) \union {found[q]})
    <3>1. ASSUME NEW g \in fresh, g \in FloatingipsAt(q, PortOf(q)) PROVE FALSE
      BY <1>2, <3>1, ClearGood, FreshAway DEF Clear
    <3> QED
      BY <1>2, <3>1, FreshAway DEF Clear
  <2>2. at[q] # 0
    BY <1>2, NotIdle DEF Clear
  <2> QED
    BY <1>0, <1>2, <2>1, <2>2, ClearGood, LocalPut DEF Clear
<1>3. CASE Write(q)
  <2>1. at[q] # 0
    BY <1>3, NotIdle DEF Write
  <2>2. Written(q) \subseteq Ids /\ GoodWrite(q, Written(q), Becomes(q))
    BY <1>3, <2>1, WriteGood DEF Write
  <2>3. fresh' \subseteq fresh \ (Written(q) \union {found[q]})
    BY <1>3, FreshAway DEF Write, Written
  <2> QED
    BY <1>0, <1>3, <2>1, <2>2, <2>3, LocalPut DEF Write
<1>4. CASE Ensure(q)
  <2>1. at[q] # 0 /\ Step(q) = "ensure" /\ method[q].tx
    BY <1>0, <1>4, NotIdle, Order DEF Ensure
  <2>2. CASE Advance(q, NoId) /\ UNCHANGED <<db, pending, fresh>>
    <3>1. RowsInv'
      BY <2>2 DEF LocalInv, RowsInv, Locks, DbWhole, Alone, Rooted, Sees
    <3>2. /\ at'[q] = at[q] + 1 /\ found'[q] = NoId /\ method'[q] = method[q]
          /\ id'[q] = id[q] /\ value'[q] = value[q] /\ pending'[q] = pending[q]
      BY <1>0, <2>1, <2>2, NoEnd DEF LocalOK
    <3>3. Own(q)'
      BY <1>0, <2>1, <3>2, OwnStep DEF LocalInv
    <3>4. /\ \A p \in Requests \ {q} :
                /\ method'[p] = method[p] /\ at'[p] = at[p] /\ id'[p] = id[p]
                /\ value'[p] = value[p] /\ found'[p] = found[p] /\ pending'[p] = pending[p]
          /\ id'[q] \in {id[q], NoId} /\ found'[q] = NoId
      BY <1>0, <2>2, OthersAdvance
    <3>5. FreshInv'
      BY <1>4, <2>2, <3>4, FreshAway, FreshKept, RulesApart DEF Ensure, LocalInv
    <3> QED
      BY <3>1, <3>3, <3>4, <3>5, OthersKeep
  <2>3. ASSUME NEW g \in fresh, NEW v \in Versions, Kind[g] = "default", Put(q, {g}, v), Advance(q, g),
               fresh' = fresh \ {g}
        PROVE  Goal
    <3>1. g \in Ids /\ GoodWrite(q, {g}, v)
      BY <2>3, EnsureGood
    <3> QED
      BY <1>4, <2>1, <2>3, <3>1, LocalPut DEF Ensure
  <2> QED
    BY <1>4, <2>2, <2>3 DEF Ensure
<1>5. CASE Refused(q)
  <2>1. at[q] # 0
    BY <1>5, NotIdle DEF Refused
  <2> QED
    BY <1>5, <2>1, LocalRaise DEF Refused
<1>6. CASE Call(q)
  <2>1. at[q] # 0 /\ Step(q) \notin {"commit", "ensure", "write", "look"}
    BY <1>6, NotIdle DEF Call, Calling
  <2>2. RowsInv'
    BY <1>6 DEF Call, LocalInv, RowsInv, Locks, DbWhole, Alone, Rooted, Sees
  <2>3. /\ \A p \in Requests \ {q} :
              /\ method'[p] = method[p] /\ at'[p] = at[p] /\ id'[p] = id[p]
              /\ value'[p] = value[p] /\ found'[p] = found[p] /\ pending'[p] = pending[p]
        /\ id'[q] \in {id[q], NoId} /\ found'[q] \in {found[q], NoId}
    BY <1>0, <1>6, OthersAdvance DEF Call
  <2>4. Own(q)'
    <3>1. CASE ~ method[q].tx
      BY <1>0, <1>6, <2>1, <3>1, OwnPlain DEF Call, LocalInv
    <3>2. CASE method[q].tx
      <4>1. /\ at'[q] = at[q] + 1 /\ found'[q] = found[q] /\ method'[q] = method[q]
            /\ id'[q] = id[q] /\ value'[q] = value[q] /\ pending'[q] = pending[q]
        BY <1>0, <1>6, <2>1, <3>2, NoEnd DEF Call, LocalOK
      <4> QED
        BY <1>0, <2>1, <3>2, <4>1, OwnStep DEF LocalInv
    <3> QED
      BY <3>1, <3>2
  <2>5. FreshInv'
    BY <1>6, <2>3, FreshAway, FreshKept, ToldKnown, RulesApart DEF Call, Needless, LocalInv
  <2> QED
    BY <2>2, <2>3, <2>4, <2>5, OthersKeep
<1>7. CASE CallRaises(q)
  <2>1. at[q] # 0 /\ \A g \in fresh : director'[g] = director[g]
    BY <1>7, NotIdle, ToldKnown DEF CallRaises, Calling, Needless
  <2> QED
    BY <1>7, <2>1, LocalRaise DEF CallRaises
<1>8. CASE Commit(q)
  <2>1. at[q] # 0 /\ Step(q) = "commit"
    BY <1>8, NotIdle DEF Commit
  <2>2. End(q)
    BY <1>0, <1>8, <2>1, Order DEF Commit, Advance
  <2>3. RowsInv'
    BY <1>8, RowsEnd DEF Commit, LocalInv
  <2>4. /\ \A p \in Requests \ {q} :
              /\ method'[p] = method[p] /\ at'[p] = at[p] /\ id'[p] = id[p]
              /\ value'[p] = value[p] /\ found'[p] = found[p] /\ pending'[p] = pending[p]
        /\ id'[q] = NoId /\ found'[q] = NoId /\ pending'[q] = Nothing
    BY <1>0, <1>8, <2>2, OthersEnd DEF Commit, Typed, StoreOK
  <2>5. Own(q)'
    BY <1>0, <2>2, <2>4, OwnEnd
  <2>6. \A g \in fresh : /\ g \in Ids /\ db'[g] = db[g]
                         /\ \A p \in Requests : pending'[p][g] \in {pending[p][g], "same"}
    BY <1>8, <2>4, FreshAway DEF Commit, Session, Nothing
  <2>7. FreshInv'
    BY <1>8, <2>4, <2>6, FreshKept, RulesApart DEF Commit, LocalInv
  <2> QED
    BY <2>3, <2>4, <2>5, <2>7, OthersKeep
<1>9. CASE CommitFails(q) \/ Crash(q)
  <2>1. /\ Leave(q) /\ (db' = db \/ db' = Session(q)) /\ UNCHANGED <<director, fresh>>
    BY <1>9 DEF CommitFails, Crash
  <2> QED
    BY <2>1, LocalLeave
<1> QED
  BY <1>1, <1>2, <1>3, <1>4, <1>5, <1>6, <1>7, <1>8, <1>9 DEF RequestStep

LEMMA LocalNext == ASSUME LocalInv, [Next]_vars PROVE LocalInv'
<1>1. Typed'
  BY TypeStep DEF LocalInv
<1>2. ASSUME NEW q \in Requests, RequestStep(q) PROVE LocalInv'
  BY <1>1, <1>2, LocalRequest DEF LocalInv
<1>3. CASE UNCHANGED vars
  <2>1. RowsInv' /\ FreshInv'
    BY <1>3 DEF vars, stores, request, LocalInv, RowsInv, Locks, DbWhole, Alone, Rooted, Sees, FreshInv
  <2>2. \A q \in Requests : Own(q)'
    BY <1>3, OwnFrame DEF vars, stores, request, LocalInv
  <2> QED
    BY <1>1, <2>1, <2>2 DEF LocalInv
<1>4. ASSUME NEW q \in Requests, GetPorts(q) PROVE LocalInv'
  BY <1>3, <1>4 DEF GetPorts
<1> QED
  BY <1>2, <1>3, <1>4, LocalStart DEF Next

-----------------------------------------------------------------------------
(* How a request moves                                                      *)

Forward(q) ==
    /\ method'[q] = method[q] /\ id'[q] = id[q] /\ value'[q] = value[q]
    /\ Done(q)' = Done(q) \union {Step(q)}

Over(q) == Done(q)' = {} /\ pending'[q] = Nothing

Still(p) ==
    /\ method'[p] = method[p] /\ at'[p] = at[p] /\ id'[p] = id[p]
    /\ value'[p] = value[p] /\ found'[p] = found[p]
    /\ Done(p)' = Done(p) /\ pending'[p] = pending[p]

LEMMA DoneFrame ==
    ASSUME NEW p \in Requests, method'[p] = method[p], at'[p] = at[p]
    PROVE  Done(p)' = Done(p)
BY DEF Done

LEMMA MovesAdvance ==
    ASSUME LocalInv, NEW q \in Requests, Own(q)', at[q] # 0, NEW o, Advance(q, o)
    PROVE  Over(q) \/ (Forward(q) /\ found'[q] = o)
<1>1. LocalOK
  BY DEF LocalInv, Typed
<1>2. CASE at[q] = Len(method[q].steps)
  <2>1. at'[q] = 0
    BY <1>1, <1>2 DEF Advance, End, LocalOK
  <2>2. Done(q)' = {}
    <3>1. 1..(at'[q] - 1) = {}
      BY <2>1
    <3> QED
      BY <3>1 DEF Done
  <2> QED
    BY <2>1, <2>2 DEF Over, Own
<1>3. CASE at[q] # Len(method[q].steps)
  <2>1. /\ at'[q] = at[q] + 1 /\ method'[q] = method[q] /\ id'[q] = id[q] /\ value'[q] = value[q]
        /\ found'[q] = o
    BY <1>1, <1>3 DEF Advance, LocalOK
  <2> QED
    BY <1>1, <2>1, DoneAdvance DEF Forward
<1> QED
  BY <1>2, <1>3

LEMMA MovesEnd ==
    ASSUME LocalInv, NEW q \in Requests, Own(q)', End(q)
    PROVE  Over(q)
<1>1. at'[q] = 0
  BY DEF End, LocalInv, Typed, LocalOK
<1>2. 1..(at'[q] - 1) = {}
  BY <1>1
<1> QED
  BY <1>1, <1>2 DEF Done, Over, Own

LEMMA MovesRaise ==
    ASSUME LocalInv, NEW q \in Requests, Own(q)', Raise(q), at[q] # 0
    PROVE  Over(q)
<1>1. CASE Leave(q)
  BY <1>1, MovesEnd DEF Leave
<1>2. ASSUME NEW m \in {DeleteFloatingip, DisassociateFloatingips}, GoOnWith(q, m) PROVE Over(q)
  <2>1. at'[q] = 1 /\ method'[q] = m
    BY <1>2 DEF GoOnWith, LocalInv, Typed, LocalOK
  <2>2. 1..(at'[q] - 1) = {}
    BY <2>1
  <2>3. ~ m.tx
    BY Special
  <2> QED
    BY <2>1, <2>2, <2>3 DEF Done, Over, Own
<1> QED
  BY <1>1, <1>2 DEF Raise

LEMMA Moves ==
    ASSUME LocalInv, NEW q \in Requests, RequestStep(q)
    PROVE  /\ \A p \in Requests \ {q} : Still(p)
           /\ Over(q) \/ Forward(q)
<1>0. Own(q)' /\ LocalOK /\ Typed
  BY LocalRequest DEF LocalInv, Typed
<1>1. at[q] # 0
  BY NotIdle DEF RequestStep, Lock, Find, Look, Clear, Settle, Write, Ensure, Refused, Skip, Call,
                 CallRaises, Commit, CommitFails, Crash, Calling
<1>2. SUFFICES /\ \A p \in Requests \ {q} :
                     /\ method'[p] = method[p] /\ at'[p] = at[p] /\ id'[p] = id[p]
                     /\ value'[p] = value[p] /\ found'[p] = found[p]
                     /\ pending'[p] = pending[p]
               /\ Over(q) \/ Forward(q)
  BY DoneFrame DEF Still
<1>3. \A p \in Requests \ {q} : pending'[p] = pending[p]
  <2>1. ASSUME NEW S, NEW v, Put(q, S, v) PROVE \A p \in Requests \ {q} : pending'[p] = pending[p]
    BY <1>0, <2>1 DEF Put, Typed, StoreOK
  <2>2. CASE Clear(q) \/ Write(q) \/ Ensure(q)
    BY <2>1, <2>2 DEF Clear, Write, Ensure
  <2>3. CASE Leave(q) \/ Commit(q)
    BY <1>0, <2>3 DEF Leave, Commit, Typed, StoreOK
  <2>4. CASE Raise(q)
    BY <2>3, <2>4 DEF Raise, GoOnWith
  <2> QED
    BY <2>2, <2>3, <2>4 DEF RequestStep, Lock, Find, Look, Settle, Skip, Call, stores, Refused,
                            CallRaises, CommitFails, Crash
<1>4. CASE Lock(q) \/ Settle(q)
  <2>1. at'[q] = at[q] + 1 /\ method'[q] = method[q] /\ id'[q] = id[q] /\ value'[q] = value[q]
    BY <1>0, <1>4 DEF Lock, Settle, LocalOK
  <2>2. Forward(q)
    BY <1>0, <1>1, <2>1, DoneAdvance DEF Forward
  <2> QED
    BY <1>0, <1>3, <1>4, <2>2 DEF Lock, Settle, LocalOK
<1>5. ASSUME NEW o, Advance(q, o)
      PROVE  /\ \A p \in Requests \ {q} :
                     /\ method'[p] = method[p] /\ at'[p] = at[p] /\ id'[p] = id[p]
                     /\ value'[p] = value[p] /\ found'[p] = found[p]
                     /\ pending'[p] = pending[p]
             /\ Over(q) \/ Forward(q)
  BY <1>0, <1>1, <1>3, <1>5, MovesAdvance, OthersAdvance
<1>6. CASE Raise(q) \/ Leave(q)
  <2>1. Over(q)
    BY <1>0, <1>1, <1>6, MovesRaise, MovesEnd DEF Leave
  <2>2. CASE Leave(q)
    BY <1>0, <1>3, <2>1, <2>2, OthersEnd DEF Leave
  <2>3. ASSUME NEW m, GoOnWith(q, m)
        PROVE  \A p \in Requests \ {q} :
                     /\ method'[p] = method[p] /\ at'[p] = at[p] /\ id'[p] = id[p]
                     /\ value'[p] = value[p] /\ found'[p] = found[p]
                     /\ pending'[p] = pending[p]
    BY <1>0, <1>3, <2>3, OthersGoOn
  <2> QED
    BY <1>6, <2>1, <2>2, <2>3 DEF Raise
<1>7. CASE \E o : Advance(q, o)
  BY <1>5, <1>7
<1> QED
  BY <1>4, <1>6, <1>7 DEF RequestStep, Find, Look, Clear, Write, Ensure, Skip, Call, Commit, Refused,
                          CallRaises, CommitFails, Crash

-----------------------------------------------------------------------------
(* Floating ips: the Director never has one that the database has not       *)

FloatInv ==
    /\ \A i \in Ids : Kind[i] = "floatingip" =>
          /\ director[i] \in Values => db[i] \in Values
          /\ db[i] = "gone" => director[i] = "gone"
    /\ \A q \in Requests :
          /\ method[q] = CreateFloatingip /\ "write" \in Done(q) => db[id[q]] # "none"
          /\ method[q] = DeleteFloatingip /\ "tell" \in Done(q) => director[id[q]] = "gone"

LEMMA DeleteToldFirst ==
    ASSUME LocalOK, NEW q \in Requests, method[q] = DeleteFloatingip, Step(q) = "write"
    PROVE  "tell" \in Done(q)
<1>1. DeleteFloatingip.steps = <<"find", "tell", "write">>
  BY DEF DeleteFloatingip, Plain
<1>2. at[q] \in 1..Len(method[q].steps) /\ Step(q) = method[q].steps[at[q]]
  BY NotIdle, StepKnown
<1>3. at[q] = 3
  BY <1>1, <1>2
<1>4. 2 \in 1..(at[q] - 1) /\ method[q].steps[2] = "tell"
  BY <1>1, <1>3
<1> QED
  BY <1>4 DEF Done

LEMMA CreateWroteFirst ==
    ASSUME LocalOK, NEW q \in Requests, method[q] = CreateFloatingip, Step(q) = "tell"
    PROVE  "write" \in Done(q)
<1>1. CreateFloatingip.steps = <<"write", "tell">>
  BY DEF CreateFloatingip, Plain
<1>2. at[q] \in 1..Len(method[q].steps) /\ Step(q) = method[q].steps[at[q]]
  BY NotIdle, StepKnown
<1>3. at[q] = 2
  BY <1>1, <1>2
<1>4. 1 \in 1..(at[q] - 1) /\ method[q].steps[1] = "write"
  BY <1>1, <1>3
<1> QED
  BY <1>4 DEF Done

LEMMA FloatMethods ==
    /\ \A m \in AllMethods : "floatingip" \in m.on /\ m.op = "create" => m = CreateFloatingip
    /\ \A m \in AllMethods : "floatingip" \in m.on /\ m.op = "delete" => m = DeleteFloatingip
    /\ \A m \in AllMethods : ~ m.tx /\ m.op = "create" => m = CreateFloatingip
BY Special
   DEF AllMethods, Methods, CreateNetwork, UpdateNetwork, DeleteNetwork, CreatePort,
       UpdatePort, DeletePort, CreateSubnet, UpdateSubnet, DeleteSubnet, CreateRouter, UpdateRouter,
       DeleteRouter, AddRouterInterface, RemoveRouterInterface, CreateSecurityGroup,
       UpdateSecurityGroup, DeleteSecurityGroup, CreateSecurityGroupRule, Transaction

LEMMA FloatTold ==
    ASSUME LocalInv, FloatInv, NEW q \in Requests, Calling(q), Subject(q) # NoId,
           Possible(q, Subject(q), ToldValue(q)), NEW i \in Ids, Kind[i] = "floatingip"
    PROVE  LET D == Told(Subject(q), ToldValue(q))
           IN  /\ D[i] \in Values => db[i] \in Values
               /\ director[i] = "gone" => D[i] = "gone"
<1>0. LocalOK /\ at[q] # 0
  BY NotIdle DEF LocalInv, Typed, Calling
<1>1. CASE i # Subject(q)
  BY <1>1, ToldKnown, RulesApart DEF FloatInv
<1>2. CASE i = Subject(q) /\ Step(q) = "announce"
  <2>1. Kind[found[q]] = "default"
    BY <1>0, <1>2, Order DEF Subject, LocalInv, Own
  <2> QED
    BY <1>2, <2>1 DEF Subject
<1>3. CASE i = Subject(q) /\ Step(q) # "announce"
  <2>1. Told(Subject(q), ToldValue(q))[i] = ToldValue(q)
    BY <1>3, ToldKnown
  <2>2. CASE ToldValue(q) = "gone"
    BY <2>1, <2>2, ValuesApart
  <2>3. CASE ToldValue(q) # "gone" /\ method[q].op # "create"
    BY <1>3, <2>1, <2>3, ValuesApart DEF Possible, FloatInv
  <2>4. CASE ToldValue(q) # "gone" /\ method[q].op = "create"
    <3>1. director[i] = "none" /\ Step(q) = "tell"
      BY <1>0, <1>3, <2>4, Order, Special DEF Possible, Calling
    <3>2. i = id[q] /\ method[q] = CreateFloatingip
      BY <1>0, <1>3, <2>4, <3>1, IdKnown, FloatMethods DEF Subject
    <3>3. db[i] # "none"
      BY <1>0, <3>1, <3>2, CreateWroteFirst DEF FloatInv
    <3>4. db[i] # "gone" /\ db[i] \in Row
      BY <3>1 DEF FloatInv, LocalInv, Typed, StoreOK
    <3> QED
      BY <3>1, <3>3, <3>4 DEF Row
  <2> QED
    BY <2>2, <2>3, <2>4
<1> QED
  BY <1>1, <1>2, <1>3

\* What a step makes of a floating ip in the database.
LEMMA FloatDb ==
    ASSUME LocalInv, FloatInv, NEW q \in Requests, RequestStep(q), NEW i \in Ids, Kind[i] = "floatingip"
    PROVE  db'[i] = db[i] \/ db'[i] \in Values \/ (db'[i] = "gone" /\ director[i] = "gone")
<1>0. LocalOK /\ Own(q)
  BY DEF LocalInv, Typed
<1>1. CASE Clear(q)
  BY <1>1, ValuesApart DEF Clear, Put
<1>2. CASE Ensure(q)
  BY <1>2, ValuesApart DEF Ensure, Put
<1>3. CASE Write(q)
  <2>1. at[q] # 0 /\ Step(q) = "write"
    BY <1>3, NotIdle DEF Write
  <2>2. id[q] \in Ids /\ Kind[id[q]] \in method[q].on /\ method[q] \in AllMethods /\ value[q] \in Values
    BY <2>1, IdKnown DEF LocalInv, Typed, LocalOK
  <2>3. CASE method[q].op = "delete" /\ i \in Written(q)
    <3>1. i = id[q]
      BY <2>2, <2>3, RulesApart DEF Written
    <3>2. method[q] = DeleteFloatingip
      BY <2>2, <2>3, <3>1, FloatMethods
    <3>3. director[i] = "gone"
      BY <1>0, <2>1, <3>1, <3>2, DeleteToldFirst DEF FloatInv
    <3> QED
      BY <1>3, <2>3, <3>3 DEF Write, Put, Becomes
  <2>4. CASE method[q].op # "delete" \/ i \notin Written(q)
    BY <1>3, <2>2, <2>4 DEF Write, Put, Becomes
  <2> QED
    BY <2>3, <2>4
<1>4. CASE db' = Session(q)
  <2>1. CASE pending[q][i] = "same"
    BY <1>4, <2>1 DEF Session, Sees
  <2>2. CASE pending[q][i] # "same"
    <3>1. at[q] # 0 /\ method[q].tx
      BY <1>0, <2>2 DEF Own, Nothing
    <3>2. Kind[id[q]] # "floatingip" /\ id[q] \in Ids
      BY <3>1, IdKnown, TxKinds
    <3>3. OwnRow(q, i)
      BY <1>0, <2>2 DEF Own
    <3>4. pending[q][i] = Free
      BY <3>2, <3>3, RulesApart DEF OwnRow
    <3> QED
      BY <1>4, <2>2, <3>4, ValuesApart DEF Session, Sees
  <2> QED
    BY <2>1, <2>2
<1>5. CASE UNCHANGED db
  BY <1>5
<1> QED
  BY <1>1, <1>2, <1>3, <1>4, <1>5
     DEF RequestStep, Lock, Find, Look, Settle, Skip, Call, stores, Refused, CallRaises, Commit,
         CommitFails, Crash

LEMMA OnlyForward ==
    ASSUME LocalInv, NEW q \in Requests, RequestStep(q), ~ Over(q)
    PROVE  /\ Forward(q) /\ at[q] # 0
           /\ \/ Lock(q) \/ Find(q) \/ Look(q) \/ Clear(q) \/ Settle(q) \/ Write(q) \/ Ensure(q)
              \/ Skip(q) \/ Call(q)
<1>0. Own(q)' /\ LocalOK
  BY LocalRequest DEF LocalInv, Typed
<1>1. at[q] # 0
  BY NotIdle DEF RequestStep, Lock, Find, Look, Clear, Settle, Write, Ensure, Refused, Skip, Call,
                 CallRaises, Commit, CommitFails, Crash, Calling
<1>2. ~ Refused(q) /\ ~ CallRaises(q)
  BY <1>0, <1>1, MovesRaise DEF Refused, CallRaises
<1>3. ~ CommitFails(q) /\ ~ Crash(q)
  BY <1>0, MovesEnd DEF CommitFails, Crash, Leave
<1>4. ~ Commit(q)
  BY <1>0, <1>1, Order, MovesEnd DEF Commit, Advance
<1> QED
  BY <1>1, <1>2, <1>3, <1>4, Moves DEF RequestStep

LEMMA DoneBusy ==
    ASSUME NEW q \in Requests, Done(q) # {}
    PROVE  at[q] # 0
BY DoneNothing

LEMMA FloatRequest ==
    ASSUME LocalInv, FloatInv, NEW q \in Requests, RequestStep(q)
    PROVE  FloatInv'
<1>0. LocalOK /\ Typed
  BY DEF LocalInv, Typed
<1>1. ASSUME NEW i \in Ids, Kind[i] = "floatingip"
      PROVE  /\ director'[i] \in Values => db'[i] \in Values
             /\ db'[i] = "gone" => director'[i] = "gone"
             /\ director[i] = "gone" => director'[i] = "gone"
             /\ db[i] # "none" => db'[i] # "none"
  <2>1. CASE director' = director
    BY <1>1, <2>1, FloatDb, ValuesApart DEF FloatInv
  <2>2. CASE director' # director
    <3>1. /\ Calling(q) /\ Subject(q) # NoId /\ Possible(q, Subject(q), ToldValue(q))
          /\ director' = Told(Subject(q), ToldValue(q)) /\ UNCHANGED db
      BY <2>2 DEF RequestStep, Lock, Find, Look, Clear, Settle, Write, Ensure, Refused, Skip, Call,
                  CallRaises, Commit, CommitFails, Crash, stores, Needless
    <3> QED
      BY <1>1, <3>1, FloatTold DEF FloatInv
  <2> QED
    BY <2>1, <2>2
<1>2. ASSUME NEW p \in Requests, p # q
      PROVE  /\ method'[p] = CreateFloatingip /\ "write" \in Done(p)' => db'[id'[p]] # "none"
             /\ method'[p] = DeleteFloatingip /\ "tell" \in Done(p)' => director'[id'[p]] = "gone"
  <2>1. Still(p)
    BY <1>2, Moves
  <2>2. Done(p) # {} /\ method[p] \in {CreateFloatingip, DeleteFloatingip}
        => id[p] \in Ids /\ Kind[id[p]] = "floatingip"
    BY DoneBusy, IdKnown, Special
  <2> QED
    BY <1>1, <2>1, <2>2 DEF Still, FloatInv
<1>3. CASE Over(q)
  BY <1>1, <1>2, <1>3 DEF Over, FloatInv
<1>4. CASE ~ Over(q)
  <2>1. /\ Forward(q) /\ at[q] # 0
        /\ \/ Lock(q) \/ Find(q) \/ Look(q) \/ Clear(q) \/ Settle(q) \/ Write(q) \/ Ensure(q)
           \/ Skip(q) \/ Call(q)
    BY <1>4, OnlyForward
  <2>2. method[q] \in {CreateFloatingip, DeleteFloatingip} =>
           id[q] \in Ids /\ Kind[id[q]] = "floatingip" /\ ~ method[q].tx
    BY <2>1, IdKnown, Special
  <2>3. method[q] = CreateFloatingip /\ "write" \in Done(q)' => db'[id[q]] # "none"
    <3> SUFFICES ASSUME method[q] = CreateFloatingip, "write" \in Done(q)' PROVE db'[id[q]] # "none"
      OBVIOUS
    <3>1. CASE "write" \in Done(q)
      BY <1>1, <2>2, <3>1 DEF FloatInv
    <3>2. CASE Step(q) = "write"
      <4>1. Write(q)
        BY <2>1, <3>2 DEF Lock, Find, Look, Clear, Settle, Ensure, Skip, Call, Calling
      <4>2. db'[id[q]] = value[q] /\ value[q] \in Values
        BY <1>0, <2>2, <4>1, Special DEF Write, Put, Written, Becomes, LocalOK
      <4> QED
        BY <4>2, ValuesApart
    <3> QED
      BY <2>1, <3>1, <3>2 DEF Forward
  <2>4. method[q] = DeleteFloatingip /\ "tell" \in Done(q)' => director'[id[q]] = "gone"
    <3> SUFFICES ASSUME method[q] = DeleteFloatingip, "tell" \in Done(q)' PROVE director'[id[q]] = "gone"
      OBVIOUS
    <3>1. CASE "tell" \in Done(q)
      BY <1>1, <2>2, <3>1 DEF FloatInv
    <3>2. CASE Step(q) = "tell"
      <4>1. Subject(q) = id[q] /\ ToldValue(q) = "gone"
        BY <3>2, Special DEF Subject, ToldValue, Becomes
      <4>2. Subject(q) # NoId /\ method[q] \notin {UpdateSecurityGroup, UpdateSubnet}
        BY <2>2, <4>1, RulesApart, Special
      <4>3. Call(q)
        BY <2>1, <3>2, <4>2 DEF Lock, Find, Look, Clear, Settle, Ensure, Write, Skip, Needless, LeftBehind
      <4> QED
        BY <2>2, <4>1, <4>3, ToldKnown DEF Call, Needless
    <3> QED
      BY <2>1, <3>1, <3>2 DEF Forward
  <2>5. method'[q] = method[q] /\ id'[q] = id[q]
    BY <2>1 DEF Forward
  <2> HIDE DEF Done
  <2> QED
    BY <1>1, <1>2, <2>3, <2>4, <2>5 DEF FloatInv
<1> QED
  BY <1>3, <1>4

LEMMA StartEmpty ==
    ASSUME LocalInv, NEW q \in Requests, NEW m \in Methods, NEW i \in Ids, NEW v \in Values,
           Start(q, m, i, v)
    PROVE  /\ UNCHANGED <<stores, astray>> /\ at'[q] = 1 /\ Done(q)' = {} /\ pending[q] = Nothing
           /\ \A p \in Requests \ {q} : Still(p)
<1>1. at'[q] = 1 /\ UNCHANGED <<stores, astray>> /\ pending[q] = Nothing
  BY DEF Start, LocalInv, Typed, LocalOK, Own
<1>2. 1..(at'[q] - 1) = {}
  BY <1>1
<1>3. Done(q)' = {}
  BY <1>2 DEF Done
<1>4. \A p \in Requests \ {q} :
         /\ method'[p] = method[p] /\ at'[p] = at[p] /\ id'[p] = id[p]
         /\ value'[p] = value[p] /\ found'[p] = found[p] /\ pending'[p] = pending[p]
  BY DEF Start, stores, LocalInv, Typed, LocalOK
<1> QED
  BY <1>1, <1>3, <1>4, DoneFrame DEF Still

LEMMA FloatNext == ASSUME LocalInv, FloatInv, [Next]_vars PROVE FloatInv'
<1>1. ASSUME NEW q \in Requests, NEW m \in Methods, NEW i \in Ids, NEW v \in Values, Start(q, m, i, v)
      PROVE  FloatInv'
  BY <1>1, StartEmpty DEF FloatInv, Still, stores
<1>2. CASE UNCHANGED vars
  BY <1>2, DoneFrame DEF FloatInv, vars, stores, request
<1>3. ASSUME NEW q \in Requests, GetPorts(q) PROVE FloatInv'
  BY <1>2, <1>3 DEF GetPorts
<1> QED
  BY <1>1, <1>2, <1>3, FloatRequest DEF Next

LEMMA FloatInit == Init => FloatInv
<1> SUFFICES ASSUME Init PROVE FloatInv
  OBVIOUS
<1>1. PICK l \in Layouts, v \in Versions : db = [i \in Ids |-> IF i \in l.made THEN v ELSE "none"]
  BY DEF Init
<1>2. \A i \in Ids : db[i] \in {v, "none"} /\ director[i] = db[i]
  BY <1>1 DEF Init
<1>3. \A q \in Requests : Done(q) = {}
  BY DoneNothing DEF Init
<1> QED
  BY <1>2, <1>3, ValuesApart DEF FloatInv

-----------------------------------------------------------------------------
(* The Director follows the database                                        *)

\* Whether the request has told the Director of what it has written.
ToldOf(q, i) ==
    IF Kind[i] = "default" /\ i # id[q] THEN "announce" \in Done(q) ELSE "tell" \in Done(q)

\* It is as the database is, or as who has written the row wants it to be.
Followed(i) ==
    /\ (\A q \in Requests : pending[q][i] = "same") => Near(behind, i, db[i], director[i])
    /\ \A q \in Requests : pending[q][i] # "same" =>
          Near(behind, i, director[i], IF ToldOf(q, i) THEN pending[q][i] ELSE db[i])

Firm(i) == Kind[i] \notin {"floatingip", "rule"}
FollowInv == \A i \in Ids \ astray : Firm(i) => Followed(i)

LEMMA NearSame ==
    /\ \A S, i, x : Near(S, i, x, x)
    /\ \A S, i, x, y : Near(S, i, x, y) => Near(S, i, y, x)
    /\ \A S, i, x, y, z : Near(S, i, x, y) /\ Near(S, i, y, z) => Near(S, i, x, z)
    /\ \A S, T, i, x, y : Near(S, i, x, y) /\ (i \in S => i \in T) => Near(T, i, x, y)
    /\ \A S, i, x, y : Near(S, i, x, y) /\ x \in Values => y \in Values
    /\ \A S, i, x, y : i \in S /\ x \in Values /\ y \in Values => Near(S, i, x, y)
    /\ \A S, i, x, y : Alike(x, y) => Near(S, i, x, y)
BY ValuesApart DEF Near, Alike, Absent

\* An object that is behind stays so.
Kept(i) == i \in behind => i \in behind'

\* Only a call brings an object back.
LEMMA KeptBehind ==
    ASSUME NEW q \in Requests, RequestStep(q), NEW i
    PROVE  Kept(i) \/ (Call(q) /\ i = Subject(q))
BY DEF Kept, RequestStep, Lock, Find, Look, Clear, Settle, Write, Ensure, Refused, Skip, Call,
       CallRaises, Commit, CommitFails, Crash, Leave, Raise, GoOnWith, history

\* A row that a transaction changes was there before it, and is there until its end.
HeldInv ==
    \A q \in Requests, i \in Ids :
        method[q].op = "update" /\ pending[q][i] \in Values => db[i] \in Values

\* A row of the database changes only where no other request holds it, and inside of a
\* transaction not at all.
LEMMA HeldDb ==
    ASSUME LocalInv, NEW q \in Requests, RequestStep(q), NEW p \in Requests \ {q}, NEW i \in Ids,
           pending[p][i] # "same"
    PROVE  db'[i] = db[i]
<1>1. ASSUME NEW S, NEW v, Put(q, S, v), \A j \in S : Unlocked(q, j) PROVE db'[i] = db[i]
  BY <1>1 DEF Put, Unlocked, LocalInv, Typed, StoreOK
<1>2. CASE Clear(q)
  BY <1>1, <1>2 DEF Clear
<1>3. CASE Write(q)
  BY <1>1, <1>3 DEF Write, MayWrite
<1>4. CASE Ensure(q)
  <2>1. \A g \in fresh : Unlocked(q, g)
    BY FreshAway
  <2> QED
    BY <1>1, <1>4, <2>1 DEF Ensure
<1>5. CASE db' = db \/ db' = Session(q)
  <2>1. pending[q][i] = "same"
    BY DEF LocalInv, RowsInv, Locks
  <2> QED
    BY <1>5, <2>1 DEF Session, Sees
<1> QED
  BY <1>2, <1>3, <1>4, <1>5
     DEF RequestStep, Lock, Find, Look, Settle, Skip, Call, stores, Refused, CallRaises, Commit,
         CommitFails, Crash

LEMMA HeldRequest ==
    ASSUME LocalInv, HeldInv, NEW q \in Requests, RequestStep(q)
    PROVE  HeldInv'
<1>0. LocalOK /\ Own(q)' /\ Own(q) /\ Typed /\ \A p \in Requests \ {q} : Still(p)
  BY LocalRequest, Moves DEF LocalInv, Typed
<1> SUFFICES ASSUME NEW p \in Requests, NEW i \in Ids, method'[p].op = "update", pending'[p][i] \in Values
             PROVE  db'[i] \in Values
  BY DEF HeldInv
<1>1. CASE p # q
  <2>1. method[p].op = "update" /\ pending[p][i] \in Values
    BY <1>0, <1>1 DEF Still
  <2> QED
    BY <1>1, <2>1, HeldDb, ValuesApart DEF HeldInv
<1>2. CASE p = q
  <2>1. ~ Over(q) /\ method'[q].tx
    BY <1>0, <1>2, ValuesApart DEF Over, Own, Nothing
  <2>2. /\ method'[q] = method[q] /\ at[q] # 0
        /\ \/ Lock(q) \/ Find(q) \/ Look(q) \/ Clear(q) \/ Settle(q) \/ Write(q) \/ Ensure(q)
           \/ Skip(q) \/ Call(q)
    BY <2>1, OnlyForward DEF Forward
  <2>3. ~ Clear(q) /\ ~ Ensure(q)
    BY <1>0, <1>2, <2>2, Order, Special DEF Clear, Ensure
  <2>4. method[q].op = "update" /\ method[q].tx
    BY <1>2, <2>1, <2>2
  <2>5. pending[q][i] \in Values => db[i] \in Values
    BY <2>4 DEF HeldInv
  <2>6. CASE Write(q)
    <3>1. UNCHANGED db /\ (pending'[q][i] = pending[q][i] \/ i = id[q])
      BY <1>0, <2>4, <2>6 DEF Write, Put, Written, Typed, StoreOK
    <3>2. Exists(q, id[q])
      BY <2>4, <2>6 DEF Write, MayWrite
    <3> QED
      BY <1>2, <2>5, <3>1, <3>2 DEF Exists, Sees
  <2>7. CASE UNCHANGED <<db, pending>>
    BY <1>2, <2>5, <2>7
  <2> QED
    BY <2>2, <2>3, <2>6, <2>7 DEF Lock, Find, Look, Settle, Skip, Call, stores
<1> QED
  BY <1>1, <1>2

LEMMA HeldNext == ASSUME LocalInv, HeldInv, [Next]_vars PROVE HeldInv'
<1>1. ASSUME NEW q \in Requests, NEW m \in Methods, NEW i \in Ids, NEW v \in Values, Start(q, m, i, v)
      PROVE  HeldInv'
  BY <1>1, StartEmpty, ValuesApart DEF HeldInv, Still, stores, Nothing
<1>2. CASE UNCHANGED vars
  BY <1>2 DEF HeldInv, vars, stores, request
<1>3. ASSUME NEW q \in Requests, GetPorts(q) PROVE HeldInv'
  BY <1>2, <1>3 DEF GetPorts
<1> QED
  BY <1>1, <1>2, <1>3, HeldRequest DEF Next

LEMMA HeldInit == Init => HeldInv
BY ValuesApart DEF Init, HeldInv, Nothing

\* A call is about a row the request has written, but for floating ips and rules.
LEMMA ToldFirm ==
    ASSUME LocalInv, NEW q \in Requests, Calling(q), Subject(q) # NoId, NEW i \in Ids, Firm(i),
           pending[q][i] = "same"
    PROVE  i # Subject(q) /\ Told(Subject(q), ToldValue(q))[i] = director[i]
<1>0. LocalOK /\ at[q] # 0 /\ Own(q)
  BY NotIdle DEF LocalInv, Typed, Calling
<1>1. i \notin Rules(Subject(q))
  BY ToldKnown, RulesApart DEF Firm
<1>2. i # Subject(q)
  <2>1. CASE Step(q) = "tell"
    <3> SUFFICES ASSUME i = id[q] PROVE FALSE
      BY <2>1 DEF Subject
    <3>1. method[q].tx
      BY <1>0, IdKnown, TxKinds DEF Firm
    <3>2. pending[q][id[q]] = Becomes(q)
      BY <1>0, <2>1, <3>1, Order DEF Own
    <3>3. Becomes(q) # "same"
      BY <1>0, ValuesApart DEF Becomes, LocalOK
    <3> QED
      BY <3>2, <3>3
  <2>2. CASE Step(q) = "announce"
    <3>1. "ensure" \in Done(q) /\ Subject(q) = found[q]
      BY <1>0, <2>2, Order DEF Subject
    <3>2. pending[q][found[q]] \in Versions
      BY <1>0, <3>1 DEF Own
    <3> QED
      BY <3>1, <3>2, ValuesApart
  <2>3. CASE Step(q) = "unhook"
    <3>1. Kind[found[q]] = "floatingip" /\ Subject(q) = found[q]
      BY <1>0, <2>3, Order DEF Subject, Own
    <3> QED
      BY <3>1 DEF Firm
  <2> QED
    BY <2>1, <2>2, <2>3 DEF Calling
<1> QED
  BY <1>1, <1>2, ToldKnown

\* What a request has no hand in.
LEMMA FollowedKept ==
    ASSUME LocalInv, NEW q \in Requests, NEW i \in Ids, Followed(i),
           \A p \in Requests \ {q} : Still(p),
           pending[q][i] = "same", pending'[q][i] = "same", db'[i] = db[i], director'[i] = director[i],
           Kept(i)
    PROVE  Followed(i)'
<1>1. \A p \in Requests : pending'[p][i] = pending[p][i]
  BY DEF Still
<1>2. \A p \in Requests \ {q} : ToldOf(p, i)' = ToldOf(p, i)
  BY DEF Still, ToldOf
<1> HIDE DEF ToldOf
<1> QED
  BY <1>1, <1>2, NearSame DEF Followed, Kept

\* An exception in a transaction.
LEMMA FollowedLeave ==
    ASSUME LocalInv, NEW q \in Requests, NEW i \in Ids \ astray', Followed(i), Leave(q),
           \A p \in Requests \ {q} : Still(p),
           db' = db \/ db' = Session(q),
           pending[q][i] = "same" => director'[i] = director[i]
    PROVE  Followed(i)'
<1>1. pending'[q][i] = "same"
  BY DEF Leave, LocalInv, Typed, StoreOK, Nothing
<1>2. CASE pending[q][i] = "same"
  <2>1. db'[i] = db[i]
    BY <1>2 DEF Session, Sees
  <2> QED
    BY <1>1, <1>2, <2>1, FollowedKept DEF Leave, Kept
<1>3. CASE pending[q][i] # "same"
  <2>1. Near(behind', i, db'[i], director'[i])
    BY <1>3 DEF Leave, Touched
  <2>2. \A p \in Requests : pending'[p][i] = "same"
    BY <1>1, <1>3 DEF Still, LocalInv, RowsInv, Locks
  <2> QED
    BY <2>1, <2>2 DEF Followed
<1> QED
  BY <1>2, <1>3

\* A row the request has written, until its end.
LEMMA FollowedOwn ==
    ASSUME LocalInv, NEW q \in Requests, NEW i \in Ids, Followed(i),
           \A p \in Requests \ {q} : Still(p),
           pending[q][i] # "same", pending'[q][i] = pending[q][i], db'[i] = db[i],
           Near(behind', i, director'[i], IF ToldOf(q, i)' THEN pending[q][i] ELSE db[i])
    PROVE  Followed(i)'
<1>1. \A p \in Requests \ {q} : pending'[p][i] = "same"
  BY DEF Still, LocalInv, RowsInv, Locks
<1> HIDE DEF ToldOf
<1> QED
  BY <1>1 DEF Followed

\* A row that was written just now.
LEMMA FollowedWritten ==
    ASSUME LocalInv, NEW q \in Requests, NEW i \in Ids, Followed(i),
           \A p \in Requests \ {q} : Still(p),
           Unlocked(q, i), pending[q][i] = "same", db'[i] = db[i], director'[i] = director[i],
           ~ ToldOf(q, i)', Kept(i)
    PROVE  Followed(i)'
<1>1. \A p \in Requests : pending[p][i] = "same"
  BY DEF Unlocked
<1>2. Near(behind, i, db[i], director[i])
  BY <1>1 DEF Followed
<1>3. \A p \in Requests \ {q} : pending'[p][i] = "same"
  BY <1>1 DEF Still
<1> HIDE DEF ToldOf
<1> QED
  BY <1>2, <1>3, NearSame DEF Followed, Kept

\* Whose a written row is.
LEMMA OwnFirm ==
    ASSUME LocalInv, NEW q \in Requests, NEW i \in Ids, Firm(i), pending[q][i] # "same"
    PROVE  /\ method[q].tx /\ at[q] # 0
           /\ \/ i = id[q] /\ pending[q][i] = Becomes(q) /\ "write" \in Done(q)
              \/ i = found[q] /\ i # id[q] /\ Kind[i] = "default" /\ "ensure" \in Done(q)
<1>0. LocalOK /\ Own(q)
  BY DEF LocalInv, Typed
<1>1. method[q].tx /\ at[q] # 0
  BY <1>0 DEF Own, Nothing
<1>2. OwnRow(q, i)
  BY <1>0 DEF Own
<1>3. id[q] \in Ids /\ Kind[id[q]] \in method[q].on /\ WellFormed(method[q])
  BY <1>1, IdKnown
<1>4. "ensure" \in Done(q) => Kind[id[q]] # "default"
  BY <1>0, <1>1, <1>3, Order, SMTT(20) DEF WellFormed
<1> QED
  BY <1>1, <1>2, <1>3, <1>4, RulesApart DEF OwnRow, Firm

LEMMA FollowedForward ==
    ASSUME LocalInv, HeldInv, NEW q \in Requests, NEW i \in Ids, Followed(i), Firm(i),
           RequestStep(q), ~ Over(q)
    PROVE  Followed(i)'
<1>0. LocalOK /\ Own(q) /\ Typed
  BY DEF LocalInv, Typed
<1>1. /\ Forward(q) /\ at[q] # 0
      /\ \/ Lock(q) \/ Find(q) \/ Look(q) \/ Clear(q) \/ Settle(q) \/ Write(q) \/ Ensure(q)
         \/ Skip(q) \/ Call(q)
  BY OnlyForward
<1>2. \A p \in Requests \ {q} : Still(p)
  BY Moves
<1>3. Done(q)' = Done(q) \union {Step(q)} /\ id'[q] = id[q]
  BY <1>1 DEF Forward
<1>4. id[q] \in Ids /\ Kind[id[q]] \in method[q].on /\ method[q] \in AllMethods
  BY <1>1, IdKnown
<1>12. i # Subject(q) \/ ~ Calling(q) => Kept(i)
  BY KeptBehind DEF Call
<1>5. CASE pending[q][i] = "same" /\ (Lock(q) \/ Find(q) \/ Look(q) \/ Settle(q) \/ Skip(q))
  <2>1. Kept(i)
    BY <1>5 DEF Lock, Find, Look, Settle, Skip, history, Kept
  <2> QED
    BY <1>2, <1>5, <2>1, FollowedKept DEF Lock, Find, Look, Settle, Skip, stores
<1>6. CASE pending[q][i] = "same" /\ Call(q)
  <2>1. director'[i] = director[i] /\ UNCHANGED <<db, pending>> /\ Kept(i)
    BY <1>6, <1>12, ToldFirm DEF Call, Needless
  <2> QED
    BY <1>2, <1>6, <2>1, FollowedKept
<1>7. ASSUME NEW S \in SUBSET Ids, NEW v, Put(q, S, v), UNCHANGED director, i \notin S,
             Step(q) \notin {"tell", "announce"}, UNCHANGED behind
      PROVE  Followed(i)'
  <2>1. pending'[q][i] = pending[q][i] /\ db'[i] = db[i] /\ director'[i] = director[i]
    BY <1>7, PutEffect
  <2>2. ToldOf(q, i)' = ToldOf(q, i)
    BY <1>3, <1>7 DEF ToldOf
  <2>3. CASE pending[q][i] = "same"
    BY <1>2, <1>7, <2>1, <2>3, FollowedKept DEF Kept
  <2>4. CASE pending[q][i] # "same"
    <3>1. Near(behind, i, director[i], IF ToldOf(q, i) THEN pending[q][i] ELSE db[i])
      BY <2>4 DEF Followed
    <3> HIDE DEF ToldOf
    <3> QED
      BY <1>2, <1>7, <2>1, <2>2, <2>4, <3>1, FollowedOwn
  <2> QED
    BY <2>3, <2>4
<1>8. CASE Clear(q)
  BY <1>7, <1>8, ClearGood DEF Clear, history, Firm
<1>9. CASE Write(q)
  <2>1. /\ Step(q) = "write" /\ Put(q, Written(q), Becomes(q)) /\ UNCHANGED director
        /\ \A j \in Written(q) : Unlocked(q, j)
        /\ UNCHANGED behind
    BY <1>9 DEF Write, MayWrite, history
  <2>2. Written(q) \subseteq Ids
    BY <1>1, <1>9, WriteGood DEF Write
  <2>3. CASE i \notin Written(q)
    BY <1>7, <2>1, <2>2, <2>3
  <2>4. CASE i \in Written(q)
    <3>1. i = id[q]
      BY <1>4, <2>4, RulesApart DEF Written, Firm
    <3>2. method[q].tx
      BY <1>4, <3>1, TxKinds DEF Firm
    <3>3. "write" \notin Done(q) /\ "tell" \notin Done(q)
      BY <1>0, <1>1, <2>1, <3>2, Order
    <3>4. pending[q][i] = "same"
      BY <1>0, <3>1, <3>3, OwnFirm
    <3>5. ~ ToldOf(q, i)'
      BY <1>3, <2>1, <2>3, <3>1, <3>3 DEF ToldOf
    <3>6. db'[i] = db[i] /\ director'[i] = director[i] /\ Unlocked(q, i)
      BY <2>1, <2>4, <3>2 DEF Put
    <3> QED
      BY <1>2, <2>1, <3>4, <3>5, <3>6, FollowedWritten DEF Kept
  <2> QED
    BY <2>3, <2>4
<1>10. CASE Ensure(q)
  <2>1. Step(q) = "ensure" /\ method[q].tx /\ "announce" \notin Done(q) /\ UNCHANGED <<director, behind>>
    BY <1>0, <1>1, <1>10, Order DEF Ensure, history
  <2>2. CASE UNCHANGED <<db, pending>>
    <3>1. Put(q, {}, Free)
      BY <1>0, <2>1, <2>2 DEF Put, Typed, StoreOK
    <3> QED
      BY <1>7, <2>1, <3>1
  <2>3. ASSUME NEW g \in fresh, NEW v \in Versions, Kind[g] = "default", Put(q, {g}, v)
        PROVE  Followed(i)'
    <3>1. g \in Ids /\ g # id[q] /\ Unlocked(q, g)
      BY FreshAway
    <3>2. CASE i # g
      BY <1>7, <2>1, <2>3, <3>1, <3>2
    <3>3. CASE i = g
      <4>1. pending[q][i] = "same"
        BY <3>3 DEF LocalInv, FreshInv
      <4>2. ~ ToldOf(q, i)'
        BY <1>3, <2>1, <2>3, <3>1, <3>3 DEF ToldOf
      <4>3. db'[i] = db[i] /\ director'[i] = director[i]
        BY <2>1, <2>3 DEF Put
      <4> QED
        BY <1>2, <2>1, <3>1, <3>3, <4>1, <4>2, <4>3, FollowedWritten DEF Kept
    <3> QED
      BY <3>2, <3>3
  <2> QED
    BY <1>10, <2>2, <2>3 DEF Ensure
<1>11. CASE pending[q][i] # "same" /\ (Lock(q) \/ Find(q) \/ Look(q) \/ Settle(q) \/ Skip(q) \/ Call(q))
  <2>1. UNCHANGED <<db, pending>>
    BY <1>11 DEF Lock, Find, Look, Settle, Skip, Call, stores
  <2>2. /\ method[q].tx
        /\ \/ i = id[q] /\ pending[q][i] = Becomes(q) /\ "write" \in Done(q)
           \/ i = found[q] /\ i # id[q] /\ Kind[i] = "default" /\ "ensure" \in Done(q)
    BY <1>11, OwnFirm
  <2>3. Near(behind, i, director[i], IF ToldOf(q, i) THEN pending[q][i] ELSE db[i])
    BY <1>11 DEF Followed
  <2>4. Near(behind', i, director'[i], IF ToldOf(q, i)' THEN pending[q][i] ELSE db[i])
    <3>1. CASE Lock(q) \/ Find(q) \/ Look(q) \/ Settle(q)
      <4>1. ToldOf(q, i)' = ToldOf(q, i) /\ director' = director /\ behind' = behind
        BY <1>3, <3>1 DEF ToldOf, Lock, Find, Look, Settle, stores, history
      <4> HIDE DEF ToldOf
      <4> QED
        BY <2>3, <4>1
    <3>2. CASE Skip(q)
      <4>1. /\ director' = director /\ Calling(q) /\ Kept(i)
            /\ Needless(q) \/ (LeftBehind(q) /\ behind' = behind \union {Subject(q)})
        BY <3>2 DEF Skip, stores, Kept
      <4>2. CASE i = id[q] /\ Step(q) = "tell"
        <5>1. LeftBehind(q) /\ i \in behind'
          BY <4>1, <4>2, RulesApart, <1>0, <1>1, IdKnown DEF Needless, Subject
        <5>2. method[q].op = "update" /\ pending[q][i] \in Values
          BY <1>0, <2>2, <4>2, <5>1, RulesApart, Special DEF LeftBehind, Becomes, LocalOK
        <5>3. db[i] \in Values
          BY <5>2 DEF HeldInv
        <5>4. ~ ToldOf(q, i)
          BY <1>0, <1>1, <4>2, Order DEF ToldOf
        <5>5. director[i] \in Values
          BY <2>3, <5>3, <5>4, NearSame
        <5> QED
          BY <4>1, <5>1, <5>2, <5>3, <5>5, NearSame
      <4>3. CASE i # id[q] /\ Step(q) = "announce"
        <5>1. Subject(q) # NoId
          BY <2>2, <4>3, RulesApart DEF Subject
        <5>2. method[q].op = "create"
          BY <1>0, <1>1, <2>2, <4>3, Order
        <5> QED
          BY <4>1, <5>1, <5>2, Special DEF Needless, LeftBehind
      <4>4. CASE ~ (i = id[q] /\ Step(q) = "tell") /\ ~ (i # id[q] /\ Step(q) = "announce")
        <5>1. ToldOf(q, i)' = ToldOf(q, i)
          BY <1>3, <2>2, <4>4 DEF ToldOf
        <5> HIDE DEF ToldOf
        <5> QED
          BY <2>3, <4>1, <5>1, NearSame DEF Kept
      <4> QED
        BY <4>2, <4>3, <4>4
    <3>3. CASE Call(q)
      <4>1. /\ Calling(q) /\ Subject(q) # NoId /\ director' = Told(Subject(q), ToldValue(q))
        BY <3>3 DEF Call, Needless
      <4>2. i \notin Rules(Subject(q))
        BY <4>1, ToldKnown, RulesApart DEF Firm
      <4>3. CASE i # Subject(q)
        <5>1. director'[i] = director[i]
          BY <4>1, <4>2, <4>3, ToldKnown
        <5>2. ToldOf(q, i)' = ToldOf(q, i)
          BY <1>3, <2>2, <4>3 DEF ToldOf, Subject
        <5> HIDE DEF ToldOf
        <5> QED
          BY <1>12, <2>3, <4>3, <5>1, <5>2, NearSame DEF Kept
      <4>4. CASE i = Subject(q)
        <5>1. director'[i] = ToldValue(q)
          BY <4>1, <4>4, ToldKnown
        <5>2. CASE Step(q) = "tell"
          <6>1. i = id[q] /\ ToldValue(q) = Becomes(q)
            BY <4>4, <5>2 DEF Subject, ToldValue
          <6>2. pending[q][i] = Becomes(q)
            BY <2>2, <6>1
          <6>3. ToldOf(q, i)'
            BY <1>3, <5>2, <6>1 DEF ToldOf
          <6> QED
            BY <5>1, <6>1, <6>2, <6>3, NearSame
        <5>3. CASE Step(q) = "announce"
          <6>1. i = found[q] /\ "ensure" \in Done(q)
            BY <1>0, <1>1, <4>4, <5>3, Order DEF Subject
          <6>2. i # id[q]
            BY <1>0, <1>1, <1>4, <6>1, Order, IdKnown, RulesApart DEF Own, WellFormed
          <6>3. ToldOf(q, i)' /\ ToldValue(q) = pending[q][i]
            BY <1>3, <1>11, <2>2, <5>3, <6>1, <6>2 DEF ToldOf, ToldValue, Sees
          <6> QED
            BY <5>1, <6>3, NearSame
        <5>4. CASE Step(q) = "unhook"
          <6>1. Kind[i] = "floatingip"
            BY <1>0, <1>1, <4>1, <4>4, <5>4, Order DEF Subject, Own
          <6> QED
            BY <6>1 DEF Firm
        <5> QED
          BY <4>1, <5>2, <5>3, <5>4 DEF Calling
      <4> QED
        BY <4>3, <4>4
    <3> QED
      BY <1>11, <3>1, <3>2, <3>3
  <2> HIDE DEF ToldOf
  <2> QED
    BY <1>2, <1>11, <2>1, <2>4, FollowedOwn
<1> QED
  BY <1>1, <1>5, <1>6, <1>8, <1>9, <1>10, <1>11

\* Only a method without a transaction ends in a step other than the commit.
LEMMA OverPlain ==
    ASSUME LocalInv, NEW q \in Requests, Over(q), at[q] # 0, Step(q) # "commit",
           Lock(q) \/ Find(q) \/ Look(q) \/ Clear(q) \/ Settle(q) \/ Write(q) \/ Ensure(q)
           \/ Skip(q) \/ Call(q)
    PROVE  ~ method[q].tx
<1>0. LocalOK
  BY DEF LocalInv, Typed
<1> SUFFICES ASSUME method[q].tx PROVE FALSE
  OBVIOUS
<1>1. at'[q] = at[q] + 1 /\ method'[q] = method[q]
  <2>1. CASE Lock(q) \/ Settle(q)
    BY <1>0, <2>1 DEF Lock, Settle, LocalOK
  <2>2. ASSUME NEW o, Advance(q, o) PROVE at'[q] = at[q] + 1 /\ method'[q] = method[q]
    BY <1>0, <2>2, NoEnd DEF LocalOK
  <2> QED
    BY <2>1, <2>2 DEF Find, Look, Clear, Write, Ensure, Skip, Call
<1>2. Done(q)' = Done(q) \union {Step(q)}
  BY <1>0, <1>1, DoneAdvance
<1> QED
  BY <1>2 DEF Over

LEMMA FollowRequest ==
    ASSUME LocalInv, HeldInv, FollowInv, NEW q \in Requests, RequestStep(q)
    PROVE  FollowInv'
<1> SUFFICES ASSUME NEW i \in Ids \ astray', Firm(i) PROVE Followed(i)'
  BY DEF FollowInv, Firm
<1>0. Own(q)' /\ LocalOK /\ Own(q) /\ Typed
  BY LocalRequest DEF LocalInv, Typed
<1>1. i \notin astray
  BY DEF RequestStep, Lock, Find, Look, Clear, Settle, Write, Ensure, Refused, Skip, Call,
         CallRaises, Commit, CommitFails, Crash, Leave, Raise, GoOnWith, history
<1>2. Followed(i) /\ \A p \in Requests \ {q} : Still(p)
  BY <1>1, Moves DEF FollowInv
<1>3. CASE ~ Over(q)
  BY <1>2, <1>3, FollowedForward
<1>10. i # Subject(q) \/ ~ Call(q) => Kept(i)
  BY KeptBehind
<1>4. ASSUME Raise(q), UNCHANGED db, pending[q][i] = "same" => director'[i] = director[i],
             at[q] # 0
      PROVE  Followed(i)'
  <2>1. CASE Leave(q)
    BY <1>2, <1>4, <2>1, FollowedLeave
  <2>2. ASSUME NEW m, GoOnWith(q, m), method[q] \in {CreateFloatingip, UpdateFloatingip}
        PROVE  Followed(i)'
    <3>1. pending[q][i] = "same" /\ pending' = pending
      BY <1>0, <2>2, Special DEF Own, Nothing, GoOnWith
    <3> QED
      BY <1>2, <1>4, <2>2, <3>1, FollowedKept DEF GoOnWith, Kept
  <2> QED
    BY <1>4, <2>1, <2>2 DEF Raise
<1>5. CASE Refused(q)
  BY <1>4, <1>5, NotIdle DEF Refused
<1>6. CASE CallRaises(q)
  <2>1. pending[q][i] = "same" => director'[i] = director[i]
    BY <1>6, ToldFirm DEF CallRaises, Needless
  <2>2. at[q] # 0
    BY <1>6, NotIdle DEF CallRaises, Calling
  <2> QED
    BY <1>4, <1>6, <2>1, <2>2 DEF CallRaises
<1>7. CASE CommitFails(q) \/ Crash(q)
  <2>1. Leave(q) /\ (db' = db \/ db' = Session(q)) /\ director' = director
    BY <1>7 DEF CommitFails, Crash
  <2> QED
    BY <1>2, <2>1, FollowedLeave
<1>8. CASE Commit(q)
  <2>1. at[q] # 0 /\ Step(q) = "commit" /\ director' = director /\ db' = Session(q) /\ behind' = behind
    BY <1>8, NotIdle DEF Commit, history
  <2>2. pending'[q][i] = "same"
    BY <1>0, <1>8 DEF Commit, Typed, StoreOK, Nothing
  <2>3. CASE pending[q][i] = "same"
    <3>1. db'[i] = db[i]
      BY <2>1, <2>3 DEF Session, Sees
    <3> QED
      BY <1>2, <2>1, <2>2, <2>3, <3>1, FollowedKept DEF Kept
  <2>4. CASE pending[q][i] # "same"
    <3>1. \A p \in Requests : pending'[p][i] = "same"
      BY <1>2, <2>2, <2>4 DEF Still, LocalInv, RowsInv, Locks
    <3>2. ToldOf(q, i)
      BY <1>0, <2>1, <2>4, Order, OwnFirm DEF ToldOf
    <3>3. Near(behind, i, director[i], pending[q][i])
      BY <1>2, <2>4, <3>2 DEF Followed
    <3>4. db'[i] = pending[q][i]
      BY <2>1, <2>4 DEF Session, Sees
    <3> QED
      BY <2>1, <3>1, <3>3, <3>4, NearSame DEF Followed
  <2> QED
    BY <2>3, <2>4
<1>9. CASE Over(q) /\ (Lock(q) \/ Find(q) \/ Look(q) \/ Clear(q) \/ Settle(q) \/ Write(q) \/ Ensure(q)
                       \/ Skip(q) \/ Call(q))
  <2>1. at[q] # 0 /\ Step(q) # "commit"
    BY <1>9, NotIdle DEF Lock, Find, Look, Clear, Settle, Write, Ensure, Skip, Call, Calling
  <2>2. ~ method[q].tx
    BY <1>9, <2>1, OverPlain
  <2>3. pending[q][i] = "same" /\ pending'[q][i] = "same"
    BY <1>0, <1>9, <2>2 DEF Own, Over, Nothing
  <2>4. id[q] \in Ids /\ ~ Firm(id[q])
    BY <2>1, <2>2, IdKnown, TxKinds DEF Firm
  <2>5. db'[i] = db[i]
    <3>1. CASE Write(q)
      <4>1. i \notin Written(q)
        BY <2>4, RulesApart DEF Written, Firm
      <4> QED
        BY <2>2, <3>1, <4>1 DEF Write, Put
    <3>2. CASE Clear(q)
      BY <2>2, <3>2, ClearGood DEF Clear, Put, Firm
    <3>3. CASE Ensure(q)
      BY <1>0, <2>1, <2>2, <3>3, Order DEF Ensure
    <3> QED
      BY <1>9, <3>1, <3>2, <3>3 DEF Lock, Find, Look, Settle, Skip, Call, stores
  <2>6. director'[i] = director[i] /\ (Call(q) => i # Subject(q))
    BY <1>9, <2>3, ToldFirm DEF Lock, Find, Look, Clear, Settle, Write, Ensure, Skip, Call, stores, Needless
  <2> QED
    BY <1>2, <1>10, <2>3, <2>5, <2>6, FollowedKept
<1> QED
  BY <1>3, <1>5, <1>6, <1>7, <1>8, <1>9 DEF RequestStep

LEMMA FollowNext == ASSUME LocalInv, HeldInv, FollowInv, [Next]_vars PROVE FollowInv'
<1>1. ASSUME NEW q \in Requests, NEW m \in Methods, NEW i \in Ids, NEW v \in Values, Start(q, m, i, v)
      PROVE  FollowInv'
  <2> SUFFICES ASSUME NEW j \in Ids \ astray, Firm(j) PROVE Followed(j)'
    BY <1>1, StartEmpty DEF FollowInv, Firm
  <2>1. /\ UNCHANGED stores /\ pending[q][j] = "same" /\ \A p \in Requests \ {q} : Still(p)
        /\ Kept(j)
    BY <1>1, StartEmpty DEF Nothing, Start, Kept
  <2> QED
    BY <2>1, FollowedKept DEF FollowInv, stores
<1>2. CASE UNCHANGED vars
  <2>1. \A q \in Requests : Done(q)' = Done(q)
    BY <1>2, DoneFrame DEF vars, request
  <2> QED
    BY <1>2, <2>1 DEF FollowInv, Followed, ToldOf, Firm, Near, Alike, Absent, vars, stores, request, history
<1>3. ASSUME NEW q \in Requests, GetPorts(q) PROVE FollowInv'
  BY <1>2, <1>3 DEF GetPorts
<1> QED
  BY <1>1, <1>2, <1>3, FollowRequest DEF Next

LEMMA FollowInit == Init => FollowInv
<1> SUFFICES ASSUME Init PROVE FollowInv
  OBVIOUS
<1>1. director = db /\ \A q \in Requests, i \in Ids : pending[q][i] = "same"
  BY DEF Init, Nothing
<1> HIDE DEF Init
<1> QED
  BY <1>1, NearSame DEF FollowInv, Followed

-----------------------------------------------------------------------------
(* What the Director knows for certain is a Fabric                          *)

Rooting == \A i \in Ids \ astray : director[i] \in Values =>
               \A j \in Parents[i] \ astray : director[j] \in Values

\* Where everything an object belongs to is there and stays, the Director has it, too.
LEMMA ParentsThere ==
    ASSUME LocalInv, FollowInv, NEW q \in Requests, NEW i \in Ids, NEW j \in Parents[i] \ astray,
           Sees(q, j) \in Values, \A p \in Requests : pending[p][j] # "gone",
           pending[q][j] # "same" => ToldOf(q, j) \/ db[j] \in Values
    PROVE  director[j] \in Values
<1>1. j \in Ids /\ Firm(j)
  BY ParentsKnown, RulesApart DEF Firm
<1>2. Followed(j)
  BY <1>1 DEF FollowInv
<1>3. \A p \in Requests : pending[p][j] \in Values \union {"same"}
  BY <1>1 DEF LocalInv, Typed, StoreOK, Row, RowsInv, Locks
<1>4. \A x, y : Near(behind, j, x, y) /\ x \in Values => y \in Values
  BY NearSame
<1>5. CASE \A p \in Requests : pending[p][j] = "same"
  BY <1>2, <1>4, <1>5 DEF Followed, Sees
<1>6. ASSUME NEW p \in Requests, pending[p][j] # "same" PROVE director[j] \in Values
  <2>1. CASE p = q
    BY <1>2, <1>3, <1>4, <1>6, <2>1, NearSame DEF Followed
  <2>2. CASE p # q
    <3>1. pending[q][j] = "same" /\ db[j] \in Values
      BY <1>1, <1>6, <2>2 DEF LocalInv, RowsInv, Locks, Sees
    <3> QED
      BY <1>2, <1>3, <1>4, <1>6, <3>1, NearSame DEF Followed
  <2> QED
    BY <2>1, <2>2
<1> QED
  BY <1>5, <1>6

\* A call keeps them together.
LEMMA RootingTold ==
    ASSUME LocalInv, FloatInv, FollowInv, Rooting, NEW q \in Requests, Calling(q), Subject(q) # NoId,
           Possible(q, Subject(q), ToldValue(q)),
           NEW i \in Ids \ astray, NEW j \in Parents[i] \ astray,
           Told(Subject(q), ToldValue(q))[i] \in Values
    PROVE  Told(Subject(q), ToldValue(q))[j] \in Values
<1> DEFINE s == Subject(q)
           v == ToldValue(q)
<1>0. LocalOK /\ at[q] # 0 /\ Own(q) /\ Typed
  BY NotIdle DEF LocalInv, Typed, Calling
<1>1. /\ id[q] \in Ids /\ Kind[id[q]] \in method[q].on /\ method[q] \in AllMethods
      /\ value[q] \in Values
  BY <1>0, IdKnown DEF LocalOK
<1>2. j \in Ids /\ i # j /\ Firm(j)
  BY ParentsKnown, RulesApart DEF Firm
<1>3. /\ s \in Ids
      /\ \A k \in Ids : Told(s, v)[k] =
            IF k = s \/ (v = "gone" /\ k \in Rules(s) /\ director[k] \in Values) THEN v ELSE director[k]
  BY ToldKnown
<1>4. Step(q) = "announce" => Kind[s] = "default" /\ v \in Versions
  <2> SUFFICES ASSUME Step(q) = "announce" PROVE Kind[s] = "default" /\ v \in Versions
    OBVIOUS
  <2>1. "ensure" \in Done(q) /\ s = found[q] /\ v = Sees(q, found[q])
    BY <1>0, Order DEF Subject, ToldValue
  <2>2. Kind[s] = "default" /\ pending[q][s] \in Versions
    BY <1>0, <2>1 DEF Own
  <2> QED
    BY <2>1, <2>2, ValuesApart DEF Sees
<1>5. v \in Values \/ (v = "gone" /\ Step(q) = "tell" /\ s = id[q] /\ Becomes(q) = "gone")
  BY <1>1, <1>4, ValuesApart DEF Calling, ToldValue, Becomes, Subject
<1> HIDE DEF s, v
<1>6. CASE v = "gone"
  <2>1. director[i] \in Values /\ i # s /\ i \notin Rules(s)
    BY <1>3, <1>6, ValuesApart DEF s, v
  <2>2. director[j] \in Values
    BY <2>1 DEF Rooting
  <2>3. j # s
    <3> SUFFICES ASSUME j = s PROVE FALSE
      OBVIOUS
    <3>1. j = id[q] /\ Step(q) = "tell" /\ Becomes(q) = "gone"
      BY <1>5, <1>6, ValuesApart
    <3>2. method[q].tx
      BY <1>1, <1>2, <3>1, TxKinds DEF Firm
    <3>3. pending[q][j] = "gone"
      BY <1>0, <3>1, <3>2, Order DEF Own
    <3>4. pending[q][i] # "gone"
      <4> SUFFICES ASSUME pending[q][i] = "gone" PROVE FALSE
        OBVIOUS
      <4>1. OwnRow(q, i)
        BY <1>0 DEF Own
      <4> QED
        BY <1>2, <2>1, <3>1, <4>1, ValuesApart DEF OwnRow
    <3>5. db[i] \notin Values /\ \A p \in Requests : pending[p][i] = "same"
      BY <3>3, <3>4 DEF LocalInv, RowsInv, Alone
    <3>6. Kind[i] # "rule"
      BY <2>1 DEF Rules
    <3>7. Kind[i] # "floatingip"
      BY <2>1, <3>5 DEF FloatInv
    <3>8. Near(behind, i, db[i], director[i])
      BY <3>5, <3>6, <3>7 DEF FollowInv, Firm, Followed
    <3> QED
      BY <2>1, <3>5, <3>8, NearSame
  <2>4. j \notin Rules(s)
    BY <1>2, <1>3, RulesApart DEF Firm
  <2> QED
    BY <1>2, <1>3, <2>2, <2>3, <2>4 DEF s, v
<1>7. CASE v # "gone"
  <2>1. v \in Values
    BY <1>5, <1>7
  <2>2. SUFFICES ASSUME j # s PROVE director[j] \in Values
    BY <1>2, <1>3, <1>7, <2>1 DEF s, v
  <2>3. CASE director[i] \in Values
    BY <2>3 DEF Rooting
  <2>4. CASE director[i] \notin Values
    <3>1. i = s
      BY <1>3, <1>7, <2>4 DEF s, v
    <3>2. Step(q) # "announce"
      BY <1>4, <3>1, RulesApart
    <3>3. director[i] = "none" /\ method[q].op = "create"
      BY <1>7, <2>4, <3>1, <3>2 DEF Possible, s, v
    <3>4. Step(q) = "tell" /\ i = id[q]
      BY <1>0, <3>1, <3>2, <3>3, Order, Special DEF Calling, Subject, s
    <3>5. CASE method[q].tx
      <4>1. pending[q][i] \in Values
        BY <1>0, <1>1, <3>3, <3>4, <3>5, Order DEF Own, Becomes
      <4>2. Sees(q, j) \in Values /\ \A p \in Requests : pending[p][j] # "gone"
        BY <4>1 DEF LocalInv, RowsInv, Rooted
      <4>3. pending[q][j] # "same" => ToldOf(q, j)
        BY <1>0, <1>2, <3>4, Order, OwnFirm DEF ToldOf
      <4> QED
        BY <4>2, <4>3, ParentsThere
    <3>6. CASE ~ method[q].tx
      <4>1. method[q] = CreateFloatingip /\ Kind[i] = "floatingip"
        BY <1>1, <3>3, <3>4, <3>6, FloatMethods, Special
      <4>2. db[i] # "none" /\ db[i] # "gone"
        BY <1>0, <3>3, <3>4, <4>1, CreateWroteFirst DEF FloatInv
      <4>3. db[i] \in Values
        BY <1>0, <4>2 DEF Typed, StoreOK, Row
      <4>4. db[j] \in Values /\ pending[q][j] = "same"
        BY <1>0, <1>2, <3>6, <4>3 DEF LocalInv, RowsInv, DbWhole, Own, Nothing
      <4>5. ASSUME NEW p \in Requests, pending[p][j] = "gone" PROVE FALSE
        <5>1. pending[p][i] = "gone"
          BY <4>3, <4>5 DEF LocalInv, RowsInv, Alone
        <5>2. Own(p) /\ method[p].tx /\ at[p] # 0
          BY <5>1 DEF LocalInv, Own, Nothing
        <5>3. OwnRow(p, i)
          BY <5>1, <5>2 DEF Own
        <5>4. id[p] \in Ids /\ Kind[id[p]] # "floatingip"
          BY <5>2, IdKnown, TxKinds
        <5> QED
          BY <4>1, <5>1, <5>3, <5>4, RulesApart, ValuesApart DEF OwnRow
      <4> QED
        BY <4>4, <4>5, ParentsThere DEF Sees
    <3> QED
      BY <3>5, <3>6
  <2> QED
    BY <2>3, <2>4
<1> QED
  BY <1>6, <1>7 DEF s, v

LEMMA ToldAlive ==
    ASSUME LocalInv, NEW q \in Requests, Calling(q), Subject(q) # NoId
    PROVE  ToldValue(q) # "none"
<1>0. LocalOK /\ at[q] # 0 /\ Own(q) /\ value[q] \in Values
  BY NotIdle DEF LocalInv, Typed, LocalOK, Calling
<1>1. CASE Step(q) = "announce"
  <2>1. "ensure" \in Done(q) /\ found[q] # NoId /\ ToldValue(q) = Sees(q, found[q])
    BY <1>0, <1>1, Order DEF Subject, ToldValue
  <2>2. pending[q][found[q]] \in Versions
    BY <1>0, <2>1 DEF Own
  <2> QED
    BY <2>1, <2>2, ValuesApart DEF Sees
<1>2. CASE Step(q) # "announce"
  BY <1>0, <1>2, ValuesApart DEF Calling, ToldValue, Becomes
<1> QED
  BY <1>1, <1>2

DirectorInv == LocalInv /\ FloatInv /\ HeldInv /\ FollowInv /\ Rooting

\* What a step does to the Director.
LEMMA DirectorStep ==
    ASSUME DirectorInv, NEW q \in Requests, RequestStep(q)
    PROVE  /\ astray \subseteq astray'
           /\ \/ UNCHANGED director
              \/ /\ Calling(q) /\ Subject(q) # NoId /\ Possible(q, Subject(q), ToldValue(q))
                 /\ director' = Told(Subject(q), ToldValue(q))
BY DEF RequestStep, Lock, Find, Look, Clear, Settle, Write, Ensure, Refused, Skip, Call,
       CallRaises, Commit, CommitFails, Crash, Needless, stores, history, Raise, Leave, GoOnWith

LEMMA RootingRequest ==
    ASSUME DirectorInv, NEW q \in Requests, RequestStep(q)
    PROVE  Rooting'
<1> SUFFICES ASSUME NEW i \in Ids \ astray', NEW j \in Parents[i] \ astray', director'[i] \in Values
             PROVE  director'[j] \in Values
  BY DEF Rooting
<1>1. i \in Ids \ astray /\ j \in Parents[i] \ astray
  BY DirectorStep
<1>2. CASE UNCHANGED director
  BY <1>1, <1>2 DEF DirectorInv, Rooting
<1>3. CASE /\ Calling(q) /\ Subject(q) # NoId /\ Possible(q, Subject(q), ToldValue(q))
           /\ director' = Told(Subject(q), ToldValue(q))
  BY <1>1, <1>3, RootingTold DEF DirectorInv
<1> QED
  BY <1>2, <1>3, DirectorStep

LEMMA DirectorNext == ASSUME DirectorInv, [Next]_vars PROVE DirectorInv'
<1>1. LocalInv' /\ FloatInv' /\ HeldInv' /\ FollowInv'
  BY LocalNext, FloatNext, HeldNext, FollowNext DEF DirectorInv
<1>2. Rooting'
  <2>1. CASE UNCHANGED <<director, astray>>
    BY <2>1 DEF DirectorInv, Rooting
  <2>2. ASSUME NEW q \in Requests, RequestStep(q) PROVE Rooting'
    BY <2>2, RootingRequest
  <2> QED
    BY <2>1, <2>2, ZenonT(20) DEF Next, Start, GetPorts, vars, stores, history
<1> QED
  BY <1>1, <1>2 DEF DirectorInv

LEMMA DirectorInit == Init => DirectorInv
<1> SUFFICES ASSUME Init PROVE DirectorInv
  OBVIOUS
<1>1. LocalInv /\ FloatInv /\ HeldInv /\ FollowInv
  BY LocalInit, FloatInit, HeldInit, FollowInit
<1>2. Rooting
  BY <1>1 DEF Init, Rooting, LocalInv, RowsInv, DbWhole
<1> QED
  BY <1>1, <1>2 DEF DirectorInv

\* The refinement: every step is a change of the Fabric or a stutter.
LEMMA ChangeOrNot == ASSUME DirectorInv, [Next]_vars PROVE [AtDirector!Change]_Certain
<1>1. DirectorInv'
  BY DirectorNext
<1>2. CASE UNCHANGED <<director, astray>>
  BY <1>2 DEF Certain
<1>3. ASSUME NEW q \in Requests, RequestStep(q) PROVE AtDirector!Change
  <2>1. ASSUME NEW i \in Ids PROVE AtDirector!Evolves(Certain[i], Certain'[i])
    <3>0. director[i] \in Row /\ director'[i] \in Row
      BY <1>1 DEF DirectorInv, LocalInv, Typed, StoreOK
    <3>1. CASE i \in astray'
      BY <3>1 DEF Certain, AtDirector!Evolves
    <3>2. CASE i \notin astray'
      <4>1. i \notin astray /\ Certain[i] = director[i] /\ Certain'[i] = director'[i]
        BY <1>3, <3>2, DirectorStep DEF Certain
      <4>2. \/ director'[i] = director[i] \/ director'[i] = "gone"
            \/ director[i] = "none" /\ director'[i] # "none"
            \/ director[i] \in Values /\ director'[i] # "none"
        <5>1. CASE UNCHANGED director
          BY <5>1
        <5>2. CASE /\ Calling(q) /\ Subject(q) # NoId /\ Possible(q, Subject(q), ToldValue(q))
                   /\ director' = Told(Subject(q), ToldValue(q))
          BY <5>2, ToldKnown, ToldAlive DEF Possible, DirectorInv
        <5> QED
          BY <1>3, <5>1, <5>2, DirectorStep
      <4> QED
        BY <3>0, <4>1, <4>2 DEF AtDirector!Evolves, Row
    <3> QED
      BY <3>1, <3>2
  <2>2. AtDirector!Whole(Certain)'
    BY <1>1, ParentsKnown, MarkersAssumption
       DEF DirectorInv, Rooting, AtDirector!Whole, Certain, MarkersAssumption, Row
  <2> QED
    BY <2>1, <2>2 DEF AtDirector!Change
<1> QED
  BY <1>2, <1>3, ZenonT(20) DEF Next, Start, GetPorts, vars, stores, history

\* The Director gets every object after those it belongs to, loses it before them, and gets
\* none twice, but where a failure left the two stores different: whatever the objects are
\* and how they belong together, and however the requests of any number of workers interleave.
THEOREM DirectorIsFabricCorrect == Spec => DirectorIsFabric
<1>1. Init => AtDirector!FabricInit
  <2> SUFFICES ASSUME Init PROVE AtDirector!FabricInit
    OBVIOUS
  <2>1. DirectorInv
    BY DirectorInit
  <2>2. Certain = director
    BY <2>1 DEF Init, Certain, DirectorInv, LocalInv, Typed, StoreOK
  <2>3. \A i \in Ids : director[i] \in Values \union {"none"}
    BY ValuesApart DEF Init
  <2>4. AtDirector!Whole(director)
    BY <2>1 DEF Init, DirectorInv, Rooting, AtDirector!Whole
  <2> QED
    BY <2>1, <2>2, <2>3, <2>4 DEF AtDirector!FabricInit, DirectorInv, LocalInv, Typed, StoreOK
<1> QED
  BY <1>1, DirectorInit, DirectorNext, ChangeOrNot, PTL
     DEF Spec, DirectorIsFabric, AtDirector!FabricSpec

-----------------------------------------------------------------------------
(* What a request shall make is not there before                            *)

Making(q) == at[q] # 0 /\ method[q].op = "create" /\ "write" \notin Done(q)

UnbornInv ==
    \A q \in Requests : Making(q) =>
        /\ db[id[q]] = "none" /\ director[id[q]] = "none" /\ id[q] \notin fresh
        /\ \A p \in Requests : pending[p][id[q]] = "same" /\ found[p] # id[q]
        /\ \A p \in Requests \ {q} : id[p] # id[q]

LEMMA MakingSteps ==
    ASSUME LocalInv, NEW q \in Requests, Making(q)
    PROVE  Step(q) \notin {"tell", "commit", "look", "unhook", "clear"}
<1>0. LocalOK /\ at[q] # 0
  BY DEF LocalInv, Typed, Making
<1>1. Step(q) \notin {"commit", "look", "unhook", "clear"}
  BY <1>0, Order, Special DEF Making
<1>2. CASE method[q].tx
  BY <1>0, <1>1, <1>2, Order DEF Making
<1>3. CASE ~ method[q].tx
  <2>1. method[q] = CreateFloatingip
    BY <1>0, <1>3, IdKnown, FloatMethods DEF Making
  <2> QED
    BY <1>0, <1>1, <2>1, CreateWroteFirst DEF Making
<1> QED
  BY <1>2, <1>3

\* What a request does not come across.
LEMMA Aside ==
    ASSUME LocalInv, NEW q \in Requests, RequestStep(q), NEW i \in Ids,
           i # id[q] \/ Step(q) \notin {"write", "tell"}, i # found[q],
           db[i] \notin Values, director[i] \notin Values, i \notin fresh, pending[q][i] = "same"
    PROVE  /\ db'[i] = db[i] /\ director'[i] = director[i] /\ pending'[q][i] = "same"
           /\ found'[q] # i /\ (i # id[q] => id'[q] # i)
<1>0. LocalOK /\ Own(q)' /\ Typed /\ ~ Exists(q, i) /\ NoId # i
  BY LocalRequest, RulesApart DEF LocalInv, Typed, Exists, Sees
<1>1. ASSUME NEW S \in SUBSET Ids, NEW v, Put(q, S, v), i \notin S
      PROVE  db'[i] = db[i] /\ pending'[q][i] = "same"
  BY <1>1, PutEffect
<1>2. db'[i] = db[i] /\ pending'[q][i] = "same"
  <2>1. CASE Clear(q)
    BY <1>0, <1>1, <2>1, ClearGood DEF Clear
  <2>2. CASE Write(q)
    <3>1. at[q] # 0 /\ i \notin Written(q) /\ MayWrite(q, id[q]) /\ Put(q, Written(q), Becomes(q))
      BY <1>0, <2>2, NotIdle DEF Write, Written
    <3> QED
      BY <1>1, <3>1, WriteGood
  <2>3. CASE Ensure(q)
    <3>1. ASSUME NEW g \in fresh, Kind[g] = "default", NEW v \in Versions, Put(q, {g}, v)
          PROVE  db'[i] = db[i] /\ pending'[q][i] = "same"
      BY <1>1, <3>1, EnsureGood
    <3> QED
      BY <2>3, <3>1 DEF Ensure
  <2>4. CASE (db' = db \/ db' = Session(q)) /\ pending' = [pending EXCEPT ![q] = Nothing]
    BY <1>0, <2>4 DEF Session, Sees, Nothing, Typed, StoreOK
  <2>5. CASE UNCHANGED <<db, pending>>
    BY <2>5
  <2> QED
    BY <2>1, <2>2, <2>3, <2>4, <2>5 DEF RequestStep, Lock, Find, Look, Settle, Skip, Call, Refused,
       CallRaises, Commit, CommitFails, Crash, stores, Raise, Leave, GoOnWith
<1>3. director'[i] = director[i]
  <2>1. CASE director' = director
    BY <2>1
  <2>2. CASE Calling(q) /\ Subject(q) # NoId /\ director' = Told(Subject(q), ToldValue(q))
    BY <2>2, ToldKnown DEF Subject
  <2> QED
    BY <2>1, <2>2 DEF RequestStep, Lock, Find, Look, Clear, Settle, Write, Ensure, Refused, Skip,
       Call, CallRaises, Commit, CommitFails, Crash, stores, Needless
<1>4. found'[q] # i /\ (i # id[q] => id'[q] # i)
  <2>1. ASSUME NEW o, Advance(q, o), o # i PROVE found'[q] # i /\ (i # id[q] => id'[q] # i)
    BY <1>0, <2>1, OthersAdvance
  <2>2. CASE Look(q)
    <3>1. PICK f \in FloatingipsAt(q, PortOf(q)) \union {NoId} : Advance(q, f)
      BY <2>2 DEF Look
    <3>2. at[q] # 0 /\ Step(q) = "look"
      BY <2>2, NotIdle DEF Look
    <3>3. PortOf(q) \in Values
      <4>1. id[q] \in Ids /\ Kind[id[q]] \in method[q].on /\ value[q] \in Values
        BY <3>2, IdKnown DEF LocalInv, Typed, LocalOK
      <4> QED
        BY <4>1, Special, ValuesApart DEF PortOf, Ports, Values
    <3> QED
      BY <1>0, <2>1, <3>1, <3>3 DEF FloatingipsAt, Exists
  <2>3. CASE Leave(q)
    BY <1>0, <2>3, OthersEnd DEF Leave
  <2>4. ASSUME NEW m, GoOnWith(q, m) PROVE found'[q] # i /\ (i # id[q] => id'[q] # i)
    BY <1>0, <2>4, OthersGoOn
  <2>5. CASE Raise(q)
    BY <2>3, <2>4, <2>5 DEF Raise
  <2>6. CASE Ensure(q)
    BY <1>0, <2>1, <2>6 DEF Ensure
  <2>7. CASE Lock(q) \/ Settle(q)
    BY <2>7 DEF Lock, Settle
  <2> QED
    BY <2>1, <2>2, <2>3, <2>5, <2>6, <2>7 DEF RequestStep, Find, Clear, Write, Skip, Call, Refused,
       CallRaises, Commit, CommitFails, Crash
<1> QED
  BY <1>2, <1>3, <1>4

LEMMA OverHow ==
    ASSUME LocalInv, NEW q \in Requests, RequestStep(q), Over(q)
    PROVE  at'[q] = 0 \/ method'[q] \in {DeleteFloatingip, DisassociateFloatingips}
<1>0. LocalOK /\ Own(q)' /\ at[q] # 0
  BY NotIdle, LocalRequest
     DEF LocalInv, Typed, RequestStep, Lock, Find, Look, Clear, Settle, Write, Ensure, Refused,
         Skip, Call, CallRaises, Commit, CommitFails, Crash, Calling
<1>1. CASE End(q)
  BY <1>0, <1>1 DEF End, LocalOK
<1>2. ASSUME NEW m \in {DeleteFloatingip, DisassociateFloatingips}, GoOnWith(q, m)
      PROVE  method'[q] \in {DeleteFloatingip, DisassociateFloatingips}
  BY <1>0, <1>2 DEF GoOnWith, LocalOK
<1>3. CASE Raise(q)
  BY <1>1, <1>2, <1>3 DEF Raise, Leave
<1>4. ASSUME at'[q] = at[q] + 1, method'[q] = method[q] PROVE FALSE
  BY <1>0, <1>4, DoneAdvance DEF Over
<1>5. ASSUME NEW o, Advance(q, o) PROVE at'[q] = 0
  BY <1>0, <1>1, <1>4, <1>5 DEF Advance, LocalOK, End
<1>6. CASE Lock(q) \/ Settle(q)
  BY <1>0, <1>4, <1>6 DEF Lock, Settle, LocalOK
<1> QED
  BY <1>1, <1>3, <1>5, <1>6 DEF RequestStep, Find, Look, Clear, Write, Ensure, Refused, Skip, Call,
     CallRaises, Commit, CommitFails, Crash, Leave

LEMMA FreshShrinks ==
    ASSUME NEW q \in Requests, RequestStep(q)
    PROVE  fresh' \subseteq fresh
BY DEF RequestStep, Lock, Find, Look, Clear, Settle, Write, Ensure, Refused, Skip, Call,
       CallRaises, Commit, CommitFails, Crash

LEMMA UnbornRequest ==
    ASSUME LocalInv, UnbornInv, NEW q \in Requests, RequestStep(q)
    PROVE  UnbornInv'
<1> SUFFICES ASSUME NEW r \in Requests, Making(r)'
             PROVE  /\ db'[id'[r]] = "none" /\ director'[id'[r]] = "none" /\ id'[r] \notin fresh'
                    /\ \A p \in Requests : pending'[p][id'[r]] = "same" /\ found'[p] # id'[r]
                    /\ \A p \in Requests \ {r} : id'[p] # id'[r]
  BY DEF UnbornInv
<1>0. LocalOK /\ Typed /\ \A p \in Requests \ {q} : Still(p)
  BY Moves DEF LocalInv, Typed
<1>1. Making(r) /\ id'[r] = id[r] /\ (r = q => Step(q) # "write")
  <2>1. CASE r # q
    BY <1>0, <2>1 DEF Still, Making
  <2>2. CASE r = q /\ ~ Over(q)
    BY <2>2, OnlyForward DEF Making, Forward
  <2>3. CASE r = q /\ Over(q)
    BY <2>3, OverHow, Special DEF Making
  <2> QED
    BY <2>1, <2>2, <2>3
<1>2. id[r] \in Ids /\ db[id[r]] = "none" /\ director[id[r]] = "none" /\ id[r] \notin fresh
  BY <1>1, IdKnown DEF UnbornInv, Making
<1>3. id[r] # id[q] \/ Step(q) \notin {"write", "tell"}
  BY <1>1, MakingSteps DEF UnbornInv
<1>4. id[r] # found[q] /\ pending[q][id[r]] = "same"
  BY <1>1 DEF UnbornInv
<1>5. /\ db'[id[r]] = "none" /\ director'[id[r]] = "none" /\ pending'[q][id[r]] = "same"
      /\ found'[q] # id[r] /\ (id[r] # id[q] => id'[q] # id[r])
  BY <1>2, <1>3, <1>4, Aside, ValuesApart
<1>6. \A p \in Requests : pending'[p][id[r]] = "same" /\ found'[p] # id[r]
  BY <1>0, <1>1, <1>5 DEF Still, UnbornInv
<1>7. \A p \in Requests \ {r} : id'[p] # id[r]
  BY <1>0, <1>1, <1>5 DEF Still, UnbornInv
<1> QED
  BY <1>1, <1>2, <1>5, <1>6, <1>7, FreshShrinks

LEMMA UnbornNext == ASSUME LocalInv, UnbornInv, [Next]_vars PROVE UnbornInv'
<1>1. ASSUME NEW q \in Requests, NEW m \in Methods, NEW i \in Ids, NEW v \in Values, Start(q, m, i, v)
      PROVE  UnbornInv'
  <2> SUFFICES ASSUME NEW r \in Requests, Making(r)'
               PROVE  /\ db'[id'[r]] = "none" /\ director'[id'[r]] = "none" /\ id'[r] \notin fresh'
                      /\ \A p \in Requests : pending'[p][id'[r]] = "same" /\ found'[p] # id'[r]
                      /\ \A p \in Requests \ {r} : id'[p] # id'[r]
    BY DEF UnbornInv
  <2>1. /\ \A p \in Requests \ {q} : Still(p)
        /\ UNCHANGED <<db, pending, director, found>> /\ id'[q] = i /\ method'[q] = m /\ fresh' = fresh \ {i}
    BY <1>1, StartEmpty DEF Start, stores, LocalInv, Typed, LocalOK
  <2>2. CASE r = q
    <3>1. i \in fresh
      BY <1>1, <2>1, <2>2 DEF Making, Start
    <3> QED
      BY <2>1, <2>2, <3>1 DEF LocalInv, FreshInv, Still
  <2>3. CASE r # q
    <3>1. Making(r) /\ id'[r] = id[r]
      BY <2>1, <2>3 DEF Making, Still
    <3>2. i # id[r]
      BY <1>1, <3>1 DEF UnbornInv, Start
    <3> QED
      BY <2>1, <2>3, <3>1, <3>2 DEF UnbornInv, Still
  <2> QED
    BY <2>2, <2>3
<1>2. CASE UNCHANGED vars
  BY <1>2, DoneFrame DEF UnbornInv, Making, vars, stores, request
<1>3. ASSUME NEW q \in Requests, GetPorts(q) PROVE UnbornInv'
  BY <1>2, <1>3 DEF GetPorts
<1> QED
  BY <1>1, <1>2, <1>3, UnbornRequest DEF Next

LEMMA UnbornInit == Init => UnbornInv
BY DEF Init, UnbornInv, Making

-----------------------------------------------------------------------------
(* Rules, which are deleted in the database first                           *)

Removing(q, i) == method[q] = DeleteSecurityGroupRule /\ id[q] = i /\ "write" \in Done(q)

RuleInv ==
    /\ \A i \in Ids \ astray : Kind[i] = "rule" => Followed(i) \/ \E q \in Requests : Removing(q, i)
    /\ \A q \in Requests, i \in Ids : Removing(q, i) =>
          db[i] = "gone" /\ \A p \in Requests : pending[p][i] = "same"

\* Nothing comes back.
LEMMA GoneForGood ==
    ASSUME LocalInv, UnbornInv, NEW q \in Requests, RequestStep(q), NEW i \in Ids,
           db[i] = "gone", \A p \in Requests : pending[p][i] = "same"
    PROVE  db'[i] = "gone" /\ \A p \in Requests : pending'[p][i] = "same"
<1>0. /\ LocalOK /\ Typed /\ \A p \in Requests \ {q} : Still(p)
      /\ ~ Exists(q, i) /\ i \notin fresh
  BY Moves, ValuesApart DEF LocalInv, Typed, Exists, Sees, FreshInv
<1>1. db'[i] = "gone" /\ pending'[q][i] = "same"
  <2>0. ASSUME NEW S \in SUBSET Ids, NEW v, Put(q, S, v), i \notin S
        PROVE  db'[i] = db[i] /\ pending'[q][i] = "same"
    BY <2>0, PutEffect
  <2>1. CASE Clear(q)
    BY <1>0, <2>0, <2>1, ClearGood DEF Clear
  <2>2. CASE Write(q)
    <3>1. at[q] # 0 /\ Step(q) = "write" /\ MayWrite(q, id[q]) /\ Put(q, Written(q), Becomes(q))
      BY <2>2, NotIdle DEF Write
    <3>2. i # id[q]
      <4> SUFFICES ASSUME i = id[q] PROVE FALSE
        OBVIOUS
      <4>1. method[q].op = "create"
        BY <1>0, <3>1 DEF MayWrite
      <4>2. "write" \notin Done(q)
        BY <1>0, <3>1, Order
      <4> QED
        BY <3>1, <4>1, <4>2 DEF Making, UnbornInv
    <3>3. i \notin Written(q)
      BY <1>0, <3>2 DEF Written
    <3> QED
      BY <2>0, <3>1, <3>3, WriteGood
  <2>3. CASE Ensure(q)
    <3>1. ASSUME NEW g \in fresh, Kind[g] = "default", NEW v \in Versions, Put(q, {g}, v)
          PROVE  db'[i] = db[i] /\ pending'[q][i] = "same"
      BY <1>0, <2>0, <3>1, EnsureGood
    <3> QED
      BY <2>3, <3>1 DEF Ensure
  <2>4. CASE (db' = db \/ db' = Session(q)) /\ pending' = [pending EXCEPT ![q] = Nothing]
    BY <1>0, <2>4 DEF Session, Sees, Nothing, Typed, StoreOK
  <2>5. CASE UNCHANGED <<db, pending>>
    BY <2>5
  <2> QED
    BY <2>1, <2>2, <2>3, <2>4, <2>5 DEF RequestStep, Lock, Find, Look, Settle, Skip, Call, Refused,
       CallRaises, Commit, CommitFails, Crash, stores, Raise, Leave, GoOnWith
<1> QED
  BY <1>0, <1>1 DEF Still

LEMMA RemovingTells ==
    ASSUME LocalOK, NEW q \in Requests, method[q] = DeleteSecurityGroupRule
    PROVE  /\ "write" \in Done(q) => at[q] # 0 /\ Step(q) = "tell"
           /\ Step(q) = "write" => at[q] # Len(method[q].steps)
           /\ Step(q) = "tell" => "write" \in Done(q)
<1>1. DeleteSecurityGroupRule.steps = <<"find", "write", "tell">>
  BY DEF DeleteSecurityGroupRule, Plain
<1>2. at[q] # 0 => at[q] \in 1..3 /\ Step(q) = method[q].steps[at[q]]
  BY <1>1, StepKnown
<1>3. "write" \in Done(q) => at[q] = 3
  <2> SUFFICES ASSUME NEW k \in 1..(at[q] - 1), method[q].steps[k] = "write" PROVE at[q] = 3
    BY DEF Done
  <2>1. at[q] # 0
    BY DEF LocalOK
  <2>2. k \in 1..3 /\ k < at[q]
    BY <1>2, <2>1
  <2>3. k = 2
    BY <1>1, <2>2
  <2> QED
    BY <1>2, <2>1, <2>2, <2>3
<1>4. at[q] = 3 => "write" \in Done(q)
  <2> SUFFICES ASSUME at[q] = 3 PROVE "write" \in Done(q)
    OBVIOUS
  <2>1. 2 \in 1..(at[q] - 1) /\ method[q].steps[2] = "write"
    BY <1>1
  <2> QED
    BY <2>1 DEF Done
<1>5. Step(q) = "tell" => at[q] = 3
  BY <1>1, <1>2, NotIdle
<1>6. Step(q) = "write" => at[q] = 2
  BY <1>1, <1>2, NotIdle
<1> QED
  BY <1>1, <1>2, <1>3, <1>4, <1>5, <1>6

LEMMA RuleMethods == \A m \in AllMethods : ~ m.tx /\ "rule" \in m.on => m = DeleteSecurityGroupRule
BY Special
   DEF AllMethods, Methods, CreateNetwork, UpdateNetwork, DeleteNetwork, CreatePort,
       UpdatePort, DeletePort, CreateSubnet, UpdateSubnet, DeleteSubnet, CreateRouter, UpdateRouter,
       DeleteRouter, AddRouterInterface, RemoveRouterInterface, CreateSecurityGroup,
       UpdateSecurityGroup, DeleteSecurityGroup, CreateSecurityGroupRule, Transaction

\* Whose a written rule is.
LEMMA OwnRule ==
    ASSUME LocalInv, NEW q \in Requests, NEW i \in Ids, Kind[i] = "rule", pending[q][i] # "same"
    PROVE  /\ method[q].tx /\ at[q] # 0 /\ "write" \in Done(q) /\ pending[q][i] = Becomes(q)
           /\ i = id[q] \/ (i \in Rules(id[q]) /\ method[q].op = "delete" /\ Becomes(q) = "gone")
<1>1. Own(q)
  BY DEF LocalInv
<1>2. method[q].tx /\ at[q] # 0 /\ OwnRow(q, i)
  BY <1>1 DEF Own, Nothing
<1> QED
  BY <1>2 DEF OwnRow, Becomes

\* A call is about a rule that the request has written, or about none that is there.
LEMMA ToldRule ==
    ASSUME LocalInv, NEW q \in Requests, Calling(q), Subject(q) # NoId, NEW i \in Ids,
           Kind[i] = "rule", Followed(i), ~ Removing(q, i), pending[q][i] = "same"
    PROVE  i # Subject(q) /\ Told(Subject(q), ToldValue(q))[i] = director[i]
<1>0. LocalOK /\ at[q] # 0 /\ Own(q)
  BY NotIdle DEF LocalInv, Typed, Calling
<1>1. Step(q) = "announce" => Kind[Subject(q)] = "default" /\ ToldValue(q) # "gone"
  <2> SUFFICES ASSUME Step(q) = "announce" PROVE Kind[Subject(q)] = "default" /\ ToldValue(q) # "gone"
    OBVIOUS
  <2>1. "ensure" \in Done(q) /\ Subject(q) = found[q] /\ ToldValue(q) = Sees(q, found[q])
    BY <1>0, Order DEF Subject, ToldValue
  <2>2. Kind[Subject(q)] = "default" /\ pending[q][found[q]] \in Versions
    BY <1>0, <2>1 DEF Own
  <2> QED
    BY <2>1, <2>2, ValuesApart DEF Sees
<1>2. Step(q) = "unhook" => Kind[Subject(q)] = "floatingip" /\ ToldValue(q) # "gone"
  BY <1>0, Order, ValuesApart DEF Subject, ToldValue, Own
<1>3. i # Subject(q)
  <2> SUFFICES ASSUME i = id[q], Step(q) = "tell" PROVE FALSE
    BY <1>1, <1>2 DEF Subject, Calling
  <2>1. CASE method[q].tx
    <3>1. pending[q][i] = Becomes(q)
      BY <1>0, <2>1, Order DEF Own
    <3> QED
      BY <1>0, <3>1, ValuesApart DEF Becomes, LocalOK
  <2>2. CASE ~ method[q].tx
    <3>1. method[q] = DeleteSecurityGroupRule
      BY <1>0, <2>2, IdKnown, RuleMethods
    <3> QED
      BY <1>0, <3>1, RemovingTells DEF Removing
  <2> QED
    BY <2>1, <2>2
<1>4. ~ (ToldValue(q) = "gone" /\ i \in Rules(Subject(q)) /\ director[i] \in Values)
  <2> SUFFICES ASSUME ToldValue(q) = "gone", i \in Rules(Subject(q)), director[i] \in Values PROVE FALSE
    OBVIOUS
  <2>1. Step(q) = "tell" /\ Subject(q) = id[q] /\ Becomes(q) = "gone" /\ id[q] \in Parents[i] /\ id[q] \in Ids
    BY <1>0, <1>1, <1>2, IdKnown DEF Calling, Subject, ToldValue, Rules
  <2>2. method[q].tx
    BY <1>0, <2>1, IdKnown, RulesApart, TxKinds
  <2>3. pending[q][id[q]] = "gone"
    BY <1>0, <2>1, <2>2, Order DEF Own
  <2>4. db[i] \notin Values /\ \A p \in Requests : pending[p][i] = "same"
    BY <2>1, <2>3 DEF LocalInv, RowsInv, Alone
  <2>5. Near(behind, i, db[i], director[i])
    BY <2>4 DEF Followed
  <2> QED
    BY <2>4, <2>5, NearSame
<1> QED
  BY <1>3, <1>4, ToldKnown

LEMMA RuleForward ==
    ASSUME LocalInv, NEW q \in Requests, NEW i \in Ids, Kind[i] = "rule", Followed(i), ~ Removing(q, i),
           RequestStep(q), ~ Over(q)
    PROVE  Followed(i)' \/ Removing(q, i)'
<1>0. LocalOK /\ Own(q) /\ Typed
  BY DEF LocalInv, Typed
<1>1. /\ Forward(q) /\ at[q] # 0
      /\ \/ Lock(q) \/ Find(q) \/ Look(q) \/ Clear(q) \/ Settle(q) \/ Write(q) \/ Ensure(q)
         \/ Skip(q) \/ Call(q)
  BY OnlyForward
<1>2. \A p \in Requests \ {q} : Still(p)
  BY Moves
<1>3. Done(q)' = Done(q) \union {Step(q)} /\ id'[q] = id[q] /\ method'[q] = method[q]
  BY <1>1 DEF Forward
<1>4. id[q] \in Ids /\ Kind[id[q]] \in method[q].on /\ method[q] \in AllMethods
  BY <1>1, IdKnown
<1>12. i # Subject(q) \/ ~ Calling(q) => Kept(i)
  BY KeptBehind DEF Call
<1>5. CASE pending[q][i] = "same" /\ (Lock(q) \/ Find(q) \/ Look(q) \/ Settle(q) \/ Skip(q))
  <2>1. Kept(i)
    BY <1>5 DEF Lock, Find, Look, Settle, Skip, history, Kept
  <2> QED
    BY <1>2, <1>5, <2>1, FollowedKept DEF Lock, Find, Look, Settle, Skip, stores
<1>6. CASE pending[q][i] = "same" /\ Call(q)
  <2>1. director'[i] = director[i] /\ UNCHANGED <<db, pending>> /\ Kept(i)
    BY <1>6, <1>12, ToldRule DEF Call, Needless
  <2> QED
    BY <1>2, <1>6, <2>1, FollowedKept
<1>7. ASSUME NEW S \in SUBSET Ids, NEW v, Put(q, S, v), UNCHANGED director, i \notin S,
             Step(q) \notin {"tell", "announce"}, UNCHANGED behind
      PROVE  Followed(i)'
  <2>1. pending'[q][i] = pending[q][i] /\ db'[i] = db[i] /\ director'[i] = director[i]
    BY <1>7, PutEffect
  <2>2. ToldOf(q, i)' = ToldOf(q, i)
    BY <1>3, <1>7 DEF ToldOf
  <2>3. CASE pending[q][i] = "same"
    BY <1>2, <1>7, <2>1, <2>3, FollowedKept DEF Kept
  <2>4. CASE pending[q][i] # "same"
    <3>1. Near(behind, i, director[i], IF ToldOf(q, i) THEN pending[q][i] ELSE db[i])
      BY <2>4 DEF Followed
    <3> HIDE DEF ToldOf
    <3> QED
      BY <1>2, <1>7, <2>1, <2>2, <2>4, <3>1, FollowedOwn
  <2> QED
    BY <2>3, <2>4
<1>8. CASE Clear(q)
  BY <1>7, <1>8, ClearGood DEF Clear, history
<1>9. CASE Write(q)
  <2>1. /\ Step(q) = "write" /\ Put(q, Written(q), Becomes(q)) /\ UNCHANGED director
        /\ \A j \in Written(q) : Unlocked(q, j)
        /\ UNCHANGED behind
    BY <1>9 DEF Write, MayWrite, history
  <2>2. Written(q) \subseteq Ids
    BY <1>1, <1>9, WriteGood DEF Write
  <2>3. CASE i \notin Written(q)
    BY <1>7, <2>1, <2>2, <2>3
  <2>4. CASE i \in Written(q) /\ method[q].tx
    <3>1. "write" \notin Done(q) /\ "tell" \notin Done(q)
      BY <1>0, <1>1, <2>1, <2>4, Order
    <3>2. pending[q][i] = "same"
      BY <3>1, OwnRule
    <3>3. ~ ToldOf(q, i)'
      BY <1>3, <2>1, <3>1 DEF ToldOf
    <3>4. db'[i] = db[i] /\ director'[i] = director[i] /\ Unlocked(q, i)
      BY <2>1, <2>4 DEF Put
    <3> QED
      BY <1>2, <2>1, <3>2, <3>3, <3>4, FollowedWritten DEF Kept
  <2>5. CASE i \in Written(q) /\ ~ method[q].tx
    <3>1. i = id[q]
      BY <1>4, <2>5, RulesApart, TxKinds DEF Written
    <3>2. method[q] = DeleteSecurityGroupRule
      BY <1>4, <2>5, <3>1, RuleMethods
    <3> HIDE DEF Done
    <3> QED
      BY <1>3, <2>1, <3>1, <3>2 DEF Removing
  <2> QED
    BY <2>3, <2>4, <2>5
<1>10. CASE Ensure(q)
  <2>1. Step(q) = "ensure" /\ method[q].tx /\ UNCHANGED <<director, behind>>
    BY <1>0, <1>1, <1>10, Order DEF Ensure, history
  <2>2. CASE UNCHANGED <<db, pending>>
    <3>1. Put(q, {}, Free)
      BY <1>0, <2>1, <2>2 DEF Put, Typed, StoreOK
    <3> QED
      BY <1>7, <2>1, <3>1
  <2>3. ASSUME NEW g \in fresh, NEW v \in Versions, Kind[g] = "default", Put(q, {g}, v)
        PROVE  Followed(i)'
    <3>1. g \in Ids /\ i # g
      BY <2>3, FreshAway
    <3> QED
      BY <1>7, <2>1, <2>3, <3>1
  <2> QED
    BY <1>10, <2>2, <2>3 DEF Ensure
<1>11. CASE pending[q][i] # "same" /\ (Lock(q) \/ Find(q) \/ Look(q) \/ Settle(q) \/ Skip(q) \/ Call(q))
  <2>1. UNCHANGED <<db, pending>>
    BY <1>11 DEF Lock, Find, Look, Settle, Skip, Call, stores
  <2>2. /\ method[q].tx /\ pending[q][i] = Becomes(q)
        /\ i = id[q] \/ (i \in Rules(id[q]) /\ method[q].op = "delete" /\ Becomes(q) = "gone")
    BY <1>11, OwnRule
  <2>3. Near(behind, i, director[i], IF ToldOf(q, i) THEN pending[q][i] ELSE db[i])
    BY <1>11 DEF Followed
  <2>4. ToldOf(q, i)' <=> ToldOf(q, i) \/ Step(q) = "tell"
    BY <1>3 DEF ToldOf
  <2>5. Near(behind', i, director'[i], IF ToldOf(q, i)' THEN pending[q][i] ELSE db[i])
    <3>1. CASE director' = director /\ Step(q) # "tell" /\ Kept(i)
      <4> HIDE DEF ToldOf
      <4> QED
        BY <2>3, <2>4, <3>1, NearSame DEF Kept
    <3>2. CASE Skip(q) /\ Step(q) = "tell"
      <4>1. method[q] \in {UpdateSecurityGroup, UpdateSubnet}
        BY <1>4, <3>2, RulesApart DEF Skip, Needless, LeftBehind, Subject
      <4> QED
        BY <1>4, <2>2, <4>1, Special
    <3>3. CASE Call(q)
      <4>1. /\ Calling(q) /\ Subject(q) # NoId /\ director' = Told(Subject(q), ToldValue(q))
        BY <3>3 DEF Call, Needless
      <4>2. CASE Step(q) = "tell"
        <5>1. Subject(q) = id[q] /\ ToldValue(q) = Becomes(q)
          BY <4>2 DEF Subject, ToldValue
        <5>2. ToldOf(q, i)'
          BY <2>4, <4>2
        <5>3. Near(behind', i, director'[i], pending[q][i])
          <6>1. CASE director'[i] = Becomes(q)
            BY <2>2, <6>1, NearSame
          <6>2. CASE director'[i] # Becomes(q)
            <7>1. i \in Rules(id[q]) /\ Becomes(q) = "gone" /\ director'[i] = director[i]
                  /\ director[i] \notin Values
              BY <2>2, <4>1, <5>1, <6>2, ToldKnown
            <7>2. director[i] \in Absent
              BY <1>0, <7>1 DEF Typed, StoreOK, Row, Absent
            <7> QED
              BY <2>2, <7>1, <7>2 DEF Near, Alike, Absent
          <6> QED
            BY <6>1, <6>2
        <5> QED
          BY <5>2, <5>3
      <4>3. CASE Step(q) # "tell"
        <5>1. Kind[Subject(q)] # "rule" /\ ToldValue(q) # "gone"
          <6>1. CASE Step(q) = "announce"
            <7>1. "ensure" \in Done(q) /\ Subject(q) = found[q] /\ ToldValue(q) = Sees(q, found[q])
              BY <1>0, <1>1, <6>1, Order DEF Subject, ToldValue
            <7>2. Kind[Subject(q)] = "default" /\ pending[q][found[q]] \in Versions
              BY <1>0, <4>1, <7>1 DEF Own
            <7> QED
              BY <7>1, <7>2, ValuesApart DEF Sees
          <6>2. CASE Step(q) = "unhook"
            BY <1>0, <1>1, <4>1, <6>2, Order, ValuesApart DEF Subject, ToldValue, Own
          <6> QED
            BY <4>1, <4>3, <6>1, <6>2 DEF Calling
        <5>2. director'[i] = director[i]
          BY <4>1, <5>1, ToldKnown
        <5>3. Kept(i)
          BY <1>12, <5>1
        <5> HIDE DEF ToldOf
        <5> QED
          BY <2>3, <2>4, <4>3, <5>2, <5>3, NearSame DEF Kept
      <4> QED
        BY <4>2, <4>3
    <3> QED
      BY <1>11, <3>1, <3>2, <3>3 DEF Lock, Find, Look, Settle, Skip, stores, history, Kept
  <2> HIDE DEF ToldOf
  <2> QED
    BY <1>2, <1>11, <2>1, <2>5, FollowedOwn
<1> QED
  BY <1>1, <1>5, <1>6, <1>8, <1>9, <1>10, <1>11

\* A rule that is written by a plain delete, and is gone there.
LEMMA RemovingKept ==
    ASSUME LocalInv, UnbornInv, RuleInv, NEW q \in Requests, RequestStep(q), NEW p \in Requests,
           NEW i \in Ids, Removing(p, i)'
    PROVE  db'[i] = "gone" /\ \A r \in Requests : pending'[r][i] = "same"
<1>1. CASE Removing(p, i)
  BY <1>1, GoneForGood DEF RuleInv
<1>2. CASE ~ Removing(p, i)
  <2>0. LocalOK /\ Own(q)
    BY DEF LocalInv, Typed
  <2>1. p = q /\ ~ Over(q)
    BY <1>2, Moves DEF Removing, Still, Over
  <2>2. /\ Forward(q) /\ at[q] # 0
        /\ \/ Lock(q) \/ Find(q) \/ Look(q) \/ Clear(q) \/ Settle(q) \/ Write(q) \/ Ensure(q)
           \/ Skip(q) \/ Call(q)
    BY <2>1, OnlyForward
  <2>3. method[q] = DeleteSecurityGroupRule /\ id[q] = i /\ Step(q) = "write"
    BY <1>2, <2>1, <2>2 DEF Removing, Forward
  <2>4. Write(q)
    BY <2>2, <2>3 DEF Lock, Find, Look, Clear, Settle, Ensure, Skip, Call, Calling
  <2>5. i \in Written(q) /\ Becomes(q) = "gone" /\ ~ method[q].tx
    BY <2>3, Special DEF Written, Becomes
  <2>6. Unlocked(q, i) /\ pending[q] = Nothing /\ pending' = pending /\ db'[i] = "gone"
    BY <2>0, <2>4, <2>5 DEF Write, MayWrite, Put, Own
  <2> QED
    BY <2>6 DEF Unlocked, Nothing
<1> QED
  BY <1>1, <1>2

\* The end of a method that is removing a rule.
LEMMA RemovingOver ==
    ASSUME LocalInv, UnbornInv, RuleInv, NEW q \in Requests, RequestStep(q), Over(q),
           NEW i \in Ids \ astray', Removing(q, i)
    PROVE  Followed(i)'
<1>0. LocalOK /\ Typed
  BY DEF LocalInv, Typed
<1>1. at[q] # 0 /\ Step(q) = "tell" /\ id[q] = i /\ method[q] = DeleteSecurityGroupRule
  BY <1>0, RemovingTells DEF Removing
<1>2. db'[i] = "gone" /\ \A r \in Requests : pending'[r][i] = "same"
  BY GoneForGood DEF RuleInv
<1>3. Subject(q) = i /\ i # NoId /\ ToldValue(q) = "gone"
  BY <1>1, RulesApart, Special DEF Subject, ToldValue, Becomes
<1>4. CASE Call(q)
  <2>1. director'[i] = "gone"
    BY <1>3, <1>4, ToldKnown DEF Call
  <2> QED
    BY <1>2, <2>1, NearSame DEF Followed
<1>5. CASE Leave(q)
  <2>1. Near(behind', i, db'[i], director'[i])
    BY <1>1, <1>5 DEF Leave, Touched
  <2> QED
    BY <1>2, <2>1 DEF Followed
<1>6. CASE Raise(q)
  <2>1. method[q] # CreateFloatingip /\ method[q] # UpdateFloatingip
    BY <1>1, Special
  <2> QED
    BY <1>5, <1>6, <2>1 DEF Raise
<1>7. ~ Skip(q)
  BY <1>1, <1>3, Special DEF Skip, Needless, LeftBehind
<1> QED
  BY <1>1, <1>4, <1>5, <1>6, <1>7
     DEF RequestStep, Lock, Find, Look, Clear, Settle, Write, Ensure, Refused, CallRaises, Commit,
         CommitFails, Crash

\* The end of any other method.
LEMMA RuleOver ==
    ASSUME LocalInv, NEW q \in Requests, RequestStep(q), Over(q),
           NEW i \in Ids \ astray', Kind[i] = "rule", Followed(i), ~ Removing(q, i)
    PROVE  Followed(i)'
<1>0. LocalOK /\ Own(q) /\ Typed
  BY DEF LocalInv, Typed
<1>2. \A p \in Requests \ {q} : Still(p)
  BY Moves
<1>10. i # Subject(q) \/ ~ Call(q) => Kept(i)
  BY KeptBehind
<1>4. ASSUME Raise(q), UNCHANGED db, pending[q][i] = "same" => director'[i] = director[i],
             at[q] # 0
      PROVE  Followed(i)'
  <2>1. CASE Leave(q)
    BY <1>2, <1>4, <2>1, FollowedLeave
  <2>2. ASSUME NEW m, GoOnWith(q, m), method[q] \in {CreateFloatingip, UpdateFloatingip}
        PROVE  Followed(i)'
    <3>1. pending[q][i] = "same" /\ pending' = pending
      BY <1>0, <2>2, Special DEF Own, Nothing, GoOnWith
    <3> QED
      BY <1>2, <1>4, <2>2, <3>1, FollowedKept DEF GoOnWith, Kept
  <2> QED
    BY <1>4, <2>1, <2>2 DEF Raise
<1>5. CASE Refused(q)
  BY <1>4, <1>5, NotIdle DEF Refused
<1>6. CASE CallRaises(q)
  <2>1. pending[q][i] = "same" => director'[i] = director[i]
    BY <1>6, ToldRule DEF CallRaises, Needless
  <2>2. at[q] # 0
    BY <1>6, NotIdle DEF CallRaises, Calling
  <2> QED
    BY <1>4, <1>6, <2>1, <2>2 DEF CallRaises
<1>7. CASE CommitFails(q) \/ Crash(q)
  <2>1. Leave(q) /\ (db' = db \/ db' = Session(q)) /\ director' = director
    BY <1>7 DEF CommitFails, Crash
  <2> QED
    BY <1>2, <2>1, FollowedLeave
<1>8. CASE Commit(q)
  <2>1. at[q] # 0 /\ Step(q) = "commit" /\ director' = director /\ db' = Session(q) /\ behind' = behind
    BY <1>8, NotIdle DEF Commit, history
  <2>2. pending'[q][i] = "same"
    BY <1>0, <1>8 DEF Commit, Typed, StoreOK, Nothing
  <2>3. CASE pending[q][i] = "same"
    <3>1. db'[i] = db[i]
      BY <2>1, <2>3 DEF Session, Sees
    <3> QED
      BY <1>2, <2>1, <2>2, <2>3, <3>1, FollowedKept DEF Kept
  <2>4. CASE pending[q][i] # "same"
    <3>1. \A p \in Requests : pending'[p][i] = "same"
      BY <1>2, <2>2, <2>4 DEF Still, LocalInv, RowsInv, Locks
    <3>2. ToldOf(q, i)
      BY <1>0, <2>1, Order DEF ToldOf
    <3>3. Near(behind, i, director[i], pending[q][i])
      BY <2>4, <3>2 DEF Followed
    <3>4. db'[i] = pending[q][i]
      BY <2>1, <2>4 DEF Session, Sees
    <3> QED
      BY <2>1, <3>1, <3>3, <3>4, NearSame DEF Followed
  <2> QED
    BY <2>3, <2>4
<1>9. CASE Lock(q) \/ Find(q) \/ Look(q) \/ Clear(q) \/ Settle(q) \/ Write(q) \/ Ensure(q)
           \/ Skip(q) \/ Call(q)
  <2>1. at[q] # 0 /\ Step(q) # "commit"
    BY <1>9, NotIdle DEF Lock, Find, Look, Clear, Settle, Write, Ensure, Skip, Call, Calling
  <2>2. ~ method[q].tx
    BY <1>9, <2>1, OverPlain
  <2>3. pending[q][i] = "same" /\ pending'[q][i] = "same"
    BY <1>0, <2>2 DEF Own, Over, Nothing
  <2>5. db'[i] = db[i]
    <3>1. CASE Write(q)
      <4>1. Step(q) = "write" /\ Put(q, Written(q), Becomes(q)) /\ Advance(q, found[q])
        BY <3>1 DEF Write
      <4>2. method[q] # DeleteSecurityGroupRule
        <5> SUFFICES ASSUME method[q] = DeleteSecurityGroupRule PROVE FALSE
          OBVIOUS
        <5>1. at[q] # Len(method[q].steps)
          BY <1>0, <4>1, RemovingTells
        <5>2. at'[q] = at[q] + 1 /\ method'[q] = method[q]
          BY <1>0, <4>1, <5>1 DEF Advance, LocalOK
        <5> QED
          BY <1>0, <2>1, <5>2, DoneAdvance DEF Over
      <4>3. id[q] \in Ids /\ Kind[id[q]] = "floatingip"
        BY <2>1, <2>2, <4>2, IdKnown, TxKinds, RuleMethods
      <4>4. i \notin Written(q)
        BY <4>3, RulesApart DEF Written
      <4> QED
        BY <2>2, <4>1, <4>4 DEF Put
    <3>2. CASE Clear(q)
      BY <2>2, <3>2, ClearGood DEF Clear, Put
    <3>3. CASE Ensure(q)
      BY <1>0, <2>1, <2>2, <3>3, Order DEF Ensure
    <3> QED
      BY <1>9, <3>1, <3>2, <3>3 DEF Lock, Find, Look, Settle, Skip, Call, stores
  <2>6. director'[i] = director[i] /\ (Call(q) => i # Subject(q))
    BY <1>9, <2>3, ToldRule DEF Lock, Find, Look, Clear, Settle, Write, Ensure, Skip, Call, stores, Needless
  <2> QED
    BY <1>2, <1>10, <2>3, <2>5, <2>6, FollowedKept
<1> QED
  BY <1>5, <1>6, <1>7, <1>8, <1>9 DEF RequestStep

LEMMA RuleRequest ==
    ASSUME LocalInv, UnbornInv, RuleInv, NEW q \in Requests, RequestStep(q)
    PROVE  RuleInv'
<1>1. ASSUME NEW i \in Ids \ astray', Kind[i] = "rule"
      PROVE  Followed(i)' \/ \E p \in Requests : Removing(p, i)'
  <2>1. i \notin astray
    BY DEF RequestStep, Lock, Find, Look, Clear, Settle, Write, Ensure, Refused, Skip, Call,
           CallRaises, Commit, CommitFails, Crash, Leave, Raise, GoOnWith, history
  <2>2. ASSUME NEW p \in Requests \ {q}, Removing(p, i) PROVE Removing(p, i)'
    BY <2>2, Moves DEF Still, Removing
  <2>3. CASE Removing(q, i)
    <3>1. CASE Over(q)
      BY <2>3, <3>1, RemovingOver
    <3>2. CASE ~ Over(q)
      <4>1. Forward(q)
        BY <3>2, OnlyForward
      <4> QED
        BY <2>3, <4>1 DEF Forward, Removing
    <3> QED
      BY <3>1, <3>2
  <2>4. CASE \A p \in Requests : ~ Removing(p, i)
    <3>1. Followed(i) /\ ~ Removing(q, i)
      BY <1>1, <2>1, <2>4 DEF RuleInv
    <3> QED
      BY <1>1, <3>1, RuleForward, RuleOver
  <2> QED
    BY <2>2, <2>3, <2>4
<1> QED
  BY <1>1, RemovingKept DEF RuleInv

LEMMA RuleNext == ASSUME LocalInv, UnbornInv, RuleInv, [Next]_vars PROVE RuleInv'
<1>1. ASSUME NEW q \in Requests, NEW m \in Methods, NEW i \in Ids, NEW v \in Values, Start(q, m, i, v)
      PROVE  RuleInv'
  <2>1. /\ UNCHANGED <<stores, astray>> /\ pending[q] = Nothing /\ Done(q)' = {}
        /\ \A p \in Requests \ {q} : Still(p)
    BY <1>1, StartEmpty
  <2>2. \A p \in Requests, j \in Ids : Removing(p, j)' => Removing(p, j)
    BY <2>1 DEF Removing, Still
  <2>3. \A p \in Requests, j \in Ids : Removing(p, j) => Removing(p, j)'
    <3>1. at[q] = 0
      BY <1>1 DEF Start
    <3>2. Done(q) = {}
      BY <3>1, DoneNothing
    <3> QED
      BY <2>1, <3>2 DEF Removing, Still
  <2>4. ASSUME NEW j \in Ids, Followed(j) PROVE Followed(j)'
    <3>1. UNCHANGED <<db, pending, director>> /\ pending[q][j] = "same" /\ Kept(j)
      BY <1>1, <2>1 DEF stores, Nothing, Start, Kept
    <3> QED
      BY <2>1, <2>4, <3>1, FollowedKept
  <2> HIDE DEF Removing, Followed
  <2> QED
    BY <2>1, <2>2, <2>3, <2>4 DEF RuleInv, stores
<1>2. CASE UNCHANGED vars
  <2>1. \A q \in Requests : Done(q)' = Done(q)
    BY <1>2, DoneFrame DEF vars, request
  <2> QED
    BY <1>2, <2>1 DEF RuleInv, Followed, Removing, ToldOf, Near, Alike, Absent, vars, stores, request, history
<1>3. ASSUME NEW q \in Requests, GetPorts(q) PROVE RuleInv'
  BY <1>2, <1>3 DEF GetPorts
<1> QED
  BY <1>1, <1>2, <1>3, RuleRequest DEF Next

LEMMA RuleInit == Init => RuleInv
<1> SUFFICES ASSUME Init PROVE RuleInv
  OBVIOUS
<1>1. director = db /\ \A q \in Requests, i \in Ids : pending[q][i] = "same"
  BY DEF Init, Nothing
<1>2. \A q \in Requests : Done(q) = {}
  BY DoneNothing DEF Init
<1> QED
  BY <1>1, <1>2, NearSame DEF RuleInv, Followed, Removing

-----------------------------------------------------------------------------
(* Floating ips, with one request about them at a time                      *)

Fips == {i \in Ids : Kind[i] = "floatingip"}
About(q) == at[q] # 0 /\ AboutFloatingips(method[q])

OneInv == ~ crossed => \A p, q \in Requests : About(p) /\ About(q) => p = q

\* One floating ip per port.
LonelyInv == \A i, j \in Fips : db[i] = db[j] /\ db[i] \in Ports => i = j

LEMMA AboutMethods ==
    \A m \in AllMethods : AboutFloatingips(m) <=>
        m \in {CreateFloatingip, UpdateFloatingip, DeleteFloatingip, DisassociateFloatingips, DeletePort}
BY Special
   DEF AboutFloatingips, AllMethods, Methods, CreateNetwork, UpdateNetwork, DeleteNetwork, CreatePort,
       UpdatePort, DeletePort, CreateSubnet, UpdateSubnet, DeleteSubnet, CreateRouter, UpdateRouter,
       DeleteRouter, AddRouterInterface, RemoveRouterInterface, CreateSecurityGroup,
       UpdateSecurityGroup, DeleteSecurityGroup, CreateSecurityGroupRule, DeleteSecurityGroupRule,
       Transaction, Plain

\* What a step may make of a floating ip's row.
LEMMA FloatRows ==
    ASSUME LocalInv, NEW q \in Requests, RequestStep(q), NEW i \in Fips
    PROVE  /\ \/ db'[i] = db[i]
              \/ db'[i] \in {Free, "gone"}
              \/ /\ i = id[q] /\ db'[i] = value[q]
                 /\ value[q] \in Ports => FloatingipsAt(q, value[q]) \subseteq {i} /\ pending[q] = Nothing
           /\ ~ About(q) => db'[i] = db[i] /\ pending[q][i] = "same" /\ pending'[q][i] = "same"
<1>0. LocalOK /\ Own(q) /\ Own(q)' /\ Typed /\ i \in Ids /\ Kind[i] = "floatingip" /\ at[q] # 0
  BY NotIdle, LocalRequest
     DEF LocalInv, Typed, Fips, RequestStep, Lock, Find, Look, Clear, Settle, Write, Ensure, Refused,
         Skip, Call, CallRaises, Commit, CommitFails, Crash, Calling
<1>1. id[q] \in Ids /\ Kind[id[q]] \in method[q].on /\ method[q] \in AllMethods
  BY <1>0, IdKnown
<1>2. pending[q][i] # "same" => method[q] = DeletePort /\ pending[q][i] = Free
  <2> SUFFICES ASSUME pending[q][i] # "same" PROVE method[q] = DeletePort /\ pending[q][i] = Free
    OBVIOUS
  <2>1. OwnRow(q, i) /\ method[q].tx
    BY <1>0 DEF Own, Nothing
  <2>2. Kind[id[q]] # "floatingip"
    BY <1>1, <2>1, TxKinds
  <2>3. i # id[q] /\ i \notin Rules(id[q]) /\ Kind[i] # "default"
    BY <1>0, <1>1, <2>2, RulesApart
  <2> QED
    BY <2>1, <2>3 DEF OwnRow
<1>3. CASE Clear(q)
  <2>1. About(q)
    BY <1>0, <1>1, <1>3, Order, AboutMethods DEF Clear, About
  <2> QED
    BY <1>0, <1>3, <2>1 DEF Clear, Put
<1>4. CASE Write(q)
  <2>1. i \in Written(q) => i = id[q] /\ About(q) /\ ~ method[q].tx
    BY <1>0, <1>1, RulesApart, TxKinds DEF Written, About, AboutFloatingips
  <2>2. Put(q, Written(q), Becomes(q)) /\ MayWrite(q, id[q])
    BY <1>4 DEF Write
  <2>3. CASE i \notin Written(q)
    <3>1. db'[i] = db[i] /\ pending'[q][i] = pending[q][i]
      BY <1>0, <2>2, <2>3 DEF Put, Typed, StoreOK
    <3> QED
      BY <1>0, <1>1, <1>2, <3>1, AboutMethods DEF About
  <2>4. CASE i \in Written(q)
    <3>1. pending[q] = Nothing /\ db'[i] = Becomes(q)
      BY <1>0, <2>1, <2>2, <2>4 DEF Own, Put
    <3>2. method[q].op # "delete" /\ value[q] \in Ports => FloatingipsAt(q, value[q]) \subseteq {i}
      BY <1>0, <2>1, <2>2, <2>4 DEF MayWrite, MayAssociate
    <3> QED
      BY <2>1, <2>4, <3>1, <3>2 DEF Becomes
  <2> QED
    BY <2>3, <2>4
<1>5. CASE Ensure(q)
  <2>1. Step(q) = "ensure"
    BY <1>5 DEF Ensure
  <2>2. method[q].tx /\ method[q].op = "create"
    BY <1>0, <2>1, Order
  <2>3. method[q] # DeletePort
    BY <2>2, Special
  <2>4. UNCHANGED db
    BY <1>5, <2>2 DEF Ensure, Put
  <2>5. pending'[q][i] = pending[q][i]
    <3>1. ASSUME NEW g \in fresh, NEW v, Kind[g] = "default", Put(q, {g}, v)
          PROVE  pending'[q][i] = pending[q][i]
      BY <1>0, <2>2, <3>1 DEF Put, Typed, StoreOK
    <3> QED
      BY <1>5, <3>1 DEF Ensure
  <2> QED
    BY <1>2, <2>3, <2>4, <2>5
<1>6. CASE (db' = db \/ db' = Session(q)) /\ (pending' = pending \/ pending' = [pending EXCEPT ![q] = Nothing])
  <2>1. db'[i] = db[i] \/ (pending[q][i] # "same" /\ db'[i] = pending[q][i])
    BY <1>0, <1>6 DEF Session, Sees
  <2>2. pending'[q][i] \in {pending[q][i], "same"}
    BY <1>0, <1>6 DEF Nothing, Typed, StoreOK
  <2> QED
    BY <1>0, <1>1, <1>2, <2>1, <2>2, AboutMethods DEF About
<1> QED
  BY <1>3, <1>4, <1>5, <1>6
     DEF RequestStep, Lock, Find, Look, Settle, Skip, Call, stores, Refused, CallRaises, Commit,
         CommitFails, Crash, Raise, Leave, GoOnWith

LEMMA LonelyNext == ASSUME LocalInv, LonelyInv, [Next]_vars PROVE LonelyInv'
<1>1. ASSUME NEW q \in Requests, RequestStep(q) PROVE LonelyInv'
  <2> SUFFICES ASSUME NEW i \in Fips, NEW j \in Fips, db'[i] = db'[j], db'[i] \in Ports PROVE i = j
    BY DEF LonelyInv, Fips, Ports
  <2>1. db'[i] \notin {Free, "gone"}
    BY ValuesApart
  <2>2. ASSUME NEW k \in Fips, NEW l \in Fips, db'[k] \in Ports, db'[k] = db'[l], db'[l] = db[l],
               k = id[q], db'[k] = value[q], FloatingipsAt(q, value[q]) \subseteq {k}, pending[q] = Nothing
        PROVE  k = l
    BY <2>2 DEF FloatingipsAt, Sees, Nothing, Fips
  <2>3. \A k \in Fips : k \in {i, j} =>
           db'[k] = db[k] \/ (k = id[q] /\ db'[k] = value[q] /\ FloatingipsAt(q, value[q]) \subseteq {k}
                              /\ pending[q] = Nothing)
    BY <1>1, <2>1, FloatRows
  <2> QED
    BY <2>2, <2>3 DEF LonelyInv
<1>2. ASSUME UNCHANGED stores PROVE LonelyInv'
  BY <1>2 DEF LonelyInv, stores, Fips, Ports
<1> QED
  BY <1>1, <1>2 DEF Next, Start, GetPorts, vars

LEMMA LonelyInit == Init => LonelyInv
<1> SUFFICES ASSUME Init PROVE LonelyInv
  OBVIOUS
<1>1. PICK l \in Layouts, v \in Versions : db = [i \in Ids |-> IF i \in l.made THEN v ELSE "none"]
  BY DEF Init
<1>2. \A i \in Ids : db[i] \notin Ports
  BY <1>1, ValuesApart
<1> QED
  BY <1>2 DEF LonelyInv, Fips

\* The director's call is about a floating ip only if the request is.
LEMMA FloatAside ==
    ASSUME LocalInv, NEW q \in Requests, RequestStep(q), NEW i \in Fips,
           ~ About(q) \/ (i # id[q] /\ i # found[q])
    PROVE  director'[i] = director[i]
<1>0. LocalOK /\ Own(q) /\ i \in Ids /\ Kind[i] = "floatingip"
  BY DEF LocalInv, Typed, Fips
<1>1. CASE director' = director
  BY <1>1
<1>2. CASE director' # director
  <2>1. Calling(q) /\ Subject(q) # NoId /\ director' = Told(Subject(q), ToldValue(q))
    BY <1>2 DEF RequestStep, Lock, Find, Look, Clear, Settle, Write, Ensure, Refused, Skip, Call,
                CallRaises, Commit, CommitFails, Crash, stores, Needless
  <2>2. at[q] # 0
    BY <2>1, NotIdle DEF Calling
  <2>3. id[q] \in Ids /\ Kind[id[q]] \in method[q].on /\ method[q] \in AllMethods
    BY <2>2, IdKnown
  <2>4. i # Subject(q)
    <3>1. CASE Step(q) = "tell"
      BY <1>0, <2>2, <2>3, <3>1 DEF Subject, About, AboutFloatingips
    <3>2. CASE Step(q) = "announce"
      <4>1. "ensure" \in Done(q)
        BY <1>0, <2>2, <3>2, Order
      <4> QED
        BY <1>0, <2>1, <3>2, <4>1 DEF Subject, Own
    <3>3. CASE Step(q) = "unhook"
      <4>1. method[q] \in {DeletePort, DisassociateFloatingips}
        BY <1>0, <2>2, <3>3, Order
      <4> QED
        BY <2>2, <2>3, <3>3, <4>1, AboutMethods DEF Subject, About
    <3> QED
      BY <2>1, <3>1, <3>2, <3>3 DEF Calling
  <2> QED
    BY <1>0, <2>1, <2>4, ToldKnown, RulesApart
<1> QED
  BY <1>1, <1>2

-----------------------------------------------------------------------------
(* What a request about floating ips has at hand                            *)

Level(i) == i \in astray \/ Alike(db[i], director[i])

\* The Director gets every change of a floating ip.
BehindInv == \A i \in behind : Kind[i] # "floatingip"

LEMMA BehindNext == ASSUME LocalInv, BehindInv, [Next]_vars PROVE BehindInv'
<1>1. ASSUME NEW q \in Requests, RequestStep(q) PROVE BehindInv'
  <2>1. \/ behind' \subseteq behind
        \/ LeftBehind(q) /\ behind' = behind \union {Subject(q)} /\ at[q] # 0 /\ Calling(q)
    BY <1>1, NotIdle
       DEF RequestStep, Lock, Find, Look, Clear, Settle, Write, Ensure, Refused, Skip, Call, Calling,
           CallRaises, Commit, CommitFails, Crash, Leave, Raise, GoOnWith, history
  <2>2. LeftBehind(q) /\ at[q] # 0 /\ Calling(q) => Subject(q) = id[q] /\ Kind[id[q]] # "floatingip"
    <3>1. LeftBehind(q) /\ at[q] # 0 /\ Calling(q) => Step(q) = "tell"
      BY Order, Special DEF LeftBehind, Calling, LocalInv, Typed
    <3> QED
      BY <3>1, IdKnown, Special DEF LeftBehind, Subject
  <2> QED
    BY <2>1, <2>2 DEF BehindInv
<1>2. ASSUME UNCHANGED behind PROVE BehindInv'
  BY <1>2 DEF BehindInv
<1> QED
  BY <1>1, <1>2 DEF Next, Start, GetPorts, vars, history

LEMMA BehindInit == Init => BehindInv
BY DEF Init, BehindInv

\* What a request about floating ips knows at each of its steps.
Hand(q) ==
    /\ method[q] = CreateFloatingip /\ Step(q) = "tell" => db[id[q]] = value[q]
    /\ method[q] = DeleteFloatingip /\ Step(q) = "write" => director[id[q]] = "gone"
    /\ method[q] = UpdateFloatingip => IF Step(q) = "tell" THEN db[id[q]] = value[q] ELSE Level(id[q])
    /\ method[q] = DisassociateFloatingips =>
          /\ value[q] \in Ports
          /\ id[q] = found[q] \/ Level(id[q]) \/ (Step(q) = "look" /\ db[id[q]] = value[q])
    /\ method[q] \notin {DisassociateFloatingips, DeletePort} \/ Step(q) \in {"lock", "look"} => found[q] = NoId
    /\ Step(q) \in {"unhook", "clear"} => \A i \in Fips : db[i] = PortOf(q) <=> i = found[q]
    /\ method[q] \in {DisassociateFloatingips, DeletePort} /\ found[q] # NoId =>
          /\ Step(q) # "unhook" => director[found[q]] = Free
          /\ Step(q) \in {"write", "tell", "commit"} => pending[q][found[q]] = Free
    /\ \A i \in Fips : pending[q][i] # "same" => i = found[q] /\ Step(q) \in {"write", "tell", "commit"}

InHand ==
    ~ crossed =>
       /\ \A q \in Requests : About(q) => Hand(q)
       /\ \A i \in Fips : Level(i) \/ \E q \in Requests : About(q) /\ i \in {id[q], found[q]}

\* The step behind the one a request is at.
After(q) == IF at[q] = Len(method[q].steps) THEN "idle" ELSE method[q].steps[at[q] + 1]

LEMMA AfterAdvance ==
    ASSUME LocalOK, NEW q \in Requests, at[q] # 0, NEW o, Advance(q, o)
    PROVE  \/ After(q) = "idle" /\ at'[q] = 0
           \/ /\ After(q) # "idle" /\ at'[q] # 0 /\ Step(q)' = After(q) /\ found'[q] = o
              /\ method'[q] = method[q] /\ id'[q] = id[q] /\ value'[q] = value[q]
<1>1. at[q] \in 1..Len(method[q].steps) /\ Len(method[q].steps) \in Nat /\ WellFormed(method[q])
  BY StepKnown DEF WellFormed
<1>2. CASE at[q] = Len(method[q].steps)
  BY <1>2 DEF After, Advance, End, LocalOK
<1>3. CASE at[q] # Len(method[q].steps)
  <2>1. /\ at'[q] = at[q] + 1 /\ found'[q] = o
        /\ method'[q] = method[q] /\ id'[q] = id[q] /\ value'[q] = value[q]
    BY <1>3 DEF Advance, LocalOK
  <2>2. at[q] + 1 \in 1..Len(method[q].steps)
    BY <1>1, <1>3
  <2>3. method[q].steps[at[q] + 1] # "idle"
    BY <1>1, <2>2 DEF WellFormed
  <2> QED
    BY <1>1, <1>3, <2>1, <2>3 DEF After, Step
<1> QED
  BY <1>2, <1>3

LEMMA FloatSteps ==
    ASSUME LocalOK, NEW q \in Requests, at[q] # 0
    PROVE  /\ method[q] = CreateFloatingip =>
                <<Step(q), After(q)>> \in {<<"write", "tell">>, <<"tell", "idle">>}
           /\ method[q] = UpdateFloatingip =>
                <<Step(q), After(q)>> \in {<<"find", "write">>, <<"write", "tell">>, <<"tell", "idle">>}
           /\ method[q] = DeleteFloatingip =>
                <<Step(q), After(q)>> \in {<<"find", "tell">>, <<"tell", "write">>, <<"write", "idle">>}
           /\ method[q] = DisassociateFloatingips =>
                <<Step(q), After(q)>> \in {<<"look", "unhook">>, <<"unhook", "clear">>, <<"clear", "idle">>}
           /\ method[q] = DeletePort =>
                <<Step(q), After(q)>> \in {<<"lock", "look">>, <<"look", "unhook">>, <<"unhook", "clear">>,
                                           <<"clear", "write">>, <<"write", "tell">>, <<"tell", "commit">>,
                                           <<"commit", "idle">>}
<1>0. at[q] \in 1..Len(method[q].steps) /\ Step(q) = method[q].steps[at[q]]
  BY StepKnown
<1>1. CASE method[q] = CreateFloatingip
  <2>1. method[q].steps = <<"write", "tell">>
    BY <1>1 DEF CreateFloatingip, Plain
  <2>2. at[q] \in 1..2
    BY <1>0, <2>1
  <2>3. at[q] = 1 \/ at[q] = 2
    BY <2>2
  <2> QED
    BY <1>0, <1>1, <2>1, <2>3, Special DEF After
<1>2. CASE method[q] = UpdateFloatingip
  <2>1. method[q].steps = <<"find", "write", "tell">>
    BY <1>2 DEF UpdateFloatingip, Plain
  <2>2. at[q] \in 1..3
    BY <1>0, <2>1
  <2>3. at[q] = 1 \/ at[q] = 2 \/ at[q] = 3
    BY <2>2
  <2> QED
    BY <1>0, <1>2, <2>1, <2>3, Special DEF After
<1>3. CASE method[q] = DeleteFloatingip
  <2>1. method[q].steps = <<"find", "tell", "write">>
    BY <1>3 DEF DeleteFloatingip, Plain
  <2>2. at[q] \in 1..3
    BY <1>0, <2>1
  <2>3. at[q] = 1 \/ at[q] = 2 \/ at[q] = 3
    BY <2>2
  <2> QED
    BY <1>0, <1>3, <2>1, <2>3, Special DEF After
<1>4. CASE method[q] = DisassociateFloatingips
  <2>1. method[q].steps = <<"look", "unhook", "clear">>
    BY <1>4 DEF DisassociateFloatingips, Plain
  <2>2. at[q] \in 1..3
    BY <1>0, <2>1
  <2>3. at[q] = 1 \/ at[q] = 2 \/ at[q] = 3
    BY <2>2
  <2> QED
    BY <1>0, <1>4, <2>1, <2>3, Special DEF After
<1>5. CASE method[q] = DeletePort
  <2>1. method[q].steps = <<"lock", "look", "unhook", "clear", "write", "tell", "commit">>
    BY <1>5 DEF DeletePort, Transaction
  <2>2. at[q] \in 1..7
    BY <1>0, <2>1
  <2>3. at[q] = 1 \/ at[q] = 2 \/ at[q] = 3 \/ at[q] = 4 \/ at[q] = 5 \/ at[q] = 6 \/ at[q] = 7
    BY <2>2
  <2> QED
    BY <1>0, <1>5, <2>1, <2>3, Special DEF After
<1> QED
  BY <1>1, <1>2, <1>3, <1>4, <1>5

FloatMethodsAll ==
    {CreateFloatingip, UpdateFloatingip, DeleteFloatingip, DisassociateFloatingips, DeletePort}

LEMMA FloatKnown ==
    ASSUME LocalInv, NEW q \in Requests, About(q)
    PROVE  /\ at[q] # 0 /\ method[q] \in FloatMethodsAll /\ id[q] \in Ids /\ value[q] \in Values
           /\ method[q] # DeletePort => id[q] \in Fips /\ pending[q] = Nothing
           /\ method[q] = DeletePort => id[q] \in Ports
           /\ method[q] \in {DisassociateFloatingips, DeletePort} /\ found[q] # NoId => found[q] \in Fips
           /\ found[q] \in Ids \union {NoId}
<1>1. id[q] \in Ids /\ Kind[id[q]] \in method[q].on /\ method[q] \in AllMethods /\ at[q] # 0
  BY IdKnown DEF About
<1>2. method[q] \in FloatMethodsAll
  BY <1>1, AboutMethods DEF About, FloatMethodsAll
<1>3. Own(q) /\ value[q] \in Values /\ found[q] \in Ids \union {NoId}
  BY DEF LocalInv, Typed, LocalOK
<1>4. method[q] # DeletePort => ~ method[q].tx /\ method[q].on = {"floatingip"}
  BY <1>2, Special DEF FloatMethodsAll
<1>5. method[q] # DeletePort => id[q] \in Fips /\ pending[q] = Nothing
  BY <1>1, <1>3, <1>4 DEF Own, Fips
<1>6. method[q] = DeletePort => id[q] \in Ports
  BY <1>1, Special DEF Ports
<1>7. method[q] \in {DisassociateFloatingips, DeletePort} /\ found[q] # NoId => found[q] \in Fips
  BY <1>3 DEF Own, Fips
<1> QED
  BY <1>1, <1>2, <1>3, <1>5, <1>6, <1>7

\* Another floating ip stays as it is.
LEMMA HandAside ==
    ASSUME LocalInv, NEW q \in Requests, RequestStep(q), About(q), Hand(q),
           NEW i \in Fips, i # id[q], i # found[q]
    PROVE  db'[i] = db[i] /\ director'[i] = director[i]
<1>0. LocalOK /\ Typed /\ i \in Ids /\ Kind[i] = "floatingip" /\ pending[q][i] = "same"
  BY DEF LocalInv, Typed, Fips, Hand
<1>1. at[q] # 0 /\ method[q] \in FloatMethodsAll /\ id[q] \in Ids
  BY FloatKnown
<1>2. Step(q) # "ensure"
  <2>1. Step(q) = "ensure" => method[q].tx /\ method[q].op = "create"
    BY <1>0, <1>1, Order
  <2> QED
    BY <1>1, <2>1, Special DEF FloatMethodsAll
<1>3. CASE Clear(q)
  <2>1. i \notin FloatingipsAt(q, PortOf(q))
    BY <1>0, <1>3 DEF Clear, Hand, FloatingipsAt, Sees
  <2> QED
    BY <1>0, <1>3, <2>1, FloatAside DEF Clear, Put
<1>4. CASE Write(q)
  <2>1. i \notin Written(q)
    BY <1>0, <1>1, RulesApart DEF Written
  <2> QED
    BY <1>0, <1>4, <2>1, FloatAside DEF Write, Put
<1>5. CASE db' = db \/ db' = Session(q)
  BY <1>0, <1>5, FloatAside DEF Session, Sees
<1> QED
  BY <1>2, <1>3, <1>4, <1>5
     DEF RequestStep, Lock, Find, Look, Settle, Skip, Call, stores, Refused, CallRaises, Commit,
         CommitFails, Crash, Ensure

\* A request about floating ips is not disturbed by one that is not.
LEMMA HandKept ==
    ASSUME LocalInv, NEW p \in Requests, About(p), Hand(p), Still(p), astray \subseteq astray',
           \A i \in Fips : db'[i] = db[i] /\ director'[i] = director[i]
    PROVE  Hand(p)'
<1>1. /\ method[p] \in FloatMethodsAll
      /\ method[p] # DeletePort => id[p] \in Fips
      /\ method[p] \in {DisassociateFloatingips, DeletePort} /\ found[p] # NoId => found[p] \in Fips
  BY FloatKnown
<1>2. /\ method'[p] = method[p] /\ id'[p] = id[p] /\ value'[p] = value[p] /\ found'[p] = found[p]
      /\ pending'[p] = pending[p] /\ Step(p)' = Step(p) /\ PortOf(p)' = PortOf(p)
  BY DEF Still, Step, PortOf
<1>3. \A i \in Fips : Level(i) => Level(i)'
  BY DEF Level, Alike, Absent
<1>4. UpdateFloatingip # DeletePort /\ CreateFloatingip # DeletePort /\ DeleteFloatingip # DeletePort
      /\ DisassociateFloatingips # DeletePort
  BY Special
<1>5. /\ method[p] = CreateFloatingip /\ Step(p) = "tell" => db'[id[p]] = value[p]
      /\ method[p] = DeleteFloatingip /\ Step(p) = "write" => director'[id[p]] = "gone"
      /\ method[p] = UpdateFloatingip => IF Step(p) = "tell" THEN db'[id[p]] = value[p] ELSE Level(id[p])'
  BY <1>1, <1>2, <1>3, <1>4 DEF Hand
<1>6. method[p] = DisassociateFloatingips =>
          /\ value[p] \in Ports
          /\ id[p] = found[p] \/ Level(id[p])' \/ (Step(p) = "look" /\ db'[id[p]] = value[p])
  BY <1>1, <1>2, <1>3, <1>4 DEF Hand
<1>7. Step(p) \in {"unhook", "clear"} => \A i \in Fips : db'[i] = PortOf(p) <=> i = found[p]
  BY DEF Hand
<1>8. method[p] \in {DisassociateFloatingips, DeletePort} /\ found[p] # NoId =>
          /\ Step(p) # "unhook" => director'[found[p]] = Free
          /\ Step(p) \in {"write", "tell", "commit"} => pending[p][found[p]] = Free
  BY <1>1 DEF Hand
<1> QED
  BY <1>2, <1>5, <1>6, <1>7, <1>8 DEF Hand, Fips, Ports

\* Where a step leaves a request about floating ips.
HandOn(q) ==
    \/ /\ at'[q] = 0
       /\ \A i \in Fips : i \in {id[q], found[q]} => Level(i)'
    \/ /\ at'[q] # 0 /\ AboutFloatingips(method'[q]) /\ id'[q] = id[q]
       /\ found[q] = NoId \/ found'[q] = found[q]
       /\ Hand(q)'

LEMMA HandLeave ==
    ASSUME LocalInv, BehindInv, NEW q \in Requests, Leave(q)
    PROVE  HandOn(q)
<1>1. at'[q] = 0
  BY DEF Leave, End, LocalInv, Typed, LocalOK
<1>2. ASSUME NEW i \in Fips, i \in {id[q], found[q]} PROVE Level(i)'
  BY <1>2 DEF Leave, Touched, Level, Near, BehindInv, Fips
<1> QED
  BY <1>1, <1>2 DEF HandOn

LEMMA HandRaise ==
    ASSUME LocalInv, BehindInv, NEW q \in Requests, About(q), Hand(q), Raise(q), UNCHANGED db,
           Step(q) = "tell" \/ UNCHANGED director
    PROVE  HandOn(q)
<1>0. /\ LocalOK /\ at[q] # 0
      /\ method[q] # DeletePort => id[q] \in Fips /\ pending[q] = Nothing
  BY FloatKnown DEF LocalInv, Typed
<1>1. CASE Leave(q)
  BY <1>1, HandLeave
<1>2. CASE method[q] = CreateFloatingip /\ GoOnWith(q, DeleteFloatingip)
  <2>1. /\ at'[q] = 1 /\ method'[q] = DeleteFloatingip /\ id'[q] = id[q] /\ found'[q] = NoId
        /\ pending' = pending
    BY <1>0, <1>2 DEF GoOnWith, LocalOK
  <2>2. Step(q)' = "find"
    BY <2>1 DEF Step, DeleteFloatingip, Plain
  <2>3. /\ pending[q] = Nothing /\ DeleteFloatingip \notin {CreateFloatingip, UpdateFloatingip,
                                                           DisassociateFloatingips, DeletePort}
    BY <1>0, <1>2, Special
  <2>4. found[q] = NoId
    BY <1>2, Special DEF Hand
  <2>5. Hand(q)'
    BY <2>1, <2>2, <2>3 DEF Hand, Nothing, Fips
  <2> QED
    BY <2>1, <2>4, <2>5, Special DEF HandOn, AboutFloatingips
<1>3. CASE method[q] = UpdateFloatingip /\ value[q] \in Ports /\ GoOnWith(q, DisassociateFloatingips)
  <2>1. /\ at'[q] = 1 /\ method'[q] = DisassociateFloatingips /\ id'[q] = id[q] /\ found'[q] = NoId
        /\ value'[q] = value[q] /\ pending' = pending /\ astray' = astray
    BY <1>0, <1>3 DEF GoOnWith, LocalOK
  <2>2. Step(q)' = "look"
    BY <2>1 DEF Step, DisassociateFloatingips, Plain
  <2>3. /\ pending[q] = Nothing /\ id[q] \in Fips
        /\ DisassociateFloatingips \notin {CreateFloatingip, UpdateFloatingip, DeleteFloatingip, DeletePort}
    BY <1>0, <1>3, Special
  <2>4. found[q] = NoId
    BY <1>3, <2>3, Special DEF Hand
  <2>5. Level(id[q])' \/ db'[id[q]] = value[q]
    <3>1. CASE Step(q) = "tell"
      BY <1>3, <3>1 DEF Hand
    <3>2. CASE Step(q) # "tell"
      BY <1>3, <2>1, <3>2 DEF Hand, Level, Alike, Absent
    <3> QED
      BY <3>1, <3>2
  <2>6. Hand(q)'
    <3>1. (Level(id[q]) \/ db[id[q]] = value[q])'
      BY <2>1, <2>5
    <3> QED
      BY <1>3, <2>1, <2>2, <2>3, <3>1 DEF Hand, Nothing, Fips, Ports
  <2> QED
    BY <2>1, <2>4, <2>6, Special DEF HandOn, AboutFloatingips
<1> QED
  BY <1>1, <1>2, <1>3 DEF Raise

\* Steps that only read.
LEMMA HandRead ==
    ASSUME LocalInv, NEW q \in Requests, About(q), Hand(q), Lock(q) \/ Find(q) \/ Skip(q)
    PROVE  HandOn(q)
<1>0. /\ LocalOK /\ at[q] # 0 /\ method[q] \in FloatMethodsAll /\ UNCHANGED <<stores, astray>>
      /\ id[q] # NoId
  BY FloatKnown, RulesApart DEF LocalInv, Typed, Lock, Find, Skip, history
<1>1. /\ Step(q) \in {"lock", "find", "unhook", "announce", "tell"}
      /\ Step(q) \in {"announce", "tell"} => FALSE
      /\ Step(q) = "unhook" => found[q] = NoId
  <2>1. Step(q) # "announce"
    BY <1>0, FloatSteps DEF FloatMethodsAll
  <2>2. Skip(q) => Subject(q) = NoId
    BY <1>0, Special DEF Skip, Needless, LeftBehind, FloatMethodsAll
  <2> QED
    BY <1>0, <2>1, <2>2 DEF Lock, Find, Skip, Calling, Subject
<1>2. /\ Step(q) = "lock" => method[q] = DeletePort /\ After(q) = "look"
      /\ Step(q) = "find" => \/ method[q] = UpdateFloatingip /\ After(q) = "write"
                             \/ method[q] = DeleteFloatingip /\ After(q) = "tell"
      /\ Step(q) = "unhook" => method[q] \in {DisassociateFloatingips, DeletePort} /\ After(q) = "clear"
  BY <1>0, FloatSteps DEF FloatMethodsAll
<1>3. /\ at'[q] # 0 /\ Step(q)' = After(q) /\ found'[q] = found[q]
      /\ method'[q] = method[q] /\ id'[q] = id[q] /\ value'[q] = value[q]
  <2>1. CASE Lock(q)
    <3>1. at'[q] = at[q] + 1 /\ found' = found /\ method' = method /\ id' = id /\ value' = value
      BY <1>0, <2>1 DEF Lock, LocalOK
    <3>2. at[q] \in Nat /\ at'[q] # 0 /\ at[q] # Len(method[q].steps)
      BY <1>0, <1>2, <2>1, <3>1 DEF Lock, LocalOK, After
    <3> QED
      BY <3>1, <3>2 DEF After, Step
  <2>2. CASE Advance(q, found[q])
    BY <1>0, <1>1, <1>2, <2>2, AfterAdvance
  <2> QED
    BY <2>1, <2>2 DEF Find, Skip
<1>4. \A i \in Fips : Level(i) => Level(i)'
  BY <1>0 DEF Level, Alike, Absent, stores
<1>5. /\ method[q] = UpdateFloatingip => Level(id[q])'
      /\ method[q] = DisassociateFloatingips => id[q] = found[q] \/ Level(id[q])'
  <2>1. /\ method[q] = UpdateFloatingip => Level(id[q])
        /\ method[q] = DisassociateFloatingips => id[q] = found[q] \/ Level(id[q])
    BY <1>1, <1>2, Special DEF Hand
  <2> QED
    BY <1>0, <1>3, <2>1 DEF Level, Alike, Absent, stores
<1>6. PortOf(q)' = PortOf(q)
  BY <1>3 DEF PortOf
<1>7. Step(q)' \in {"look", "write", "tell", "clear"} /\ (Step(q)' = "write" => method[q] = UpdateFloatingip)
      /\ (Step(q)' = "tell" => method[q] = DeleteFloatingip)
      /\ (Step(q)' = "look" => method[q] = DeletePort)
      /\ (Step(q)' = "clear" => Step(q) = "unhook" /\ found[q] = NoId)
  BY <1>1, <1>2, <1>3
<1>8. Hand(q)'
  BY <1>0, <1>1, <1>2, <1>3, <1>5, <1>6, <1>7, Special DEF Hand, stores, Fips, Ports
<1> QED
  BY <1>0, <1>3, <1>8 DEF HandOn, About

LEMMA HandLook ==
    ASSUME LocalInv, LonelyInv, NEW q \in Requests, About(q), Hand(q), Look(q)
    PROVE  HandOn(q)
<1>0. /\ LocalOK /\ at[q] # 0 /\ UNCHANGED <<stores, astray>> /\ Step(q) = "look"
      /\ id[q] \in Ids /\ (method[q] # DeletePort => id[q] \in Fips)
      /\ method[q] = DeletePort => id[q] \in Ports
  BY FloatKnown DEF LocalInv, Typed, Look, history
<1>1. method[q] \in {DisassociateFloatingips, DeletePort} /\ After(q) = "unhook"
  BY <1>0, FloatSteps, Order
<1>2. PICK f \in FloatingipsAt(q, PortOf(q)) \union {NoId} :
         (f = NoId <=> FloatingipsAt(q, PortOf(q)) = {}) /\ Advance(q, f)
  BY DEF Look
<1>3. /\ at'[q] # 0 /\ Step(q)' = "unhook" /\ found'[q] = f
      /\ method'[q] = method[q] /\ id'[q] = id[q] /\ value'[q] = value[q]
  BY <1>0, <1>1, <1>2, AfterAdvance
<1>4. PortOf(q) \in Ports /\ found[q] = NoId /\ \A i \in Fips : pending[q][i] = "same"
  BY <1>0, <1>1 DEF Hand, PortOf
<1>5. \A i \in Fips : db[i] = PortOf(q) <=> i = f
  <2>1. \A i \in Fips : i \in FloatingipsAt(q, PortOf(q)) <=> db[i] = PortOf(q)
    BY <1>4 DEF FloatingipsAt, Sees, Fips
  <2>2. FloatingipsAt(q, PortOf(q)) \subseteq Fips /\ NoId \notin Fips
    BY RulesApart DEF FloatingipsAt, Fips
  <2> QED
    BY <1>2, <1>4, <2>1, <2>2 DEF LonelyInv
<1>6. method[q] = DisassociateFloatingips => value[q] \in Ports /\ (id[q] = f \/ Level(id[q]))
  <2>1. method[q] = DisassociateFloatingips => PortOf(q) = value[q] /\ id[q] \in Fips
    BY <1>0, Special DEF PortOf
  <2>2. method[q] = DisassociateFloatingips =>
           value[q] \in Ports /\ (id[q] = found[q] \/ Level(id[q]) \/ db[id[q]] = value[q])
    BY DEF Hand
  <2> QED
    BY <1>4, <1>5, <2>1, <2>2, RulesApart DEF Fips
<1>7. method[q] = DisassociateFloatingips => value[q] \in Ports /\ (id[q] = f \/ Level(id[q])')
  BY <1>0, <1>3, <1>6 DEF Level, Alike, Absent, stores
<1>8. PortOf(q)' = PortOf(q)
  BY <1>3 DEF PortOf
<1>9. Hand(q)'
  BY <1>0, <1>1, <1>3, <1>4, <1>5, <1>7, <1>8, Special DEF Hand, stores, Fips, Ports
<1> QED
  BY <1>0, <1>3, <1>4, <1>9 DEF HandOn, About

LEMMA HandClear ==
    ASSUME LocalInv, NEW q \in Requests, About(q), Hand(q), Clear(q)
    PROVE  HandOn(q)
<1> DEFINE S == FloatingipsAt(q, PortOf(q))
<1>0. /\ LocalOK /\ at[q] # 0 /\ UNCHANGED <<director, astray>> /\ Step(q) = "clear"
      /\ Put(q, S, Free) /\ Advance(q, found[q]) /\ S \in SUBSET Ids
      /\ id[q] \in Ids /\ (method[q] # DeletePort => id[q] \in Fips)
      /\ method[q] = DeletePort => id[q] \in Ports
      /\ found[q] # NoId => found[q] \in Fips
  <2>1. Step(q) = "clear" /\ LocalOK
    BY DEF Clear, LocalInv, Typed
  <2>2. method[q] \in {DisassociateFloatingips, DeletePort}
    BY <2>1, FloatKnown, Order
  <2> QED
    BY <2>1, <2>2, FloatKnown DEF Clear, history, FloatingipsAt
<1>1. method[q] \in {DisassociateFloatingips, DeletePort}
  BY <1>0, Order
<1>2. \A i \in Fips : i \in S <=> i = found[q]
  <2>1. \A i \in Fips : pending[q][i] = "same" /\ (db[i] = PortOf(q) <=> i = found[q])
    BY <1>0 DEF Hand
  <2> QED
    BY <2>1 DEF FloatingipsAt, Sees, Fips
<1>3. found[q] # NoId => director[found[q]] = Free
  BY <1>0, <1>1 DEF Hand
<1> HIDE DEF S
<1>4. CASE method[q] = DeletePort
  <2>1. After(q) = "write" /\ method[q].tx
    BY <1>0, <1>4, FloatSteps, Special
  <2>2. /\ at'[q] # 0 /\ Step(q)' = "write" /\ found'[q] = found[q]
        /\ method'[q] = method[q] /\ id'[q] = id[q] /\ value'[q] = value[q]
    BY <1>0, <2>1, AfterAdvance
  <2>3. /\ UNCHANGED db
        /\ \A i \in Fips : pending'[q][i] = IF i = found[q] THEN Free ELSE pending[q][i]
    <3>1. UNCHANGED db
      BY <1>0, <2>1 DEF Put
    <3>2. \A i \in Ids : pending'[q][i] = IF i \in S THEN Free ELSE pending[q][i]
      BY <1>0, <2>1 DEF Put, LocalInv, Typed, StoreOK
    <3> QED
      BY <1>2, <3>1, <3>2 DEF Fips
  <2>4. \A i \in Fips : pending'[q][i] # "same" => i = found[q]
    BY <1>0, <2>3 DEF Hand
  <2>5. Hand(q)'
    BY <1>0, <1>3, <1>4, <2>2, <2>3, <2>4, Special DEF Hand, Fips, Ports
  <2> QED
    BY <1>4, <2>2, <2>5, Special DEF HandOn, AboutFloatingips
<1>5. CASE method[q] = DisassociateFloatingips
  <2>1. After(q) = "idle" /\ ~ method[q].tx
    BY <1>0, <1>5, FloatSteps, Special
  <2>2. at'[q] = 0
    BY <1>0, <2>1, AfterAdvance
  <2>3. \A i \in Fips : db'[i] = IF i = found[q] THEN Free ELSE db[i]
    BY <1>0, <1>2, <2>1 DEF Put, Fips
  <2>4. id[q] = found[q] \/ Level(id[q])
    BY <1>0, <1>5 DEF Hand
  <2>5. ASSUME NEW i \in Fips, i \in {id[q], found[q]} PROVE Level(i)'
    <3>1. CASE i = found[q]
      BY <1>0, <1>3, <2>3, <2>5, <3>1, RulesApart DEF Level, Alike, Fips
    <3>2. CASE i # found[q]
      BY <1>0, <2>3, <2>4, <2>5, <3>2 DEF Level, Alike, Absent
    <3> QED
      BY <3>1, <3>2
  <2> QED
    BY <2>2, <2>5 DEF HandOn
<1> QED
  BY <1>1, <1>4, <1>5

LEMMA HandWrite ==
    ASSUME LocalInv, NEW q \in Requests, About(q), Hand(q), Write(q)
    PROVE  HandOn(q)
<1>0. /\ LocalOK /\ at[q] # 0 /\ UNCHANGED <<director, astray>> /\ Step(q) = "write"
      /\ Put(q, Written(q), Becomes(q)) /\ Advance(q, found[q])
      /\ method[q] \in FloatMethodsAll /\ id[q] \in Ids
      /\ method[q] # DeletePort => id[q] \in Fips /\ pending[q] = Nothing
      /\ method[q] = DeletePort => id[q] \in Ports
  BY FloatKnown DEF LocalInv, Typed, Write, history
<1>1. method[q] # DisassociateFloatingips
  BY <1>0, FloatSteps
<1>2. Written(q) \in SUBSET Ids /\ id[q] \in Written(q) /\ \A i \in Fips : i \in Written(q) => i = id[q]
  BY <1>0, RulesApart DEF Written, Fips
<1>3. CASE method[q] \in {CreateFloatingip, UpdateFloatingip}
  <2>1. After(q) = "tell" /\ ~ method[q].tx /\ Becomes(q) = value[q]
    BY <1>0, <1>3, FloatSteps, Special DEF Becomes
  <2>2. /\ at'[q] # 0 /\ Step(q)' = "tell" /\ found'[q] = found[q]
        /\ method'[q] = method[q] /\ id'[q] = id[q] /\ value'[q] = value[q]
    BY <1>0, <2>1, AfterAdvance
  <2>3. db'[id[q]] = value[q] /\ pending' = pending
    BY <1>0, <1>2, <2>1 DEF Put
  <2>4. method[q] \notin {DeleteFloatingip, DisassociateFloatingips, DeletePort} /\ found[q] = NoId
    BY <1>3, Special DEF Hand
  <2>5. Hand(q)'
    BY <1>0, <2>2, <2>3, <2>4 DEF Hand, Nothing, Fips, Ports
  <2> QED
    BY <1>3, <2>2, <2>5, Special DEF HandOn, AboutFloatingips
<1>4. CASE method[q] = DeleteFloatingip
  <2>1. After(q) = "idle" /\ ~ method[q].tx /\ Becomes(q) = "gone"
    BY <1>0, <1>4, FloatSteps, Special DEF Becomes
  <2>2. at'[q] = 0
    BY <1>0, <2>1, AfterAdvance
  <2>3. db'[id[q]] = "gone" /\ director'[id[q]] = "gone"
    BY <1>0, <1>2, <1>4, <2>1 DEF Put, Hand
  <2>4. found[q] = NoId
    BY <1>4, Special DEF Hand
  <2> QED
    BY <2>2, <2>3, <2>4, RulesApart DEF HandOn, Level, Alike, Fips
<1>5. CASE method[q] = DeletePort
  <2>1. After(q) = "tell" /\ method[q].tx
    BY <1>0, <1>5, FloatSteps, Special
  <2>2. /\ at'[q] # 0 /\ Step(q)' = "tell" /\ found'[q] = found[q]
        /\ method'[q] = method[q] /\ id'[q] = id[q] /\ value'[q] = value[q]
    BY <1>0, <2>1, AfterAdvance
  <2>3. id[q] \notin Fips
    BY <1>0, <1>5 DEF Fips, Ports
  <2>4. UNCHANGED db /\ \A i \in Fips : pending'[q][i] = pending[q][i]
    BY <1>0, <1>2, <2>1, <2>3, PutEffect DEF Put, Fips
  <2>5. found[q] # NoId => found[q] \in Fips /\ director[found[q]] = Free /\ pending[q][found[q]] = Free
    BY <1>0, <1>5, FloatKnown DEF Hand
  <2>6. \A i \in Fips : pending[q][i] # "same" => i = found[q]
    BY DEF Hand
  <2>7. Hand(q)'
    BY <1>0, <1>5, <2>2, <2>4, <2>5, <2>6, Special DEF Hand, Fips, Ports
  <2> QED
    BY <1>5, <2>2, <2>7, Special DEF HandOn, AboutFloatingips
<1> QED
  BY <1>0, <1>1, <1>3, <1>4, <1>5 DEF FloatMethodsAll

LEMMA HandCall ==
    ASSUME LocalInv, NEW q \in Requests, About(q), Hand(q), Call(q)
    PROVE  HandOn(q)
<1>0. /\ LocalOK /\ at[q] # 0 /\ UNCHANGED <<db, pending, astray>> /\ Calling(q) /\ Subject(q) # NoId
      /\ director' = Told(Subject(q), ToldValue(q)) /\ Advance(q, found[q])
      /\ method[q] \in FloatMethodsAll /\ id[q] \in Ids
      /\ method[q] # DeletePort => id[q] \in Fips /\ pending[q] = Nothing
      /\ method[q] = DeletePort => id[q] \in Ports
  BY FloatKnown DEF LocalInv, Typed, Call, Needless, history
<1>1. /\ Subject(q) \in Ids /\ director'[Subject(q)] = ToldValue(q)
      /\ \A i \in Fips : i # Subject(q) => director'[i] = director[i]
  BY <1>0, ToldKnown, RulesApart DEF Fips
<1>2. Step(q) \in {"tell", "unhook"}
  <2>1. Step(q) # "announce"
    BY <1>0, FloatSteps DEF FloatMethodsAll
  <2> QED
    BY <1>0, <2>1 DEF Calling
<1>3. CASE Step(q) = "unhook"
  <2>1. method[q] \in {DisassociateFloatingips, DeletePort} /\ After(q) = "clear"
    BY <1>0, <1>3, FloatSteps, Order
  <2>2. /\ at'[q] # 0 /\ Step(q)' = "clear" /\ found'[q] = found[q]
        /\ method'[q] = method[q] /\ id'[q] = id[q] /\ value'[q] = value[q]
    BY <1>0, <2>1, AfterAdvance
  <2>3. Subject(q) = found[q] /\ ToldValue(q) = Free
    BY <1>3 DEF Subject, ToldValue
  <2>4. method[q] = DisassociateFloatingips =>
           value[q] \in Ports /\ (id[q] = found[q] \/ Level(id[q])')
    <3>1. method[q] = DisassociateFloatingips => value[q] \in Ports /\ (id[q] = found[q] \/ Level(id[q]))
      BY <1>3 DEF Hand
    <3>2. method[q] = DisassociateFloatingips => id[q] \in Fips
      BY <1>0, Special
    <3> QED
      BY <1>0, <1>1, <2>2, <2>3, <3>1, <3>2 DEF Level, Alike, Absent
  <2>5. /\ \A i \in Fips : db[i] = PortOf(q) <=> i = found[q]
        /\ \A i \in Fips : pending[q][i] = "same"
    BY <1>3 DEF Hand
  <2>6. PortOf(q)' = PortOf(q)
    BY <2>2 DEF PortOf
  <2>7. Hand(q)'
    BY <1>0, <1>1, <2>1, <2>2, <2>3, <2>4, <2>5, <2>6, Special DEF Hand, Fips, Ports
  <2> QED
    BY <1>0, <2>2, <2>7 DEF HandOn, About
<1>4. ASSUME Step(q) = "tell" PROVE Subject(q) = id[q] /\ ToldValue(q) = Becomes(q)
  BY <1>4 DEF Subject, ToldValue
<1>5. CASE Step(q) = "tell" /\ method[q] \in {CreateFloatingip, UpdateFloatingip}
  <2>1. After(q) = "idle" /\ Becomes(q) = value[q]
    BY <1>0, <1>5, FloatSteps, Special DEF Becomes
  <2>2. at'[q] = 0
    BY <1>0, <2>1, AfterAdvance
  <2>3. db[id[q]] = value[q] /\ found[q] = NoId
    BY <1>5, Special DEF Hand
  <2> QED
    BY <1>0, <1>1, <1>4, <1>5, <2>1, <2>2, <2>3, RulesApart DEF HandOn, Level, Alike, Fips
<1>6. CASE Step(q) = "tell" /\ method[q] = DeleteFloatingip
  <2>1. After(q) = "write" /\ Becomes(q) = "gone"
    BY <1>0, <1>6, FloatSteps, Special DEF Becomes
  <2>2. /\ at'[q] # 0 /\ Step(q)' = "write" /\ found'[q] = found[q]
        /\ method'[q] = method[q] /\ id'[q] = id[q] /\ value'[q] = value[q]
    BY <1>0, <2>1, AfterAdvance
  <2>3. director'[id[q]] = "gone" /\ found[q] = NoId /\ pending[q] = Nothing
        /\ DeleteFloatingip \notin {CreateFloatingip, UpdateFloatingip, DisassociateFloatingips, DeletePort}
    BY <1>0, <1>1, <1>4, <1>6, <2>1, Special DEF Hand
  <2>4. Hand(q)'
    BY <1>0, <1>6, <2>2, <2>3 DEF Hand, Nothing, Fips, Ports
  <2> QED
    BY <1>0, <2>2, <2>4 DEF HandOn, About
<1>7. CASE Step(q) = "tell" /\ method[q] = DeletePort
  <2>1. After(q) = "commit"
    BY <1>0, <1>7, FloatSteps
  <2>2. /\ at'[q] # 0 /\ Step(q)' = "commit" /\ found'[q] = found[q]
        /\ method'[q] = method[q] /\ id'[q] = id[q] /\ value'[q] = value[q]
    BY <1>0, <2>1, AfterAdvance
  <2>3. \A i \in Fips : director'[i] = director[i]
    BY <1>0, <1>1, <1>4, <1>7 DEF Fips, Ports
  <2>4. /\ found[q] # NoId => found[q] \in Fips /\ director[found[q]] = Free /\ pending[q][found[q]] = Free
        /\ \A i \in Fips : pending[q][i] # "same" => i = found[q]
    BY <1>7, FloatKnown DEF Hand
  <2>5. Hand(q)'
    BY <1>0, <1>7, <2>2, <2>3, <2>4, Special DEF Hand, Fips, Ports
  <2> QED
    BY <1>0, <2>2, <2>5 DEF HandOn, About
<1>8. Step(q) = "tell" => method[q] # DisassociateFloatingips
  BY <1>0, FloatSteps
<1> QED
  BY <1>0, <1>2, <1>3, <1>5, <1>6, <1>7, <1>8 DEF FloatMethodsAll

LEMMA HandCommit ==
    ASSUME LocalInv, NEW q \in Requests, About(q), Hand(q), Commit(q)
    PROVE  HandOn(q)
<1>0. /\ LocalOK /\ at[q] # 0 /\ UNCHANGED <<director, astray>> /\ Step(q) = "commit"
      /\ db' = Session(q) /\ Advance(q, found[q])
      /\ method[q] \in FloatMethodsAll
  BY FloatKnown DEF LocalInv, Typed, Commit, history
<1>1. method[q] = DeletePort /\ After(q) = "idle"
  BY <1>0, FloatSteps DEF FloatMethodsAll
<1>2. at'[q] = 0
  BY <1>0, <1>1, AfterAdvance
<1>3. id[q] \notin Fips
  BY <1>1, FloatKnown DEF Fips, Ports
<1>4. found[q] \in Fips => director'[found[q]] = Free /\ db'[found[q]] = Free
  <2>1. found[q] \in Fips => director[found[q]] = Free /\ pending[q][found[q]] = Free
    BY <1>0, <1>1, RulesApart DEF Hand, Fips
  <2> QED
    BY <1>0, <2>1, ValuesAssumption DEF ValuesAssumption, Session, Sees, Fips
<1> QED
  BY <1>2, <1>3, <1>4 DEF HandOn, Level, Alike

-----------------------------------------------------------------------------
(* Floating ips, one request at a time                                      *)

LEMMA HandStep ==
    ASSUME LocalInv, BehindInv, LonelyInv, NEW q \in Requests, RequestStep(q), About(q), Hand(q)
    PROVE  HandOn(q)
<1>0. LocalOK /\ at[q] # 0 /\ method[q] \in FloatMethodsAll
  BY FloatKnown DEF LocalInv, Typed
<1>1. ~ Settle(q) /\ ~ Ensure(q)
  BY <1>0, FloatSteps DEF FloatMethodsAll, Settle, Ensure
<1>2. CASE Refused(q)
  BY <1>2, HandRaise DEF Refused
<1>3. CASE CallRaises(q)
  <2>1. CASE Step(q) = "tell"
    BY <1>3, <2>1, HandRaise DEF CallRaises
  <2>2. CASE Step(q) = "unhook"
    <3>1. method[q] \notin {CreateFloatingip, UpdateFloatingip}
      BY <1>0, <2>2, FloatSteps
    <3>2. Leave(q)
      BY <1>3, <3>1 DEF CallRaises, Raise
    <3> QED
      BY <3>2, HandLeave
  <2>3. Step(q) # "announce"
    BY <1>0, FloatSteps DEF FloatMethodsAll
  <2> QED
    BY <1>3, <2>1, <2>2, <2>3 DEF CallRaises, Calling
<1>4. CASE CommitFails(q) \/ Crash(q)
  BY <1>4, HandLeave DEF CommitFails, Crash
<1> QED
  BY <1>1, <1>2, <1>3, <1>4, HandRead, HandLook, HandClear, HandWrite, HandCall, HandCommit
     DEF RequestStep

\* No step makes a request one about floating ips that was not.
LEMMA AboutBefore ==
    ASSUME LocalInv, NEW q \in Requests, RequestStep(q)
    PROVE  /\ \A p \in Requests : About(p)' => About(p)
           /\ astray \subseteq astray' /\ crossed' = crossed
<1>0. LocalOK /\ at[q] # 0
  BY NotIdle DEF LocalInv, Typed, RequestStep, Lock, Find, Look, Clear, Settle, Write, Ensure, Refused,
                 Skip, Call, CallRaises, Commit, CommitFails, Crash, Calling
<1>1. \A p \in Requests \ {q} : About(p)' => About(p)
  BY Moves DEF Still, About, AboutFloatingips
<1>2. ASSUME Advance(q, found[q]) \/ \E o \in Ids \union {NoId} : Advance(q, o)
      PROVE  at'[q] = 0 \/ method'[q] = method[q]
  BY <1>0, <1>2 DEF Advance, End, LocalOK
<1>3. ASSUME Leave(q) PROVE at'[q] = 0
  BY <1>0, <1>3 DEF Leave, End, LocalOK
<1>4. at'[q] = 0 \/ method'[q] = method[q] \/ method[q] \in {CreateFloatingip, UpdateFloatingip}
  <2>1. ASSUME Raise(q)
        PROVE  at'[q] = 0 \/ method[q] \in {CreateFloatingip, UpdateFloatingip}
    BY <1>3, <2>1 DEF Raise
  <2>2. CASE Refused(q) \/ CallRaises(q)
    BY <2>1, <2>2 DEF Refused, CallRaises
  <2>3. CASE CommitFails(q) \/ Crash(q)
    BY <1>3, <2>3 DEF CommitFails, Crash
  <2>4. CASE Lock(q) \/ Settle(q)
    BY <2>4 DEF Lock, Settle
  <2>5. CASE Find(q) \/ Clear(q) \/ Write(q) \/ Skip(q) \/ Call(q) \/ Commit(q)
    BY <1>2, <2>5 DEF Find, Clear, Write, Skip, Call, Commit
  <2>6. CASE Look(q)
    <3>1. \E o \in Ids \union {NoId} : Advance(q, o)
      BY <2>6 DEF Look, FloatingipsAt
    <3> QED
      BY <1>2, <3>1
  <2>7. CASE Ensure(q)
    <3>1. \E o \in Ids \union {NoId} : Advance(q, o)
      BY <2>7 DEF Ensure, LocalInv, Typed, StoreOK
    <3> QED
      BY <1>2, <3>1
  <2> QED
    BY <2>2, <2>3, <2>4, <2>5, <2>6, <2>7 DEF RequestStep
<1>5. About(q)' => About(q)
  BY <1>0, <1>4, Special DEF About, AboutFloatingips
<1>6. astray \subseteq astray' /\ crossed' = crossed
  BY DEF RequestStep, Lock, Find, Look, Clear, Settle, Write, Ensure, Refused, Skip, Call,
         CallRaises, Commit, CommitFails, Crash, history, Raise, Leave, GoOnWith
<1> QED
  BY <1>1, <1>5, <1>6

LEMMA HandRequest ==
    ASSUME LocalInv, BehindInv, LonelyInv, OneInv, InHand, NEW q \in Requests, RequestStep(q)
    PROVE  InHand' /\ OneInv'
<1>1. /\ \A p \in Requests : About(p)' => About(p)
      /\ astray \subseteq astray' /\ crossed' = crossed
      /\ \A p \in Requests \ {q} : Still(p)
  BY AboutBefore, Moves
<1>2. OneInv'
  BY <1>1 DEF OneInv
<1>3. ASSUME ~ crossed, NEW i \in Fips, Level(i), db'[i] = db[i], director'[i] = director[i]
      PROVE  Level(i)'
  BY <1>1, <1>3 DEF Level, Alike, Absent
<1>4. ASSUME ~ crossed, ~ About(q) PROVE InHand'
  <2>1. \A i \in Fips : db'[i] = db[i] /\ director'[i] = director[i]
    BY <1>4, FloatRows, FloatAside
  <2>2. \A p \in Requests : About(p)' => Hand(p)'
    BY <1>1, <1>4, <2>1, HandKept DEF InHand
  <2>3. ASSUME NEW i \in Fips PROVE (Level(i) \/ \E p \in Requests : About(p) /\ i \in {id[p], found[p]})'
    <3>1. CASE Level(i)
      BY <1>3, <1>4, <2>1, <3>1
    <3>2. ASSUME NEW p \in Requests, About(p), i \in {id[p], found[p]}
          PROVE  About(p)' /\ i \in {id'[p], found'[p]}
      BY <1>1, <1>4, <3>2 DEF Still, About, AboutFloatingips
    <3> QED
      BY <1>4, <3>1, <3>2 DEF InHand
  <2> QED
    BY <2>2, <2>3 DEF InHand, Fips
<1>5. ASSUME ~ crossed, About(q) PROVE InHand'
  <2>1. Hand(q) /\ HandOn(q) /\ \A p \in Requests : About(p) => p = q
    BY <1>5, HandStep DEF InHand, OneInv
  <2>2. \A p \in Requests : About(p)' => p = q /\ Hand(p)'
    BY <1>1, <2>1 DEF HandOn, About
  <2>3. ASSUME NEW i \in Fips PROVE Level(i)' \/ (About(q)' /\ i \in {id'[q], found'[q]})
    <3>1. CASE i \in {id[q], found[q]}
      BY <2>1, <3>1, RulesApart DEF HandOn, About, Fips
    <3>2. CASE i \notin {id[q], found[q]}
      <4>1. Level(i)
        BY <1>5, <2>1, <3>2 DEF InHand
      <4> QED
        BY <1>3, <1>5, <2>1, <3>2, <4>1, HandAside
    <3> QED
      BY <3>1, <3>2
  <2> QED
    BY <2>2, <2>3 DEF InHand, Fips
<1>6. crossed => InHand'
  BY <1>1 DEF InHand
<1> QED
  BY <1>2, <1>4, <1>5, <1>6

\* disassociate_floatingips comes from update_floatingip only.
LEMMA NotFree == \A m \in Methods : m.op # "free"
BY DEF Methods, CreateNetwork, UpdateNetwork, DeleteNetwork, CreatePort, UpdatePort, DeletePort,
       CreateSubnet, UpdateSubnet, DeleteSubnet, CreateRouter, UpdateRouter, DeleteRouter,
       AddRouterInterface, RemoveRouterInterface, CreateFloatingip, UpdateFloatingip,
       DeleteFloatingip, CreateSecurityGroup, UpdateSecurityGroup, DeleteSecurityGroup,
       CreateSecurityGroupRule, DeleteSecurityGroupRule, Transaction, Plain

LEMMA HandStart ==
    ASSUME LocalInv, OneInv, InHand, NEW q \in Requests, NEW m \in Methods, NEW i \in Ids,
           NEW v \in Values, Start(q, m, i, v)
    PROVE  InHand' /\ OneInv'
<1>1. /\ UNCHANGED <<stores, astray>> /\ pending[q] = Nothing /\ \A p \in Requests \ {q} : Still(p)
      /\ at'[q] = 1 /\ method'[q] = m /\ id'[q] = i /\ found'[q] = NoId /\ at[q] = 0
      /\ Kind[i] \in m.on
  BY StartEmpty DEF Start, LocalInv, Typed, LocalOK, Own
<1>2. ASSUME ~ crossed'
      PROVE  /\ ~ crossed
             /\ AboutFloatingips(m) => \A p \in Requests : ~ About(p)
  BY <1>2 DEF Start, About
<1>3. \A p \in Requests \ {q} : About(p)' <=> About(p)
  BY <1>1 DEF Still, About, AboutFloatingips
<1>4. About(q)' <=> AboutFloatingips(m)
  BY <1>1 DEF About, AboutFloatingips
<1>5. OneInv'
  BY <1>1, <1>2, <1>3, <1>4 DEF OneInv, About
<1>6. \A j \in Fips : Level(j) => Level(j)'
  BY <1>1 DEF Level, Alike, Absent, stores
<1>7. ASSUME ~ crossed' PROVE InHand'
  <2>1. \A p \in Requests \ {q} : About(p)' => Hand(p)'
    BY <1>1, <1>2, <1>3, <1>7, HandKept DEF InHand, stores
  <2>2. ASSUME AboutFloatingips(m) PROVE Hand(q)'
    <3>1. \A j \in Fips : Level(j)'
      BY <1>2, <1>6, <1>7, <2>2 DEF InHand
    <3>2. m \in {CreateFloatingip, UpdateFloatingip, DeleteFloatingip, DeletePort}
      BY <2>2, AboutMethods, MethodsKnown, NotFree, Special
    <3>3. Step(q)' \in {"write", "find", "lock"} /\ (Step(q)' = "write" => m = CreateFloatingip)
      <4>1. Step(q)' = m.steps[1]
        BY <1>1 DEF Step
      <4> QED
        BY <3>2, <4>1 DEF CreateFloatingip, UpdateFloatingip, DeleteFloatingip, DeletePort, Plain, Transaction
    <3>4. m = UpdateFloatingip => Level(id[q])'
      <4>1. m = UpdateFloatingip => i \in Fips
        BY <1>1, Special DEF Fips
      <4> QED
        BY <1>1, <3>1, <4>1 DEF Level
    <3>5. pending'[q] = Nothing
      BY <1>1 DEF stores
    <3> QED
      BY <1>1, <3>2, <3>3, <3>4, <3>5, Special DEF Hand, Nothing, Fips
  <2>3. ASSUME NEW j \in Fips PROVE (Level(j) \/ \E p \in Requests : About(p) /\ j \in {id[p], found[p]})'
    <3>1. Level(j) \/ \E p \in Requests \ {q} : About(p) /\ j \in {id[p], found[p]}
      BY <1>1, <1>2, <1>7 DEF InHand, About
    <3>2. ASSUME NEW p \in Requests \ {q}, About(p), j \in {id[p], found[p]}
          PROVE  About(p)' /\ j \in {id'[p], found'[p]}
      BY <1>1, <1>3, <3>2 DEF Still
    <3> QED
      BY <1>6, <3>1, <3>2
  <2> QED
    BY <1>4, <2>1, <2>2, <2>3 DEF InHand, Fips
<1> QED
  BY <1>5, <1>7 DEF InHand

LEMMA HandNext ==
    ASSUME LocalInv, BehindInv, LonelyInv, OneInv, InHand, [Next]_vars
    PROVE  InHand' /\ OneInv'
<1>1. CASE UNCHANGED vars
  <2>1. /\ \A q \in Requests : (About(q)' <=> About(q)) /\ Still(q)
        /\ UNCHANGED <<stores, id, found, astray, crossed>>
    BY <1>1, DoneFrame DEF vars, stores, request, history, About, AboutFloatingips, Still
  <2>2. OneInv'
    BY <2>1 DEF OneInv
  <2>3. \A q \in Requests : About(q) /\ Hand(q) => Hand(q)'
    BY <2>1, HandKept DEF stores
  <2>4. \A j \in Fips : Level(j)' <=> Level(j)
    BY <2>1 DEF Level, Alike, Absent, stores
  <2> QED
    BY <2>1, <2>2, <2>3, <2>4 DEF InHand, Fips
<1>2. ASSUME NEW q \in Requests, GetPorts(q) PROVE InHand' /\ OneInv'
  BY <1>1, <1>2 DEF GetPorts
<1> QED
  BY <1>1, <1>2, HandStart, HandRequest DEF Next

LEMMA HandInit == Init => InHand /\ OneInv
BY DEF Init, InHand, OneInv, About, Level, Alike

-----------------------------------------------------------------------------
(* Neutron and the Director agree                                           *)

AgreeInv == DirectorInv /\ UnbornInv /\ RuleInv /\ BehindInv /\ LonelyInv /\ OneInv /\ InHand

LEMMA AgreeInvAgree == ASSUME AgreeInv PROVE Agree
<1> SUFFICES ASSUME NEW i \in Ids \ astray, \A q \in Requests : i \notin Touched(q),
                    ~ (Kind[i] = "floatingip" /\ crossed)
             PROVE  Near(behind, i, db[i], director[i])
  BY DEF Agree
<1>1. \A q \in Requests : i # id[q] /\ i # found[q] /\ pending[q][i] = "same"
  BY DEF Touched
<1>2. CASE Firm(i)
  BY <1>1, <1>2 DEF AgreeInv, DirectorInv, FollowInv, Followed
<1>3. CASE Kind[i] = "rule"
  BY <1>1, <1>3 DEF AgreeInv, RuleInv, Followed, Removing
<1>4. CASE Kind[i] = "floatingip"
  BY <1>1, <1>4, NearSame DEF AgreeInv, InHand, Level, Fips
<1> QED
  BY <1>2, <1>3, <1>4 DEF Firm

\* Whatever the objects are and however many workers serve requests about them: but for what a
\* request is about, what a failure has left different, and floating ips once two requests
\* about them have overlapped, the Director has what Neutron's database has.
THEOREM AgreeCorrect == Spec => []Agree
<1>1. Init => AgreeInv
  BY DirectorInit, UnbornInit, RuleInit, BehindInit, LonelyInit, HandInit DEF AgreeInv
<1>2. AgreeInv /\ [Next]_vars => AgreeInv'
  <2> SUFFICES ASSUME AgreeInv, [Next]_vars PROVE AgreeInv'
    OBVIOUS
  <2>1. LocalInv
    BY DEF AgreeInv, DirectorInv
  <2> QED
    BY <2>1, DirectorNext, UnbornNext, RuleNext, BehindNext, LonelyNext, HandNext DEF AgreeInv
<1> QED
  BY <1>1, <1>2, AgreeInvAgree, PTL DEF Spec
=============================================================================
