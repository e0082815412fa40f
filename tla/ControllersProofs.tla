-------------------------- MODULE ControllersProofs -------------------------
(***************************************************************************)
(* Proofs about the three recipes that elect a node, and about Controllers *)
(* that composes them, for any nodes and any number of faults.             *)
(*                                                                         *)
(* As long as the searches for the role find all nodes, only the first of  *)
(* all nodes is ever elected: Keeper.                                      *)
(*   keystone's keys: there is one set, Keeper's; Keeper's own files are   *)
(* never half of it, and nothing of it leaves Keeper before all of it was  *)
(* saved (KeyInv).                                                         *)
(*   keepalived: below every node that is found tagged, that thinks it is  *)
(* tagged, or that is about to lose its tag, there is a node that keeps    *)
(* its own (Covered); only Keeper is ever the master (FirstOnly).          *)
(*   ssh keys: what a node has saved and was offered is of one pair, and   *)
(* so is what it has written of it (MixInv), and all of it is Keeper's as  *)
(* long as no search has missed a node (OneInv).                           *)
(*   A behaviour follows one recipe, and the state of the others stays as  *)
(* it was at first.                                                        *)
(***************************************************************************)
EXTENDS Controllers, FiniteSetTheorems, TLAPS

-----------------------------------------------------------------------------
(* The first of some nodes                                                  *)

\* The names below a name are fewer the smaller it is, and there are finitely many.
LEMMA FirstIsLeast ==
    ASSUME NEW S \in SUBSET Nodes, S # {}
    PROVE  First(S) \in S /\ \A m \in S : First(S) <= m
<1> DEFINE Below(n) == {m \in S : m < n}
<1> DEFINE T == {Below(n) : n \in S}
<1>1. S \subseteq Nat /\ IsFiniteSet(S)
  BY NodesAssumption, FS_Subset DEF NodesAssumption
<1>2. IsWellFoundedOn(StrictSubsetOrdering(S), SUBSET S)
  BY <1>1, FS_StrictSubsetOrderingWellFounded, FS_FiniteSubsetsOfFinite
<1>3. T \subseteq SUBSET S /\ T # {}
  OBVIOUS
<1>4. \E A \in T : \A U \in T : <<U, A>> \notin StrictSubsetOrdering(S)
  <2> HIDE DEF T
  <2> QED
    BY <1>2, <1>3, WFMin
<1>5. PICK n \in S : \A m \in S : <<Below(m), Below(n)>> \notin StrictSubsetOrdering(S)
  BY <1>4
<1>6. ASSUME NEW m \in S, m < n PROVE FALSE
  <2>1. ASSUME NEW k \in S, k < m PROVE k < n
    <3>1. k \in Nat /\ m \in Nat /\ n \in Nat
      BY <1>1
    <3> QED
      BY <1>6, <2>1, <3>1
  <2>2. m \in Below(n) /\ m \notin Below(m)
    BY <1>1, <1>6
  <2>3. Below(m) \subseteq Below(n) /\ Below(m) # Below(n)
    BY <2>1, <2>2
  <2>4. Below(m) \in SUBSET S /\ Below(n) \in SUBSET S
    OBVIOUS
  <2> HIDE DEF Below
  <2>5. <<Below(m), Below(n)>> \in StrictSubsetOrdering(S)
    BY <2>3, <2>4 DEF StrictSubsetOrdering
  <2> QED
    BY <1>5, <2>5
<1>7. \A m \in S : n <= m
  BY <1>1, <1>6
<1> QED
  BY <1>7 DEF First

\* The three modules mean the same by it.
LEMMA SameFirst == \A S : KA!First(S) = First(S) /\ SK!First(S) = First(S)
  BY DEF First, KA!First, SK!First

Keeper == First(Nodes)

LEMMA KeeperIsNode == Keeper \in Nodes
  BY NodesAssumption, FirstIsLeast DEF NodesAssumption, Keeper

-----------------------------------------------------------------------------
(* Keystone: types                                                          *)

LEMMA PartNames == \A k \in 1..3 : Parts[k] \in Names
<1>1. Parts[1] \in Names /\ Parts[2] \in Names /\ Parts[3] \in Names
  BY DEF Parts, Names
<1> QED
  BY <1>1

LEMMA KeystoneTypeInit == Init => TypeOK
<1> SUFFICES ASSUME Init PROVE TypeOK
  OBVIOUS
<1>1. faults \in 0..MaxFaults /\ step \in [Nodes -> 1..3]
  BY MaxFaultsAssumption DEF MaxFaultsAssumption, Init
<1>2. ElectionTypeOK
  BY DEF Init, ElectionInit, ElectionTypeOK
<1>3. Nothing \in [Names -> Generations \union {Empty}]
  BY DEF Nothing, Generations
<1>4. /\ files \in [Nodes -> [Names -> Generations \union {Empty}]]
      /\ given \in [Nodes -> [Names -> Generations \union {Empty}]]
      /\ published \in [Nodes -> [Names -> Generations \union {Empty}]]
  BY <1>3 DEF Init
<1> QED
  BY <1>1, <1>2, <1>4 DEF Init, TypeOK

LEMMA TypeServer ==
    ASSUME ElectionTypeOK, NEW n \in Nodes, Register(n) \/ Reindex(n)
    PROVE  ElectionTypeOK'
  BY DEF ElectionTypeOK, Register, Reindex

LEMMA TypeElect ==
    ASSUME ElectionTypeOK, NEW n \in Nodes, NEW m \in Nodes, ElectFirst(n, m)
    PROVE  ElectionTypeOK'
  BY DEF ElectionTypeOK, ElectFirst

LEMMA KeystoneTypeStep == TypeOK /\ [Next]_vars => TypeOK'
<1> SUFFICES ASSUME TypeOK, [Next]_vars PROVE TypeOK'
  OBVIOUS
<1> USE DEF TypeOK, run, Goto
<1>1. CASE UNCHANGED vars
  BY <1>1 DEF vars, chefServer, ElectionTypeOK
<1>2. ASSUME UNCHANGED chefServer PROVE ElectionTypeOK'
  BY <1>2 DEF chefServer, ElectionTypeOK
<1>3. ASSUME Fault PROVE faults' \in 0..MaxFaults
  BY <1>3, MaxFaultsAssumption DEF Fault, MaxFaultsAssumption
<1>4. ASSUME NEW n \in Nodes, ServerStep(n) PROVE TypeOK'
  BY <1>4, TypeServer DEF ServerStep
<1>5. ASSUME NEW n \in Nodes, Start(n) \/ NoneTagged(n) PROVE TypeOK'
  BY <1>2, <1>5 DEF Start, NoneTagged
<1>6. ASSUME NEW n \in Nodes, NEW m \in Nodes, Elect(n, m)
      PROVE  given' \in [Nodes -> [Names -> Generations \union {Empty}]]
  <2>1. Nothing \in [Names -> Generations \union {Empty}]
    BY DEF Nothing, Generations
  <2> QED
    BY <1>6, <2>1 DEF Elect
<1>7. ASSUME NEW n \in Nodes, NEW m \in Nodes, SearchTag(n, m) \/ SearchRole(n, m) PROVE TypeOK'
  <2>1. ElectionTypeOK'
    BY <1>2, <1>7, TypeElect DEF SearchTag, SearchRole
  <2>2. Elect(n, m)
    BY <1>7 DEF SearchTag, SearchRole
  <2>3. pc' \in [Nodes -> {"off", "tag", "role", "setup", "read", "copy", "end"}]
    BY <1>7 DEF SearchTag, SearchRole, Go
  <2> QED
    BY <1>6, <2>1, <2>2, <2>3 DEF Elect
<1>8. ASSUME NEW n \in Nodes, NEW m \in Nodes, AttributesMissing(n, m) PROVE TypeOK'
  BY <1>8, TypeElect DEF AttributesMissing
<1>9. ASSUME NEW n \in Nodes, Setup(n) PROVE TypeOK'
  <2>1. KeysOf(n) \in [Names -> Generations \union {Empty}]
    BY DEF KeysOf, Generations
  <2> QED
    BY <1>2, <1>9, <2>1 DEF Setup
<1>10. ASSUME NEW n \in Nodes, NEW S \in SUBSET Names, SetupInterrupted(n, S) PROVE TypeOK'
  <2>1. [p \in Names |-> IF p \in S THEN n ELSE files[n][p]] \in [Names -> Generations \union {Empty}]
    BY DEF Generations
  <2>2. files' \in [Nodes -> [Names -> Generations \union {Empty}]]
    BY <1>10, <2>1 DEF SetupInterrupted
  <2> QED
    BY <1>2, <1>3, <1>10, <2>2 DEF SetupInterrupted
<1>11. ASSUME NEW n \in Nodes, NextPart(n)
       PROVE  /\ step' \in [Nodes -> 1..3]
              /\ pc' \in [Nodes -> {"off", "tag", "role", "setup", "read", "copy", "end"}]
  BY <1>11 DEF NextPart
<1>12. ASSUME NEW n \in Nodes, ReadPart(n) PROVE TypeOK'
  <2>1. published' \in [Nodes -> [Names -> Generations \union {Empty}]]
    BY <1>12, PartNames DEF ReadPart
  <2> QED
    BY <1>2, <1>11, <1>12, <2>1 DEF ReadPart
<1>13. ASSUME NEW n \in Nodes, CopyPart(n) PROVE TypeOK'
  <2>1. files' \in [Nodes -> [Names -> Generations \union {Empty}]]
    BY <1>13, PartNames DEF CopyPart
  <2> QED
    BY <1>2, <1>11, <1>13, <2>1 DEF CopyPart
<1>14. ASSUME NEW n \in Nodes, End(n) \/ Fail(n) PROVE TypeOK'
  <2>1. Nothing \in [Names -> Generations \union {Empty}]
    BY DEF Nothing, Generations
  <2>2. CASE End(n)
    BY <1>2, <2>1, <2>2 DEF End
  <2>3. CASE Fail(n)
    BY <1>2, <1>3, <2>1, <2>3 DEF Fail
  <2> QED
    BY <1>14, <2>2, <2>3
<1> QED
  BY <1>1, <1>4, <1>5, <1>7, <1>8, <1>9, <1>10, <1>12, <1>13, <1>14 DEF Next, Step

-----------------------------------------------------------------------------
(* Keystone and ssh: the election                                           *)

\* Who is tagged in the index is tagged, and only Keeper is.
ElectInv ==
    /\ Masters \subseteq tagged
    /\ ~ missed => tagged \subseteq {Keeper}

LEMMA ElectInvInit == ElectionInit => ElectInv
  BY DEF ElectionInit, ElectInv, Masters

\* What a step of a recipe with node_election does to the chef server.
ElectionStep ==
    \/ UNCHANGED chefServer
    \/ \E n \in Nodes : Register(n) \/ Reindex(n)
    \/ \E n, m \in Nodes : ElectFirst(n, m)

LEMMA ElectInvStep == ElectionTypeOK /\ ElectInv /\ ElectionStep => ElectInv'
<1> SUFFICES ASSUME ElectionTypeOK, ElectInv, ElectionStep PROVE ElectInv'
  OBVIOUS
<1> USE DEF ElectInv, Masters
<1>1. CASE UNCHANGED chefServer
  BY <1>1 DEF chefServer
<1>2. ASSUME NEW n \in Nodes, Register(n) \/ Reindex(n) PROVE ElectInv'
  BY <1>2 DEF Register, Reindex, ElectionTypeOK
<1>3. ASSUME NEW n \in Nodes, NEW m \in Nodes, ElectFirst(n, m) PROVE ElectInv'
  <2>1. ~ missed' => m = Keeper
    BY <1>3, NodesAssumption DEF ElectFirst, FirstFound, Keeper, NodesAssumption
  <2> QED
    BY <1>3, <2>1 DEF ElectFirst
<1> QED
  BY <1>1, <1>2, <1>3 DEF ElectionStep

LEMMA KeystoneElection == [Next]_vars => ElectionStep
  BY DEF ElectionStep, vars, Next, Step, ServerStep, Start, NoneTagged, SearchTag, SearchRole,
         AttributesMissing, Setup, SetupInterrupted, ReadPart, CopyPart, End, Fail

-----------------------------------------------------------------------------
(* Keystone: the keys                                                       *)

WholeFiles(n) == files[n] \in {Nothing, KeysOf(Keeper)}

\* Only Keeper makes and reads keys, and it never copies any.
RoleInv == \A n \in Nodes : pc[n] \in {"setup", "read"} => n = Keeper

\* A node that copies was given all of Keeper's keys and has copied those before step.
CopyInv ==
    \A n \in Nodes : pc[n] = "copy" =>
        /\ n # Keeper
        /\ Ready(Keeper)
        /\ given[n] = KeysOf(Keeper)
        /\ \A k \in 1..3 : k < step[n] => files[n][Parts[k]] = Keeper

WholeInv ==
    /\ WholeFiles(Keeper)
    /\ \A n \in Nodes : pc[n] = "end" => WholeFiles(n)

\* Keeper reads files that are all there, and has saved those before step.
ReadInv ==
    /\ \A p \in Names : published[Keeper][p] \in {None, Keeper}
    /\ pc[Keeper] = "read" =>
           /\ files[Keeper] = KeysOf(Keeper)
           /\ \A k \in 1..3 : k < step[Keeper] => published[Keeper][Parts[k]] = Keeper

\* The last part is saved last, and nobody has a file of it before.
SourceInv ==
    /\ Ready(Keeper) => published[Keeper] = KeysOf(Keeper)
    /\ \A n \in Nodes, p \in Names : n # Keeper /\ files[n][p] # None => Ready(Keeper)

KeyInv == Undisturbed => RoleInv /\ CopyInv /\ WholeInv /\ ReadInv /\ SourceInv

\* What None stands for is no node's name.
LEMMA NoneApart == Keeper # None /\ Keeper \in Nodes /\ Empty # None
  BY KeeperIsNode, NoneAssumption DEF NoneAssumption

\* A function on the names is known from its three values.
LEMMA ByParts ==
    ASSUME NEW f, f = [p \in Names |-> f[p]],
           f[Parts[1]] = Keeper, f[Parts[2]] = Keeper, f[Parts[3]] = Keeper
    PROVE  f = KeysOf(Keeper)
<1>1. \A p \in Names : f[p] = Keeper
  BY DEF Names, Parts
<1> QED
  BY <1>1 DEF KeysOf

LEMMA KeyInvInit == Init => KeyInv
<1> SUFFICES ASSUME Init PROVE RoleInv /\ CopyInv /\ WholeInv /\ ReadInv /\ SourceInv
  BY DEF KeyInv
<1>1. \A n \in Nodes : pc[n] = "off" /\ files[n] = Nothing /\ published[n] = Nothing
  BY DEF Init
<1>2. \A p \in Names : Nothing[p] = None
  BY DEF Nothing
<1>3. "ca_certs" \in Names
  BY DEF Names
<1> QED
  BY <1>1, <1>2, <1>3, NoneApart DEF RoleInv, CopyInv, WholeInv, WholeFiles, ReadInv, SourceInv, Ready

\* The searches elect Keeper, and whoever is given its keys is given all of them.
LEMMA KeyElect ==
    ASSUME TypeOK, RoleInv, CopyInv, WholeInv, ReadInv, SourceInv,
           NEW n \in Nodes, Elect(n, Keeper), pc[n] \in {"tag", "role"},
           pc' = [pc EXCEPT ![n] = Go(n, Keeper)], step[n] = 1
    PROVE  RoleInv' /\ CopyInv' /\ WholeInv' /\ ReadInv' /\ SourceInv'
<1> USE DEF TypeOK
<1>1. pc'[n] = Go(n, Keeper) /\ \A m \in Nodes : m # n => pc'[m] = pc[m] /\ given'[m] = given[m]
  BY DEF Elect
<1>2. UNCHANGED <<step, files, published>>
  BY DEF Elect
<1>3. RoleInv'
  BY <1>1 DEF RoleInv, Go
<1>4. CopyInv'
  <2>1. ASSUME pc'[n] = "copy" PROVE n # Keeper /\ given'[n] = KeysOf(Keeper) /\ Ready(Keeper)
    BY <1>1, <2>1 DEF Go, Elect, SourceInv
  <2>2. \A k \in 1..3 : ~ (k < step[n])
    OBVIOUS
  <2> QED
    BY <1>1, <1>2, <2>1, <2>2 DEF CopyInv, Ready
<1>5. WholeInv'
  <2>1. ASSUME pc'[n] = "end" PROVE files[n] = Nothing
    <3>1. n # Keeper /\ ~ Ready(Keeper)
      BY <1>1, <2>1 DEF Go
    <3>2. \A p \in Names : files[n][p] = None
      BY <3>1 DEF SourceInv
    <3> QED
      BY <3>2 DEF Nothing
  <2> QED
    BY <1>1, <1>2, <2>1 DEF WholeInv, WholeFiles
<1>6. ReadInv'
  <2>1. pc'[Keeper] = "read" => pc[Keeper] = "read"
    BY <1>1, NoneApart DEF Go
  <2> QED
    BY <1>2, <2>1 DEF ReadInv
<1>7. SourceInv'
  BY <1>2 DEF SourceInv, Ready
<1> QED
  BY <1>3, <1>4, <1>5, <1>6, <1>7

\* Outside of the two loops the next part is the first.
StepInv == \A n \in Nodes : pc[n] \notin {"read", "copy"} => step[n] = 1

LEMMA StepInvInit == Init => StepInv
  BY DEF Init, StepInv

LEMMA StepInvStep == TypeOK /\ StepInv /\ [Next]_vars => StepInv'
<1> SUFFICES ASSUME TypeOK, StepInv, [Next]_vars PROVE StepInv'
  OBVIOUS
<1> USE DEF TypeOK, StepInv, run, Goto
<1>1. CASE UNCHANGED vars
  BY <1>1 DEF vars
<1>2. ASSUME NEW n \in Nodes, ServerStep(n) PROVE StepInv'
  BY <1>2 DEF ServerStep
<1>3. ASSUME NEW n \in Nodes, Start(n) \/ NoneTagged(n) \/ End(n) \/ Fail(n) PROVE StepInv'
  BY <1>3 DEF Start, NoneTagged, End, Fail
<1>4. ASSUME NEW n \in Nodes, NEW m \in Nodes, SearchTag(n, m) \/ SearchRole(n, m) PROVE StepInv'
  BY <1>4 DEF SearchTag, SearchRole, Elect
<1>5. ASSUME NEW n \in Nodes, NEW m \in Nodes, AttributesMissing(n, m) PROVE StepInv'
  BY <1>5 DEF AttributesMissing
<1>6. ASSUME NEW n \in Nodes, Setup(n) PROVE StepInv'
  BY <1>6 DEF Setup
<1>7. ASSUME NEW n \in Nodes, NEW S \in SUBSET Names, SetupInterrupted(n, S) PROVE StepInv'
  BY <1>7 DEF SetupInterrupted
<1>8. ASSUME NEW n \in Nodes, ReadPart(n) \/ CopyPart(n) PROVE StepInv'
  BY <1>8 DEF ReadPart, CopyPart, NextPart
<1> QED
  BY <1>1, <1>2, <1>3, <1>4, <1>5, <1>6, <1>7, <1>8 DEF Next, Step

\* Keeper makes its keys, all at once.
LEMMA KeySetup ==
    ASSUME TypeOK, RoleInv, CopyInv, WholeInv, ReadInv, SourceInv, StepInv,
           NEW n \in Nodes, Setup(n)
    PROVE  RoleInv' /\ CopyInv' /\ WholeInv' /\ ReadInv' /\ SourceInv'
<1> USE DEF TypeOK
<1>1. n = Keeper /\ step[n] = 1
  BY DEF Setup, Goto, RoleInv, StepInv
<1>2. /\ pc' = [pc EXCEPT ![Keeper] = "read"]
      /\ UNCHANGED <<step, given, published>>
      /\ \A m \in Nodes : m # Keeper => files'[m] = files[m]
  BY <1>1 DEF Setup, Goto
<1>3. files'[Keeper] = KeysOf(Keeper)
  <2>1. "keyfile" \in Names
    BY DEF Names
  <2>2. files[Keeper] = Nothing => files[Keeper]["keyfile"] = None
    BY <2>1 DEF Nothing
  <2> QED
    BY <1>1, <2>2, NoneApart DEF Setup, WholeInv, WholeFiles
<1>4. RoleInv' /\ CopyInv'
  BY <1>2 DEF RoleInv, CopyInv, Ready
<1>5. WholeInv'
  BY <1>2, <1>3 DEF WholeInv, WholeFiles
<1>6. ReadInv'
  BY <1>1, <1>2, <1>3, NoneApart DEF ReadInv
<1>7. SourceInv'
  BY <1>2 DEF SourceInv, Ready
<1> QED
  BY <1>4, <1>5, <1>6, <1>7

\* Keeper saves one more part; with the last one all of them are saved.
LEMMA KeyRead ==
    ASSUME TypeOK, RoleInv, CopyInv, WholeInv, ReadInv, SourceInv,
           NEW n \in Nodes, ReadPart(n)
    PROVE  RoleInv' /\ CopyInv' /\ WholeInv' /\ ReadInv' /\ SourceInv'
<1> USE DEF TypeOK
<1>1. n = Keeper /\ pc[Keeper] = "read" /\ step[Keeper] \in 1..3
  BY DEF ReadPart, RoleInv
<1> DEFINE q == Parts[step[Keeper]]
<1>2. q \in Names /\ \A k \in 1..3 : Parts[k] \in Names
  BY <1>1, PartNames
<1>3. files[Keeper] = KeysOf(Keeper) /\ files[Keeper][q] = Keeper
  BY <1>1, <1>2 DEF ReadInv, KeysOf
<1>4. /\ published'[Keeper][q] = Keeper
      /\ \A p \in Names : published'[Keeper][p] \in {published[Keeper][p], Keeper}
  BY <1>1, <1>2, <1>3, NoneApart DEF ReadPart, ReadInv
<1>5. /\ UNCHANGED <<given, files>>
      /\ \A m \in Nodes : m # Keeper => pc'[m] = pc[m] /\ step'[m] = step[m]
      /\ pc'[Keeper] = (IF step[Keeper] < 3 THEN "read" ELSE "end")
      /\ step'[Keeper] = (IF step[Keeper] < 3 THEN step[Keeper] + 1 ELSE 1)
  BY <1>1 DEF ReadPart, NextPart
<1>6. \A p \in Names : published'[Keeper][p] \in {None, Keeper}
  BY <1>4 DEF ReadInv
<1>7. \A k \in 1..3 : k <= step[Keeper] => published'[Keeper][Parts[k]] = Keeper
  BY <1>1, <1>2, <1>4 DEF ReadInv
<1>8. RoleInv' /\ WholeInv'
  BY <1>1, <1>3, <1>5 DEF RoleInv, WholeInv, WholeFiles
<1>9. Ready(Keeper) => Ready(Keeper)'
  <2>1. "ca_certs" \in Names
    BY DEF Names
  <2> QED
    BY <1>4, <2>1, NoneApart DEF Ready
<1>10. CopyInv'
  BY <1>1, <1>5, <1>9 DEF CopyInv
<1>11. ReadInv'
  BY <1>1, <1>3, <1>5, <1>6, <1>7, NoneApart DEF ReadInv
<1>12. SourceInv'
  <2>1. ASSUME Ready(Keeper)' PROVE published'[Keeper] = KeysOf(Keeper)
    <3>1. CASE Ready(Keeper)
      <4>1. \A p \in Names : published'[Keeper][p] = Keeper
        BY <1>4, <3>1 DEF SourceInv, KeysOf
      <4> QED
        BY <1>1, <4>1, <1>2 DEF ReadPart, KeysOf
    <3>2. CASE ~ Ready(Keeper)
      <4>1. q = "ca_certs"
        BY <1>1, <1>2, <2>1, <3>2 DEF ReadPart, Ready, Names
      <4>2. step[Keeper] = 3
        BY <1>1, <4>1 DEF Parts
      <4>3. /\ published'[Keeper][Parts[1]] = Keeper
            /\ published'[Keeper][Parts[2]] = Keeper
            /\ published'[Keeper][Parts[3]] = Keeper
        BY <1>7, <4>2
      <4>4. published'[Keeper] = [p \in Names |-> published'[Keeper][p]]
        BY <1>1, <1>2 DEF ReadPart
      <4> QED
        BY <4>3, <4>4, ByParts
    <3> QED
      BY <3>1, <3>2
  <2> QED
    BY <1>5, <1>9, <2>1 DEF SourceInv
<1> QED
  BY <1>8, <1>10, <1>11, <1>12

\* A node copies one more part; after the last one it has them all.
LEMMA KeyCopy ==
    ASSUME TypeOK, RoleInv, CopyInv, WholeInv, ReadInv, SourceInv,
           NEW n \in Nodes, CopyPart(n)
    PROVE  RoleInv' /\ CopyInv' /\ WholeInv' /\ ReadInv' /\ SourceInv'
<1> USE DEF TypeOK
<1>1. pc[n] = "copy" /\ n # Keeper /\ given[n] = KeysOf(Keeper) /\ step[n] \in 1..3 /\ Ready(Keeper)
  BY DEF CopyPart, CopyInv
<1> DEFINE q == Parts[step[n]]
<1>2. q \in Names /\ \A k \in 1..3 : Parts[k] \in Names
  BY <1>1, PartNames
<1>3. given[n][q] = Keeper
  BY <1>1, <1>2 DEF KeysOf
<1>4. files'[n] = [files[n] EXCEPT ![q] = Keeper]
  BY <1>1, <1>2, <1>3, NoneApart DEF CopyPart
<1>5. /\ UNCHANGED <<given, published>>
      /\ \A m \in Nodes : m # n => pc'[m] = pc[m] /\ step'[m] = step[m] /\ files'[m] = files[m]
      /\ pc'[n] = (IF step[n] < 3 THEN "copy" ELSE "end")
      /\ step'[n] = (IF step[n] < 3 THEN step[n] + 1 ELSE 1)
  BY <1>1 DEF CopyPart, NextPart
<1>6. \A k \in 1..3 : k <= step[n] => files'[n][Parts[k]] = Keeper
  BY <1>1, <1>2, <1>4 DEF CopyInv
<1>7. RoleInv'
  BY <1>1, <1>5 DEF RoleInv
<1>8. CopyInv'
  BY <1>1, <1>5, <1>6 DEF CopyInv, Ready
<1>9. WholeInv'
  <2>1. ASSUME pc'[n] = "end" PROVE files'[n] = KeysOf(Keeper)
    <3>1. step[n] = 3
      BY <1>1, <1>5, <2>1
    <3>2. /\ files'[n][Parts[1]] = Keeper
          /\ files'[n][Parts[2]] = Keeper
          /\ files'[n][Parts[3]] = Keeper
      BY <1>6, <3>1
    <3>3. files'[n] = [p \in Names |-> files'[n][p]]
      BY <1>4
    <3> QED
      BY <3>2, <3>3, ByParts
  <2> QED
    BY <1>1, <1>5, <2>1, NoneApart DEF WholeInv, WholeFiles
<1>10. ReadInv'
  BY <1>1, <1>5, NoneApart DEF ReadInv
<1>11. SourceInv'
  BY <1>1, <1>5 DEF SourceInv, Ready
<1> QED
  BY <1>7, <1>8, <1>9, <1>10, <1>11

\* What the other steps leave alone: a run that begins or is over is at no part.
LEMMA KeyKept ==
    ASSUME RoleInv, CopyInv, WholeInv, ReadInv, SourceInv,
           UNCHANGED <<files, published>>,
           \A n \in Nodes :
               \/ pc'[n] = pc[n] /\ step'[n] = step[n] /\ given'[n] = given[n]
               \/ pc'[n] \in {"off", "tag", "role"}
    PROVE  RoleInv' /\ CopyInv' /\ WholeInv' /\ ReadInv' /\ SourceInv'
<1>1. RoleInv'
  BY DEF RoleInv
<1>2. CopyInv'
  BY DEF CopyInv, Ready
<1>3. WholeInv'
  BY DEF WholeInv, WholeFiles
<1>4. ReadInv'
  BY NoneApart DEF ReadInv
<1>5. SourceInv'
  BY DEF SourceInv, Ready
<1> QED
  BY <1>1, <1>2, <1>3, <1>4, <1>5

\* The election answers with Keeper.
LEMMA ElectsKeeper ==
    ASSUME ElectInv, NEW n \in Nodes, NEW m \in Nodes,
           SearchTag(n, m) \/ SearchRole(n, m), ~ missed'
    PROVE  m = Keeper
<1>1. CASE SearchTag(n, m)
  BY <1>1 DEF SearchTag, ElectInv, chefServer
<1>2. CASE SearchRole(n, m)
  BY <1>2, NodesAssumption DEF SearchRole, ElectFirst, FirstFound, Keeper, NodesAssumption
<1> QED
  BY <1>1, <1>2

LEMMA KeyInvStep == TypeOK /\ ElectInv /\ StepInv /\ KeyInv /\ [Next]_vars => KeyInv'
<1> SUFFICES ASSUME TypeOK, ElectInv, StepInv, KeyInv, [Next]_vars, Undisturbed'
             PROVE  RoleInv' /\ CopyInv' /\ WholeInv' /\ ReadInv' /\ SourceInv'
  BY DEF KeyInv
<1>1. Undisturbed
  BY DEF Undisturbed, TypeOK, ElectionTypeOK, vars, chefServer, Next, Step, ServerStep, Register,
         Reindex, Start, NoneTagged, SearchTag, SearchRole, AttributesMissing, ElectFirst, Elect, Setup,
         SetupInterrupted, ReadPart, CopyPart, End, Fail
<1>2. RoleInv /\ CopyInv /\ WholeInv /\ ReadInv /\ SourceInv
  BY <1>1 DEF KeyInv
<1>3. CASE UNCHANGED vars
  BY <1>2, <1>3, KeyKept DEF vars, run
<1>4. ASSUME NEW n \in Nodes, ServerStep(n)
      PROVE  RoleInv' /\ CopyInv' /\ WholeInv' /\ ReadInv' /\ SourceInv'
  BY <1>2, <1>4, KeyKept DEF ServerStep, run
<1>5. ASSUME NEW n \in Nodes, Start(n) \/ NoneTagged(n) \/ End(n) \/ Fail(n)
      PROVE  RoleInv' /\ CopyInv' /\ WholeInv' /\ ReadInv' /\ SourceInv'
  <2>1. /\ UNCHANGED <<files, published>>
        /\ \A m \in Nodes :
              \/ pc'[m] = pc[m] /\ step'[m] = step[m] /\ given'[m] = given[m]
              \/ pc'[m] \in {"off", "tag", "role"}
    BY <1>5 DEF TypeOK, Goto, Start, NoneTagged, End, Fail
  <2> QED
    BY <1>2, <2>1, KeyKept
<1>6. ASSUME NEW n \in Nodes, NEW m \in Nodes, AttributesMissing(n, m)
      PROVE  RoleInv' /\ CopyInv' /\ WholeInv' /\ ReadInv' /\ SourceInv'
  <2>1. UNCHANGED <<files, published, step, given>> /\ pc' = [pc EXCEPT ![n] = "off"]
    BY <1>6 DEF AttributesMissing, Goto
  <2>2. \A k \in Nodes :
           \/ pc'[k] = pc[k] /\ step'[k] = step[k] /\ given'[k] = given[k]
           \/ pc'[k] \in {"off", "tag", "role"}
    BY <2>1 DEF TypeOK
  <2> QED
    BY <1>2, <2>1, <2>2, KeyKept
<1>7. ASSUME NEW n \in Nodes, NEW m \in Nodes, SearchTag(n, m) \/ SearchRole(n, m)
      PROVE  RoleInv' /\ CopyInv' /\ WholeInv' /\ ReadInv' /\ SourceInv'
  <2>1. m = Keeper
    BY <1>7, ElectsKeeper DEF Undisturbed
  <2>2. /\ Elect(n, Keeper) /\ pc[n] \in {"tag", "role"}
        /\ pc' = [pc EXCEPT ![n] = Go(n, Keeper)]
    BY <1>7, <2>1 DEF SearchTag, SearchRole, Goto
  <2>3. step[n] = 1
    BY <2>2 DEF StepInv
  <2> QED
    BY <1>2, <2>2, <2>3, KeyElect
<1>8. ASSUME NEW n \in Nodes, NEW S \in SUBSET Names, SetupInterrupted(n, S) PROVE FALSE
  BY <1>8 DEF SetupInterrupted, Undisturbed
<1> QED
  BY <1>2, <1>3, <1>4, <1>5, <1>6, <1>7, <1>8, KeySetup, KeyRead, KeyCopy DEF Next, Step

-----------------------------------------------------------------------------
(* Keepalived: types                                                        *)

LEMMA FirstFoundIsNode ==
    /\ KA!Masters # {} =>
          KA!First(KA!Masters) \in KA!Masters /\ \A m \in KA!Masters : KA!First(KA!Masters) <= m
    /\ KA!Found # {} => KA!First(KA!Found) \in Nodes
<1>1. KA!Masters \in SUBSET Nodes /\ KA!Found \in SUBSET Nodes
  BY DEF KA!Masters, KA!Found
<1> QED
  BY <1>1, FirstIsLeast, SameFirst

LEMMA KeepalivedTypeInit == KA!Init => KA!KeepalivedTypeOK
<1> SUFFICES ASSUME KA!Init PROVE KA!KeepalivedTypeOK
  OBVIOUS
<1>1. faults \in 0..MaxFaults
  BY MaxFaultsAssumption DEF MaxFaultsAssumption, KA!Init
<1> QED
  BY <1>1 DEF KA!Init, KA!KInit, KA!ElectionInit, KA!KeepalivedTypeOK, KA!ElectionTypeOK, KA!States

LEMMA KeepalivedTypeStep == KA!KeepalivedTypeOK /\ [KA!Next]_(KA!kvars) => KA!KeepalivedTypeOK'
<1> SUFFICES ASSUME KA!KeepalivedTypeOK, [KA!Next]_(KA!kvars) PROVE KA!KeepalivedTypeOK'
  OBVIOUS
<1> USE DEF KA!KeepalivedTypeOK, KA!ElectionTypeOK, KA!Goto, KA!chefServer, KA!node
<1>1. ASSUME NEW n \in Nodes, KA!ServerStep(n) PROVE KA!KeepalivedTypeOK'
  BY <1>1 DEF KA!ServerStep, KA!Register, KA!Reindex
<1>2. ASSUME NEW n \in Nodes, KA!Start(n) PROVE KA!KeepalivedTypeOK'
  BY <1>2 DEF KA!Start
<1>3. ASSUME NEW n \in Nodes, KA!Step(n) PROVE KA!KeepalivedTypeOK'
  <2>1. ASSUME NEW m \in Nodes, KA!FirstTagged(n, m) PROVE KA!KeepalivedTypeOK'
    <3>1. KA!Masters \ {m} \in SUBSET Nodes
      BY DEF KA!Masters
    <3> QED
      BY <2>1, <3>1 DEF KA!FirstTagged
  <2>2. ASSUME NEW m \in Nodes, KA!Elect(n, m) PROVE KA!KeepalivedTypeOK'
    <3>1. tagged' \in SUBSET Nodes /\ carrying' \in SUBSET Nodes
      BY <2>2 DEF KA!Elect
    <3>2. saved' \in [Nodes -> KA!States]
      BY <2>2 DEF KA!Elect
    <3>3. UNCHANGED <<registered, indexed, state, seen, todo, conf, faults>> /\ missed' \in BOOLEAN
      BY <2>2 DEF KA!Elect
    <3>4. /\ kpc' = [kpc EXCEPT ![n] = "decide"] /\ master' = [master EXCEPT ![n] = m]
          /\ kpc[n] = "role"
      BY <2>2 DEF KA!Elect
    <3>5. \A i \in Nodes : kpc'[i] \in {"converge", "end", "untag"} <=> kpc[i] \in {"converge", "end", "untag"}
      BY <3>4
    <3> QED
      BY <3>1, <3>2, <3>3, <3>4, <3>5
  <2>3. CASE KA!NoneTagged(n) \/ KA!Untagged(n) \/ KA!NobodyFound(n)
    BY <2>3 DEF KA!NoneTagged, KA!Untagged, KA!NobodyFound
  <2>4. CASE KA!Untag(n)
    BY <2>4 DEF KA!Untag
  <2>5. CASE KA!Decide(n)
    BY <2>5 DEF KA!Decide, KA!States
  <2>6. CASE KA!Converge(n)
    BY <2>6 DEF KA!Converge
  <2>7. CASE KA!End(n)
    BY <2>7 DEF KA!End
  <2> QED
    BY <1>3, <2>1, <2>2, <2>3, <2>4, <2>5, <2>6, <2>7 DEF KA!Step
<1>4. ASSUME NEW n \in Nodes, KA!Fail(n) PROVE KA!KeepalivedTypeOK'
  <2>1. faults' \in 0..MaxFaults
    <3>1. MaxFaults \in Nat /\ faults \in 0..MaxFaults /\ faults < MaxFaults /\ faults' = faults + 1
      BY <1>4, MaxFaultsAssumption DEF KA!Fail, MaxFaultsAssumption
    <3> HIDE DEF KA!KeepalivedTypeOK
    <3> QED
      BY <3>1
  <2> QED
    BY <1>4, <2>1 DEF KA!Fail
<1>5. CASE UNCHANGED KA!kvars
  BY <1>5 DEF KA!kvars
<1> QED
  BY <1>1, <1>2, <1>3, <1>4, <1>5 DEF KA!Next

-----------------------------------------------------------------------------
(* Keepalived: some node stays tagged                                       *)

Kept(m) == \E k \in tagged : k <= m

Covered ==
    /\ \A n \in Nodes : n \in tagged => kpc[n] = "off" \/ n \in carrying
    /\ \A m \in Nodes : indexed[m] = "tagged" => Kept(m)
    /\ \A n \in Nodes : kpc[n] # "off" /\ n \in carrying => Kept(n)
    /\ \A n \in Nodes : \A m \in todo[n] : \E k \in tagged : k < m

LEMMA CoveredInit == KA!Init => Covered
BY DEF KA!Init, KA!KInit, KA!ElectionInit, Covered

\* A tag that goes has another one below it.
LEMMA UntagKeeps ==
    ASSUME KA!KeepalivedTypeOK, Covered, NEW n \in Nodes, KA!Untag(n)
    PROVE  /\ \E k \in tagged : k \in tagged'
           /\ \A m \in Nodes : Kept(m) => Kept(m)'
           /\ \A m \in Nodes : (\E k \in tagged : k < m) => (\E k \in tagged' : k < m)
<1> DEFINE m0 == KA!First(todo[n])
<1>1. todo[n] \in SUBSET Nodes /\ todo[n] # {}
  BY DEF KA!KeepalivedTypeOK, KA!Untag
<1>2. m0 \in todo[n] /\ m0 \in Nodes
  BY <1>1, FirstIsLeast, SameFirst
<1>3. PICK k0 \in tagged : k0 < m0
  BY <1>2 DEF Covered
<1>4. tagged' = tagged \ {m0}
  BY DEF KA!Untag
<1>5. tagged \subseteq Nat /\ Nodes \subseteq Nat
  BY NodesAssumption DEF NodesAssumption, KA!KeepalivedTypeOK, KA!ElectionTypeOK
<1> HIDE DEF m0
<1>6. m0 \in Nat /\ k0 \in Nat /\ k0 \in tagged'
  <2>1. m0 \in Nat /\ k0 \in Nat
    BY <1>2, <1>5
  <2>2. k0 # m0
    BY <1>3, <2>1
  <2> QED
    BY <1>4, <2>1, <2>2
<1>7. \A k \in tagged : k \in tagged' \/ k = m0
  BY <1>4
<1>8. \A m \in Nodes : Kept(m) => Kept(m)'
  BY <1>3, <1>5, <1>6, <1>7 DEF Kept
<1>9. \A m \in Nodes : (\E k \in tagged : k < m) => (\E k \in tagged' : k < m)
  BY <1>3, <1>5, <1>6, <1>7
<1> QED
  BY <1>6, <1>8, <1>9

LEMMA CoveredStep == KA!KeepalivedTypeOK /\ Covered /\ [KA!Next]_(KA!kvars) => Covered'
<1> SUFFICES ASSUME KA!KeepalivedTypeOK, Covered, [KA!Next]_(KA!kvars) PROVE Covered'
  OBVIOUS
<1>1. Nodes \subseteq Nat /\ tagged \subseteq Nodes
  BY NodesAssumption DEF NodesAssumption, KA!KeepalivedTypeOK, KA!ElectionTypeOK
<1>2. ASSUME tagged \subseteq tagged'
      PROVE  /\ \A m \in Nodes : Kept(m) => Kept(m)'
             /\ \A m \in Nodes : (\E k \in tagged : k < m) => (\E k \in tagged' : k < m)
  BY <1>2 DEF Kept
<1>0. ASSUME NEW n \in Nodes PROVE (n \in tagged => Kept(n)) /\ (n \in tagged' => Kept(n)')
  <2>1. n \in Nat /\ n <= n
    BY <1>1
  <2> QED
    BY <2>1 DEF Kept
<1>a. ASSUME NEW m \in Nodes, NEW i \in Nodes, Kept(m), m <= i, m # i
      PROVE  \E k \in tagged : k < i
  <2>1. PICK k \in tagged : k <= m
    BY <1>a DEF Kept
  <2>2. k \in Nat /\ m \in Nat /\ i \in Nat
    BY <1>1
  <2> QED
    BY <1>a, <2>1, <2>2
<1> USE DEF KA!KeepalivedTypeOK, KA!ElectionTypeOK, Covered, KA!Goto, KA!chefServer, KA!node
<1>3. ASSUME NEW n \in Nodes, KA!ServerStep(n) PROVE Covered'
  <2>1. CASE KA!Register(n)
    BY <1>3, <2>1 DEF KA!ServerStep, KA!Register, Kept
  <2>2. CASE KA!Reindex(n)
    <3>1. n \in tagged => Kept(n)
      BY <1>0
    <3>2. tagged' = tagged /\ \A m \in Nodes : Kept(m)' <=> Kept(m)
      BY <1>3, <2>2 DEF KA!ServerStep, KA!Reindex, Kept
    <3> QED
      BY <1>3, <2>2, <3>1, <3>2 DEF KA!ServerStep, KA!Reindex
  <2> QED
    BY <1>3, <2>1, <2>2 DEF KA!ServerStep
<1>4. ASSUME NEW n \in Nodes, KA!Start(n) PROVE Covered'
  <2>1. n \in tagged => Kept(n)
    BY <1>0
  <2>2. tagged' = tagged /\ \A m \in Nodes : Kept(m)' <=> Kept(m)
    BY <1>4 DEF KA!Start, Kept
  <2> QED
    BY <1>4, <2>1, <2>2 DEF KA!Start
<1>5. ASSUME NEW n \in Nodes, KA!Step(n) PROVE Covered'
  <2>1. ASSUME NEW m \in Nodes, KA!FirstTagged(n, m) PROVE Covered'
    <3>1. m \in KA!Masters /\ \A i \in KA!Masters : m <= i
      BY <2>1, FirstFoundIsNode DEF KA!FirstTagged
    <3>2. Kept(m) /\ KA!Masters \subseteq Nat /\ m \in Nat
      BY <1>1, <3>1 DEF KA!Masters
    <3>3. \A i \in KA!Masters \ {m} : \E k \in tagged : k < i
      BY <1>a, <3>1, <3>2 DEF KA!Masters
    <3>4. tagged' = tagged /\ \A i \in Nodes : Kept(i)' <=> Kept(i)
      BY <2>1 DEF KA!FirstTagged, Kept
    <3>5. todo' = [todo EXCEPT ![n] = KA!Masters \ {m}]
      BY <2>1 DEF KA!FirstTagged
    <3>6. (\A i \in Nodes : \A j \in todo[i] : \E k \in tagged : k < j)'
      BY <3>3, <3>4, <3>5
    <3>7. UNCHANGED <<indexed, carrying>> /\ kpc' = [kpc EXCEPT ![n] = "untag"] /\ kpc[n] = "tag"
      BY <2>1 DEF KA!FirstTagged
    <3>8. \A i \in Nodes : kpc'[i] = "off" <=> kpc[i] = "off"
      BY <3>7
    <3> QED
      BY <3>4, <3>6, <3>7, <3>8
  <2>2. ASSUME NEW m \in Nodes, KA!Elect(n, m) PROVE Covered'
    <3>1. m = n => Kept(n)'
      BY <1>0, <2>2 DEF KA!Elect
    <3>2. tagged \subseteq tagged' /\ UNCHANGED <<indexed, todo>>
      BY <2>2 DEF KA!Elect
    <3>3. \A i \in Nodes : Kept(i) => Kept(i)'
      BY <1>2, <3>2
    <3>4. \A i \in Nodes : \A j \in todo'[i] : \E k \in tagged' : k < j
      BY <1>2, <3>2
    <3>5. m # n => carrying' = carrying /\ tagged' = tagged
      BY <2>2 DEF KA!Elect
    <3>6. \A i \in Nodes : i # n => (i \in carrying' <=> i \in carrying) /\ kpc'[i] = kpc[i]
      BY <2>2 DEF KA!Elect
    <3>7. m = n => n \in carrying' /\ tagged' = tagged \union {n}
      BY <2>2 DEF KA!Elect
    <3>8. kpc[n] # "off" /\ kpc'[n] # "off"
      BY <2>2 DEF KA!Elect
    <3>9. (\A i \in Nodes : i \in tagged => kpc[i] = "off" \/ i \in carrying)'
      BY <3>5, <3>6, <3>7, <3>8
    <3>10. (\A i \in Nodes : kpc[i] # "off" /\ i \in carrying => Kept(i))'
      BY <3>1, <3>3, <3>5, <3>6, <3>8
    <3> QED
      BY <3>2, <3>3, <3>4, <3>9, <3>10
  <2>3. CASE KA!NoneTagged(n) \/ KA!Untagged(n) \/ KA!NobodyFound(n)
    BY <2>3 DEF KA!NoneTagged, KA!Untagged, KA!NobodyFound, Kept
  <2>4. CASE KA!Untag(n)
    <3>1. /\ \A m \in Nodes : Kept(m) => Kept(m)'
          /\ \A m \in Nodes : (\E k \in tagged : k < m) => (\E k \in tagged' : k < m)
      BY <2>4, UntagKeeps
    <3>2. \A i \in Nodes : todo'[i] \subseteq todo[i]
      BY <2>4 DEF KA!Untag
    <3>3. tagged' \subseteq tagged /\ UNCHANGED <<kpc, carrying, indexed>>
      BY <2>4 DEF KA!Untag
    <3>4. (\A i \in Nodes : \A j \in todo[i] : \E k \in tagged : k < j)'
      BY <3>1, <3>2
    <3> QED
      BY <3>1, <3>3, <3>4
  <2>5. CASE KA!Decide(n)
    BY <2>5 DEF KA!Decide, Kept
  <2>6. CASE KA!Converge(n)
    BY <2>6 DEF KA!Converge, Kept
  <2>7. CASE KA!End(n)
    <3>1. n \notin carrying => n \notin tagged
      BY <2>7 DEF KA!End
    <3>2. tagged \subseteq tagged' /\ UNCHANGED <<carrying, indexed, todo>>
      BY <2>7, <3>1 DEF KA!End
    <3>3. \A i \in Nodes : Kept(i) => Kept(i)'
      BY <1>2, <3>2
    <3>4. (\A i \in Nodes : \A j \in todo[i] : \E k \in tagged : k < j)'
      BY <1>2, <3>2
    <3>5. (\A i \in Nodes : i \in tagged => kpc[i] = "off" \/ i \in carrying)'
      BY <2>7 DEF KA!End
    <3>6. (\A i \in Nodes : kpc[i] # "off" /\ i \in carrying => Kept(i))'
      BY <2>7, <3>3 DEF KA!End
    <3> QED
      BY <3>2, <3>3, <3>4, <3>5, <3>6
  <2> QED
    BY <1>5, <2>1, <2>2, <2>3, <2>4, <2>5, <2>6, <2>7 DEF KA!Step
<1>6. ASSUME NEW n \in Nodes, KA!Fail(n) PROVE Covered'
  BY <1>6 DEF KA!Fail, Kept
<1>7. CASE UNCHANGED KA!kvars
  BY <1>7 DEF KA!kvars, Kept
<1> QED
  BY <1>3, <1>4, <1>5, <1>6, <1>7 DEF KA!Next

-----------------------------------------------------------------------------
(* Keepalived: one master                                                   *)

FirstOnly ==
    /\ tagged \subseteq {Keeper}
    /\ \A m \in Nodes : indexed[m] = "tagged" => m = Keeper
    /\ \A n \in Nodes :
          /\ kpc[n] = "decide" \/ kpc[n] = "untag" => master[n] = Keeper
          /\ kpc[n] # "off" /\ n \in carrying => n = Keeper
          /\ todo[n] = {}
          /\ state[n] = "MASTER" => n = Keeper
          /\ saved[n] = "MASTER" => n = Keeper
          /\ conf[n] = "MASTER" => n = Keeper

Sole == missed \/ FirstOnly

LEMMA SoleInit == KA!Init => Sole
BY DEF KA!Init, KA!KInit, KA!ElectionInit, Sole, FirstOnly

LEMMA SoleStep == KA!KeepalivedTypeOK /\ Sole /\ [KA!Next]_(KA!kvars) => Sole'
<1> SUFFICES ASSUME KA!KeepalivedTypeOK, Sole, [KA!Next]_(KA!kvars), ~ missed' PROVE FirstOnly'
  BY DEF Sole
<1>1. ~ missed /\ FirstOnly
  <2>1. ~ missed
    BY DEF KA!kvars, KA!chefServer, KA!Next, KA!ServerStep, KA!Register, KA!Reindex, KA!Start, KA!Step,
       KA!FirstTagged, KA!Elect,
       KA!NoneTagged, KA!Untag, KA!Untagged, KA!NobodyFound, KA!Decide, KA!Converge, KA!End, KA!Fail
  <2> QED
    BY <2>1 DEF Sole
<1>2. Keeper \in Nodes
  BY KeeperIsNode
<1>t. /\ kpc \in [Nodes -> {"off", "tag", "role", "untag", "decide", "converge", "end"}]
      /\ indexed \in [Nodes -> {"absent", "plain", "tagged"}]
      /\ saved \in [Nodes -> KA!States] /\ state \in [Nodes -> KA!States] /\ conf \in [Nodes -> KA!States]
      /\ master \in [Nodes -> Nodes] /\ todo \in [Nodes -> SUBSET Nodes]
      /\ seen \in [Nodes -> [Nodes -> KA!States]]
      /\ carrying \in SUBSET Nodes
  BY DEF KA!KeepalivedTypeOK, KA!ElectionTypeOK
<1> HIDE DEF Keeper
<1> USE <1>1, <1>2, <1>t DEF FirstOnly, KA!Goto, KA!chefServer, KA!node
<1>3. ASSUME NEW n \in Nodes, KA!ServerStep(n) PROVE FirstOnly'
  <2>1. UNCHANGED <<tagged, kpc, saved, carrying, state, todo, master, conf>>
    BY <1>3 DEF KA!ServerStep, KA!Register, KA!Reindex
  <2>2. \A m \in Nodes : indexed'[m] = "tagged" => m = Keeper
    <3>1. CASE KA!Register(n)
      BY <3>1 DEF KA!Register
    <3>2. CASE KA!Reindex(n)
      BY <3>2 DEF KA!Reindex
    <3> QED
      BY <1>3, <3>1, <3>2 DEF KA!ServerStep
  <2> QED
    BY <2>1, <2>2
<1>4. ASSUME NEW n \in Nodes, KA!Start(n) PROVE FirstOnly'
  BY <1>4 DEF KA!Start
<1>5. ASSUME NEW n \in Nodes, KA!Step(n) PROVE FirstOnly'
  <2>1. ASSUME NEW m \in Nodes, KA!FirstTagged(n, m) PROVE FirstOnly'
    <3>1. m = Keeper /\ KA!Masters = {m}
      BY <2>1, FirstFoundIsNode DEF KA!FirstTagged, KA!Masters
    <3> QED
      BY <2>1, <3>1 DEF KA!FirstTagged
  <2>2. ASSUME NEW m \in Nodes, KA!Elect(n, m) PROVE FirstOnly'
    <3>1. KA!Found = Nodes /\ m = Keeper
      BY <2>2, SameFirst DEF KA!Elect, Keeper
    <3>2. /\ UNCHANGED <<indexed, state, todo, conf>>
          /\ kpc' = [kpc EXCEPT ![n] = "decide"] /\ master' = [master EXCEPT ![n] = Keeper]
      BY <2>2, <3>1 DEF KA!Elect
    <3>3. CASE n = Keeper
      BY <2>2, <3>1, <3>2, <3>3 DEF KA!Elect
    <3>4. CASE n # Keeper
      <4>1. UNCHANGED <<tagged, saved, carrying>>
        BY <2>2, <3>1, <3>4 DEF KA!Elect
      <4> QED
        BY <2>2, <3>2, <3>4, <4>1 DEF KA!Elect
    <3> QED
      BY <3>3, <3>4
  <2>3. CASE KA!NoneTagged(n) \/ KA!Untagged(n) \/ KA!NobodyFound(n)
    <3>1. UNCHANGED <<tagged, indexed, saved, carrying, state, todo, master, conf>>
      BY <2>3 DEF KA!NoneTagged, KA!Untagged, KA!NobodyFound
    <3>2. \A i \in Nodes : kpc'[i] = "decide" \/ kpc'[i] = "untag" => kpc[i] = "decide" \/ kpc[i] = "untag"
      BY <2>3 DEF KA!NoneTagged, KA!Untagged, KA!NobodyFound
    <3>3. \A i \in Nodes : kpc'[i] # "off" => kpc[i] # "off"
      BY <2>3 DEF KA!NoneTagged, KA!Untagged, KA!NobodyFound
    <3> QED
      BY <3>1, <3>2, <3>3
  <2>4. CASE KA!Untag(n)
    BY <2>4 DEF KA!Untag
  <2>5. CASE KA!Decide(n)
    BY <2>5 DEF KA!Decide
  <2>6. CASE KA!Converge(n)
    BY <2>6 DEF KA!Converge
  <2>7. CASE KA!End(n)
    BY <2>7 DEF KA!End
  <2> QED
    BY <1>5, <2>1, <2>2, <2>3, <2>4, <2>5, <2>6, <2>7 DEF KA!Step
<1>6. ASSUME NEW n \in Nodes, KA!Fail(n) PROVE FirstOnly'
  BY <1>6 DEF KA!Fail
<1>7. CASE UNCHANGED KA!kvars
  BY <1>7 DEF KA!kvars
<1> QED
  BY <1>3, <1>4, <1>5, <1>6, <1>7 DEF KA!Next

-----------------------------------------------------------------------------
(* Ssh keys: types                                                          *)

Stages == {"off", "tag", "role", "make", "public", "save", "authorize", "take", "place"}
Attributes == [SK!KeyNames -> Nodes \union {None}]

LEMMA KeyOf == \A k \in 1..3 : SK!Keys[k] \in SK!KeyNames
<1>1. SK!Keys[1] \in SK!KeyNames /\ SK!Keys[2] \in SK!KeyNames /\ SK!Keys[3] \in SK!KeyNames
  BY DEF SK!Keys, SK!KeyNames
<1> QED
  BY <1>1

LEMMA PairTyped == \A g \in Nodes \union {None} : SK!Pair(g) \in Attributes
  BY DEF SK!Pair, Attributes

LEMMA AttributeSet ==
    ASSUME NEW f \in [Nodes -> Attributes], NEW n \in Nodes, NEW k \in SK!KeyNames,
           NEW v \in Nodes \union {None}
    PROVE  [f EXCEPT ![n][k] = v] \in [Nodes -> Attributes]
  BY DEF Attributes

LEMMA SshTyping ==
    SK!SshTypeOK <=>
        /\ ElectionTypeOK
        /\ spc \in [Nodes -> Stages] /\ key \in [Nodes -> 1..3]
        /\ offered \in [Nodes -> Attributes]
        /\ shared \in [Nodes -> Attributes]
        /\ disk \in [Nodes -> Attributes]
        /\ torn \in SUBSET Nodes /\ faults \in 0..MaxFaults
  BY DEF SK!SshTypeOK, SK!ElectionTypeOK, ElectionTypeOK, Stages, Attributes

LEMMA SshTypeInit == ElectionInit /\ SK!SInit /\ faults = 0 => SK!SshTypeOK
<1> SUFFICES ASSUME ElectionInit, SK!SInit, faults = 0 PROVE SK!SshTypeOK
  OBVIOUS
<1>1. SK!NoPair \in Attributes
  BY PairTyped DEF SK!NoPair
<1>2. faults \in 0..MaxFaults
  BY MaxFaultsAssumption DEF MaxFaultsAssumption
<1>3. ElectionTypeOK
  BY DEF ElectionInit, ElectionTypeOK
<1>4. /\ spc \in [Nodes -> Stages] /\ key \in [Nodes -> 1..3] /\ torn \in SUBSET Nodes
      /\ offered \in [Nodes -> Attributes]
      /\ shared \in [Nodes -> Attributes]
      /\ disk \in [Nodes -> Attributes]
  <2>1. /\ offered \in [Nodes -> Attributes]
        /\ shared \in [Nodes -> Attributes]
        /\ disk \in [Nodes -> Attributes]
    BY <1>1 DEF SK!SInit
  <2>2. spc \in [Nodes -> Stages] /\ key \in [Nodes -> 1..3]
    BY DEF SK!SInit, Stages
  <2>3. torn \in SUBSET Nodes
    BY DEF SK!SInit
  <2> QED
    BY <2>1, <2>2, <2>3
<1> QED
  BY <1>2, <1>3, <1>4, SshTyping

LEMMA SshElection == [SK!Next]_(SK!svars) => ElectionStep
<1> SUFFICES ASSUME [SK!Next]_(SK!svars) PROVE ElectionStep
  OBVIOUS
<1>1. CASE UNCHANGED chefServer
  BY <1>1 DEF ElectionStep
<1>2. ASSUME NEW n \in Nodes, SK!Register(n) \/ SK!Reindex(n) PROVE ElectionStep
  BY <1>2 DEF ElectionStep, SK!Register, SK!Reindex, Register, Reindex
<1>3. ASSUME NEW n \in Nodes, NEW m \in Nodes, SK!ElectFirst(n, m) PROVE ElectionStep
  BY <1>3 DEF ElectionStep, SK!ElectFirst, ElectFirst, SK!FirstFound, FirstFound, SK!Found, Found,
     SK!First, First
<1> QED
  BY <1>1, <1>2, <1>3 DEF SK!Next, SK!svars, SK!chefServer, chefServer, SK!ServerStep, SK!Start, SK!Step,
     SK!SearchTag, SK!SearchRole, SK!NoneTagged, SK!Make, SK!MakePublic, SK!Save, SK!PublicMissing,
     SK!Authorize, SK!Take, SK!Place, SK!Fail

LEMMA ElectionTypeStep == ElectionTypeOK /\ ElectionStep => ElectionTypeOK'
<1> SUFFICES ASSUME ElectionTypeOK, ElectionStep PROVE ElectionTypeOK'
  OBVIOUS
<1>1. CASE UNCHANGED chefServer
  BY <1>1 DEF chefServer, ElectionTypeOK
<1> QED
  BY <1>1, TypeServer, TypeElect DEF ElectionStep

\* What the steps of one node n leave to the others, and where they lead.
LEMMA SshTypeStep == SK!SshTypeOK /\ [SK!Next]_(SK!svars) => SK!SshTypeOK'
<1> SUFFICES ASSUME SK!SshTypeOK, [SK!Next]_(SK!svars) PROVE SK!SshTypeOK'
  OBVIOUS
<1>1. /\ ElectionTypeOK
      /\ spc \in [Nodes -> Stages] /\ key \in [Nodes -> 1..3]
      /\ offered \in [Nodes -> Attributes]
      /\ shared \in [Nodes -> Attributes]
      /\ disk \in [Nodes -> Attributes]
      /\ torn \in SUBSET Nodes /\ faults \in 0..MaxFaults
  BY SshTyping
<1>2. ElectionTypeOK'
  BY <1>1, SshElection, ElectionTypeStep
<1> SUFFICES /\ spc' \in [Nodes -> Stages] /\ key' \in [Nodes -> 1..3]
             /\ offered' \in [Nodes -> Attributes]
             /\ shared' \in [Nodes -> Attributes]
             /\ disk' \in [Nodes -> Attributes]
             /\ torn' \in SUBSET Nodes /\ faults' \in 0..MaxFaults
  BY <1>2, SshTyping DEF SK!SshTypeOK, SK!ElectionTypeOK, ElectionTypeOK, Stages, Attributes
<1> USE <1>1
<1>3. ASSUME NEW n \in Nodes, NEW here, NEW there \in Stages, SK!Goto(n, here, there)
      PROVE  spc' \in [Nodes -> Stages]
  BY <1>3 DEF SK!Goto
<1>4. ASSUME NEW n \in Nodes, NEW here \in Stages, NEW there \in Stages, SK!NextKey(n, here, there)
      PROVE  spc' \in [Nodes -> Stages] /\ key' \in [Nodes -> 1..3] /\ key[n] \in 1..3
  BY <1>4 DEF SK!NextKey
<1>5. CASE UNCHANGED SK!svars
  BY <1>5 DEF SK!svars
<1>6. ASSUME NEW n \in Nodes, SK!ServerStep(n) \/ SK!Start(n) \/ SK!NoneTagged(n)
      PROVE  /\ spc' \in [Nodes -> Stages]
             /\ UNCHANGED <<key, offered, shared, disk, torn, faults>>
  BY <1>6, <1>3 DEF SK!ServerStep, SK!Start, SK!NoneTagged, Stages
<1>7. ASSUME NEW n \in Nodes, NEW m \in Nodes, SK!SearchTag(n, m) \/ SK!SearchRole(n, m)
      PROVE  /\ spc' \in [Nodes -> Stages] /\ offered' \in [Nodes -> Attributes]
             /\ UNCHANGED <<key, shared, disk, torn, faults>>
  <2>1. SK!Branch(n, m) \in Stages
    BY DEF SK!Branch, Stages
  <2>2. SK!Elected(n, m) /\ \E here \in {"tag", "role"} : SK!Goto(n, here, SK!Branch(n, m))
    BY <1>7 DEF SK!SearchTag, SK!SearchRole
  <2>3. SK!NoPair \in Attributes
    BY PairTyped DEF SK!NoPair
  <2> QED
    BY <1>3, <2>1, <2>2, <2>3 DEF SK!Elected
<1>8. ASSUME NEW n \in Nodes, SK!Make(n) \/ SK!MakePublic(n) \/ SK!PublicMissing(n)
      PROVE  /\ spc' \in [Nodes -> Stages] /\ disk' \in [Nodes -> Attributes]
             /\ UNCHANGED <<key, offered, shared, torn, faults>>
  <2>1. "private_key" \in SK!KeyNames /\ "public_key" \in SK!KeyNames
    BY DEF SK!KeyNames
  <2>2. spc' \in [Nodes -> Stages]
    BY <1>8, <1>3 DEF SK!Make, SK!MakePublic, SK!PublicMissing, Stages
  <2>3. CASE SK!Make(n)
    BY <2>1, <2>2, <2>3 DEF SK!Make, Attributes
  <2>4. CASE SK!MakePublic(n)
    BY <2>1, <2>2, <2>4, AttributeSet DEF SK!MakePublic
  <2>5. CASE SK!PublicMissing(n)
    BY <2>2, <2>5 DEF SK!PublicMissing
  <2> QED
    BY <1>8, <2>3, <2>4, <2>5
<1>13. ASSUME NEW n \in Nodes, SK!Save(n)
       PROVE  /\ spc' \in [Nodes -> Stages] /\ shared' \in [Nodes -> Attributes]
              /\ UNCHANGED <<key, offered, disk, torn, faults>>
  <2>1. \A k \in SK!KeyNames : disk[n][IF k = "private_key" THEN k ELSE "public_key"] \in Nodes \union {None}
    BY DEF Attributes, SK!KeyNames
  <2>2. [k \in SK!KeyNames |-> disk[n][IF k = "private_key" THEN k ELSE "public_key"]] \in Attributes
    BY <2>1 DEF Attributes
  <2> QED
    BY <1>13, <1>3, <2>2 DEF SK!Save, Stages
<1>9. ASSUME NEW n \in Nodes, SK!Authorize(n)
      PROVE  /\ spc' \in [Nodes -> Stages] /\ disk' \in [Nodes -> Attributes]
             /\ UNCHANGED <<key, offered, shared, torn, faults>>
  BY <1>9, <1>3 DEF SK!Authorize, Stages, Attributes, SK!KeyNames
<1>10. ASSUME NEW n \in Nodes, SK!Take(n)
       PROVE  /\ spc' \in [Nodes -> Stages] /\ key' \in [Nodes -> 1..3]
              /\ shared' \in [Nodes -> Attributes]
              /\ UNCHANGED <<offered, disk, torn, faults>>
  <2>1. spc' \in [Nodes -> Stages] /\ key' \in [Nodes -> 1..3] /\ SK!Keys[key[n]] \in SK!KeyNames
    BY <1>10, <1>4, KeyOf DEF SK!Take, Stages
  <2>2. offered[n][SK!Keys[key[n]]] \in Nodes \union {None}
    BY <2>1 DEF Attributes
  <2>3. /\ shared' = [shared EXCEPT ![n][SK!Keys[key[n]]] = offered[n][SK!Keys[key[n]]]]
        /\ UNCHANGED <<offered, disk, torn, faults>>
    BY <1>10 DEF SK!Take
  <2> QED
    BY <2>1, <2>2, <2>3, AttributeSet
<1>11. ASSUME NEW n \in Nodes, SK!Place(n)
       PROVE  /\ spc' \in [Nodes -> Stages] /\ key' \in [Nodes -> 1..3]
              /\ disk' \in [Nodes -> Attributes]
              /\ UNCHANGED <<offered, shared, torn, faults>>
  <2>1. spc' \in [Nodes -> Stages] /\ key' \in [Nodes -> 1..3] /\ SK!Keys[key[n]] \in SK!KeyNames
    BY <1>11, <1>4, KeyOf DEF SK!Place, Stages
  <2> DEFINE k == SK!Keys[key[n]]
             v == IF shared[n][k] # None THEN shared[n][k] ELSE disk[n][k]
  <2>2. v \in Nodes \union {None}
    BY <2>1 DEF Attributes
  <2>3. disk' = [disk EXCEPT ![n][k] = v] /\ UNCHANGED <<offered, shared, torn, faults>>
    BY <1>11 DEF SK!Place
  <2> HIDE DEF v
  <2> QED
    BY <2>1, <2>2, <2>3, AttributeSet
<1>12. ASSUME NEW n \in Nodes, SK!Fail(n)
       PROVE  /\ spc' \in [Nodes -> Stages] /\ key' \in [Nodes -> 1..3]
              /\ torn' \in SUBSET Nodes /\ faults' \in 0..MaxFaults
              /\ UNCHANGED <<offered, shared, disk>>
  <2>1. faults' \in 0..MaxFaults
    BY <1>12, MaxFaultsAssumption DEF SK!Fail, MaxFaultsAssumption
  <2> QED
    BY <1>12, <2>1 DEF SK!Fail, Stages
<1> QED
  BY <1>5, <1>6, <1>7, <1>8, <1>9, <1>10, <1>11, <1>12, <1>13 DEF SK!Next, SK!Step

-----------------------------------------------------------------------------
(* Ssh keys: one pair                                                       *)

\* The keys in f are g's, as far as there are any.
OfOne(g, f) == \A k \in SK!KeyNames : f[k] \in {g, None}

\* The files of a node that has saved nothing: of a pair of its own, as far as it is made.
Own(n) ==
    /\ shared[n] = SK!NoPair
    /\ \A k \in SK!KeyNames : disk[n][k] \in {n, None}
    /\ disk[n]["authorized_key"] = None
    /\ disk[n]["private_key"] = None => disk[n]["public_key"] = None

\* What a node has saved it has written.
Written(n) == \A k \in SK!KeyNames : shared[n][k] # None => disk[n][k] = shared[n][k]

\* A node at rest has saved nothing, or has written what it has saved.
AtRest(n) == IF shared[n]["private_key"] = None THEN Own(n) ELSE n \in torn \/ Written(n)

\* The attributes of to are those of from up to the key that n is at.
UpTo(n, from, to) ==
    \A k \in 1..3 : to[SK!Keys[k]] = IF k < key[n] THEN from[SK!Keys[k]] ELSE None

Taking(n) ==
    /\ offered[n]["private_key"] # None
    /\ UpTo(n, offered[n], shared[n])
    /\ key[n] = 1 => Own(n)

Placing(n) ==
    /\ offered[n]["private_key"] # None
    /\ shared[n] = offered[n]
    /\ \A k \in 1..3 :
          k < key[n] /\ shared[n][SK!Keys[k]] # None => disk[n][SK!Keys[k]] = shared[n][SK!Keys[k]]

NodeInv(n) ==
    /\ \E g \in Nodes : OfOne(g, shared[n])
    /\ \E g \in Nodes : OfOne(g, offered[n])
    /\ spc[n] \notin {"take", "place"} => key[n] = 1
    /\ spc[n] \in {"off", "tag", "role"} => AtRest(n)
    /\ spc[n] \in {"make", "public", "save"} => Own(n)
    /\ spc[n] \in {"public", "save"} => disk[n]["private_key"] # None
    /\ spc[n] = "authorize" =>
          shared[n] = SK!Pair(n) /\ disk[n] = [SK!Pair(n) EXCEPT !["authorized_key"] = None]
    /\ spc[n] = "take" => Taking(n)
    /\ spc[n] = "place" => Placing(n)

\* As long as no search has missed a node, the pair is Keeper's, and whole.
OneOf(n) ==
    /\ spc[n] \in {"make", "public", "save", "authorize"} => n = Keeper
    /\ spc[n] \in {"take", "place"} => n # Keeper /\ offered[n] = SK!Pair(Keeper)
    /\ n = Keeper => shared[n] \in {SK!NoPair, SK!Pair(n)}
    /\ /\ spc[n] \in {"off", "tag", "role"} /\ n \notin torn
       /\ shared[n]["private_key"] # None
       => shared[n] = SK!Pair(Keeper)

MixInv == \A n \in Nodes : NodeInv(n)
OneInv == missed \/ \A n \in Nodes : OneOf(n)

LEMMA PairFacts ==
    /\ \A g, k : k \in SK!KeyNames => SK!Pair(g)[k] = g
    /\ {"private_key", "public_key", "authorized_key"} = SK!KeyNames
    /\ SK!NoPair = SK!Pair(None)
    /\ None \notin Nodes
    /\ \A g : OfOne(g, SK!NoPair) /\ OfOne(g, SK!Pair(g))
    /\ "private_key" \in SK!KeyNames /\ "public_key" \in SK!KeyNames /\ "authorized_key" \in SK!KeyNames
  BY NoneAssumption DEF SK!Pair, SK!KeyNames, SK!NoPair, NoneAssumption, OfOne

\* A set of attributes is known from its three keys.
LEMMA ByKeys ==
    ASSUME NEW f \in Attributes, NEW h \in Attributes, \A k \in 1..3 : f[SK!Keys[k]] = h[SK!Keys[k]]
    PROVE  f = h
<1>1. \A k \in SK!KeyNames : f[k] = h[k]
  BY DEF SK!Keys, SK!KeyNames
<1> QED
  BY <1>1 DEF Attributes

LEMMA SshInvInit == SK!SInit => MixInv /\ OneInv
<1> SUFFICES ASSUME SK!SInit PROVE MixInv /\ OneInv
  OBVIOUS
<1>1. \A n \in Nodes : spc[n] = "off" /\ key[n] = 1 /\ offered[n] = SK!NoPair
                       /\ shared[n] = SK!NoPair /\ disk[n] = SK!NoPair
  BY DEF SK!SInit
<1>2. SK!NoPair["private_key"] = None
  BY PairFacts
<1>3. ASSUME NEW n \in Nodes PROVE NodeInv(n)
  <2>1. Own(n)
    BY <1>1, PairFacts DEF Own
  <2> QED
    BY <1>1, <1>2, <2>1, PairFacts DEF NodeInv, AtRest
<1>4. ASSUME NEW n \in Nodes PROVE OneOf(n)
  BY <1>1, <1>2 DEF OneOf
<1> QED
  BY <1>3, <1>4 DEF MixInv, OneInv

\* Nothing of a node has changed, unless it has come to rest.
LEMMA NodeKept ==
    ASSUME NEW n \in Nodes, NodeInv(n),
           offered'[n] = offered[n], shared'[n] = shared[n], disk'[n] = disk[n],
           n \in torn => n \in torn',
           \/ spc'[n] = spc[n] /\ key'[n] = key[n]
           \/ spc[n] \in {"off", "tag", "role"} /\ spc'[n] \in {"off", "tag", "role"} /\ key'[n] = key[n]
           \/ (AtRest(n) \/ AtRest(n)') /\ key'[n] = 1 /\ spc'[n] = "off"
    PROVE  NodeInv(n)'
<1>1. Own(n) => Own(n)'
  BY DEF Own, SK!NoPair, SK!Pair, SK!KeyNames
<1>2. AtRest(n) => AtRest(n)'
  BY <1>1 DEF AtRest, Written
<1>3. key'[n] = key[n] => (Taking(n) => Taking(n)') /\ (Placing(n) => Placing(n)')
  BY <1>1 DEF Taking, Placing, UpTo, SK!Keys
<1>4. (\E g \in Nodes : OfOne(g, shared[n]))' /\ (\E g \in Nodes : OfOne(g, offered[n]))'
  BY DEF NodeInv, OfOne
<1> QED
  BY <1>1, <1>2, <1>3, <1>4 DEF NodeInv

\* The steps of node n leave the others alone.
Elsewhere(n) ==
    \A m \in Nodes : m # n =>
        /\ spc'[m] = spc[m] /\ key'[m] = key[m] /\ offered'[m] = offered[m]
        /\ shared'[m] = shared[m] /\ disk'[m] = disk[m]
        /\ m \in torn' <=> m \in torn

LEMMA NodesKept ==
    ASSUME NEW n \in Nodes, \A m \in Nodes : NodeInv(m), Elsewhere(n), NodeInv(n)'
    PROVE  \A m \in Nodes : NodeInv(m)'
  BY NodeKept DEF Elsewhere

LEMMA ElsewhereKept ==
    ASSUME SK!SshTypeOK, NEW n \in Nodes,
           \/ SK!Start(n) \/ SK!NoneTagged(n) \/ SK!Make(n) \/ SK!MakePublic(n) \/ SK!Save(n)
           \/ SK!PublicMissing(n) \/ SK!Authorize(n) \/ SK!Take(n) \/ SK!Place(n)
           \/ SK!Fail(n) \/ \E m \in Nodes : SK!SearchTag(n, m) \/ SK!SearchRole(n, m)
    PROVE  Elsewhere(n)
<1>1. /\ spc \in [Nodes -> Stages] /\ key \in [Nodes -> 1..3] /\ offered \in [Nodes -> Attributes]
      /\ shared \in [Nodes -> Attributes] /\ disk \in [Nodes -> Attributes]
  BY SshTyping
<1>2. CASE SK!Start(n) \/ SK!NoneTagged(n) \/ SK!Fail(n)
  BY <1>1, <1>2 DEF SK!Start, SK!NoneTagged, SK!Fail, SK!Goto, Elsewhere
<1>3. CASE SK!Make(n) \/ SK!MakePublic(n) \/ SK!Save(n) \/ SK!PublicMissing(n) \/ SK!Authorize(n)
  BY <1>1, <1>3 DEF SK!Make, SK!MakePublic, SK!Save, SK!PublicMissing, SK!Authorize, SK!Goto, Elsewhere
<1>4. CASE SK!Take(n) \/ SK!Place(n)
  BY <1>1, <1>4 DEF SK!Take, SK!Place, SK!NextKey, Elsewhere
<1>5. ASSUME NEW m \in Nodes, SK!SearchTag(n, m) \/ SK!SearchRole(n, m) PROVE Elsewhere(n)
  BY <1>1, <1>5 DEF SK!SearchTag, SK!SearchRole, SK!Elected, SK!Goto, Elsewhere
<1> QED
  BY <1>2, <1>3, <1>4, <1>5

\* A node's attributes when it comes from a search: it may have been offered some.
LEMMA SearchNode ==
    ASSUME SK!SshTypeOK, \A m \in Nodes : NodeInv(m), NEW n \in Nodes, NEW m \in Nodes,
           SK!SearchTag(n, m) \/ SK!SearchRole(n, m)
    PROVE  NodeInv(n)'
<1>1. /\ spc \in [Nodes -> Stages] /\ offered \in [Nodes -> Attributes] /\ key \in [Nodes -> 1..3]
      /\ shared \in [Nodes -> Attributes]
  BY SshTyping
<1>2. /\ spc[n] \in {"tag", "role"} /\ spc'[n] = SK!Branch(n, m)
      /\ UNCHANGED <<key, shared, disk, torn>>
      /\ offered'[n] = IF SK!Branch(n, m) = "take" THEN shared[m] ELSE SK!NoPair
  BY <1>1 DEF SK!SearchTag, SK!SearchRole, SK!Goto, SK!Elected
<1>3. /\ \E g \in Nodes : OfOne(g, shared[n])
      /\ \E g \in Nodes : OfOne(g, shared[m])
      /\ key[n] = 1 /\ AtRest(n)
  BY <1>2 DEF NodeInv
<1>4. (\E g \in Nodes : OfOne(g, shared[n]))' /\ (\E g \in Nodes : OfOne(g, offered[n]))'
  BY <1>2, <1>3, PairFacts DEF OfOne
<1>5. AtRest(n)' /\ (Own(n) => Own(n)')
  BY <1>2, <1>3 DEF AtRest, Own, Written, SK!NoPair, SK!Pair, SK!KeyNames
<1>6. CASE shared[n]["private_key"] # None
  <2>1. spc'[n] = "off"
    BY <1>2, <1>6 DEF SK!Branch
  <2> QED
    BY <1>2, <1>3, <1>4, <1>5, <2>1 DEF NodeInv
<1>7. CASE shared[n]["private_key"] = None
  <2>1. Own(n)'
    BY <1>3, <1>5, <1>7 DEF AtRest
  <2>2. /\ spc'[n] \in {"make", "take", "off"}
        /\ spc'[n] = "take" => offered'[n] = shared[m] /\ shared[m]["private_key"] # None
    BY <1>2, <1>7 DEF SK!Branch
  <2>3. \A k \in 1..3 : shared'[n][SK!Keys[k]] = None
    <3>1. shared'[n] = SK!NoPair
      BY <1>2, <1>3, <1>7 DEF AtRest, Own
    <3> QED
      BY <3>1, PairFacts, KeyOf
  <2>4. spc'[n] = "take" => Taking(n)'
    BY <1>2, <1>3, <2>1, <2>2, <2>3 DEF Taking, UpTo, SK!Keys
  <2> QED
    BY <1>2, <1>3, <1>4, <1>5, <2>1, <2>2, <2>4 DEF NodeInv
<1> QED
  BY <1>6, <1>7

\* The node makes its own pair, file by file: it has saved none before.
LEMMA MakeNode ==
    ASSUME SK!SshTypeOK, NEW n \in Nodes, NodeInv(n), SK!Make(n) \/ SK!MakePublic(n) \/ SK!PublicMissing(n)
    PROVE  NodeInv(n)' /\ shared'[n] = shared[n]
<1>1. /\ spc \in [Nodes -> Stages] /\ disk \in [Nodes -> Attributes] /\ shared \in [Nodes -> Attributes]
  BY SshTyping
<1>2. /\ spc[n] \in {"make", "public", "save"} /\ UNCHANGED <<key, offered, shared, torn>>
      /\ spc'[n] \in {"public", "save", "off"}
      /\ spc'[n] # "off" => disk'[n]["private_key"] # None
      /\ \/ disk'[n] = disk[n]
         \/ disk[n]["private_key"] = None /\ disk'[n] = [disk[n] EXCEPT !["private_key"] = n]
         \/ disk[n]["private_key"] # None /\ disk'[n] = [disk[n] EXCEPT !["public_key"] = n]
  <2>1. CASE SK!Make(n)
    <3>1. n # None
      BY PairFacts
    <3>2. spc[n] = "make" /\ UNCHANGED <<key, offered, shared, torn>> /\ spc'[n] \in {"public", "save"}
      BY <1>1, <2>1 DEF SK!Make, SK!Goto
    <3>3. CASE disk[n]["private_key"] = None
      <4>1. disk'[n] = [disk[n] EXCEPT !["private_key"] = n]
        BY <1>1, <2>1, <3>3 DEF SK!Make, Attributes
      <4> QED
        BY <1>1, <3>1, <3>2, <3>3, <4>1, PairFacts DEF Attributes
    <3>4. CASE disk[n]["private_key"] # None
      <4>1. disk'[n] = [disk[n] EXCEPT !["private_key"] = disk[n]["private_key"]]
        BY <1>1, <2>1, <3>4 DEF SK!Make, Attributes
      <4>2. disk'[n] = disk[n]
        BY <1>1, <4>1 DEF Attributes
      <4> QED
        BY <3>2, <3>4, <4>2
    <3> QED
      BY <3>3, <3>4
  <2>2. CASE SK!MakePublic(n)
    <3>1. disk'[n] = [disk[n] EXCEPT !["public_key"] = n]
      BY <1>1, <2>2 DEF SK!MakePublic, Attributes
    <3>2. /\ spc[n] = "public" /\ UNCHANGED <<key, offered, shared, torn>> /\ spc'[n] = "save"
          /\ disk[n]["private_key"] # None
      BY <1>1, <2>2 DEF SK!MakePublic, SK!Goto, NodeInv
    <3>3. disk'[n]["private_key"] = disk[n]["private_key"]
      BY <1>1, <3>1, PairFacts DEF Attributes
    <3> QED
      BY <3>1, <3>2, <3>3
  <2>3. CASE SK!PublicMissing(n)
    BY <1>1, <2>3 DEF SK!PublicMissing, SK!Goto
  <2> QED
    BY <2>1, <2>2, <2>3
<1>3. Own(n) /\ key[n] = 1
  BY <1>2 DEF NodeInv
<1>4. Own(n)'
  <2>1. ASSUME NEW k \in SK!KeyNames PROVE disk'[n][k] \in {n, None}
    <3>1. disk[n][k] \in {n, None} /\ disk[n] \in [SK!KeyNames -> Nodes \union {None}]
      BY <1>1, <1>3 DEF Own, Attributes
    <3>2. disk'[n][k] = disk[n][k] \/ disk'[n][k] = n
      BY <1>2, <3>1
    <3> QED
      BY <3>1, <3>2
  <2>2. disk'[n]["authorized_key"] = None
    BY <1>1, <1>2, <1>3, PairFacts DEF Own, Attributes
  <2>3. disk'[n]["private_key"] = None => disk'[n]["public_key"] = None
    BY <1>1, <1>2, <1>3, PairFacts DEF Own, Attributes
  <2>4. shared'[n] = SK!NoPair
    BY <1>2, <1>3 DEF Own
  <2> QED
    BY <2>1, <2>2, <2>3, <2>4 DEF Own, SK!NoPair, SK!Pair, SK!KeyNames
<1>5. AtRest(n)'
  <2>1. shared'[n]["private_key"] = None
    BY <1>2, <1>3, PairFacts DEF Own
  <2> QED
    BY <1>4, <2>1 DEF AtRest
<1>6. (\E g \in Nodes : OfOne(g, shared[n]))' /\ (\E g \in Nodes : OfOne(g, offered[n]))'
  BY <1>2 DEF NodeInv, OfOne
<1> QED
  BY <1>2, <1>3, <1>4, <1>5, <1>6 DEF NodeInv

\* Both files are there and are its own: it saves its own pair.
LEMMA SaveNode ==
    ASSUME SK!SshTypeOK, NEW n \in Nodes, NodeInv(n), SK!Save(n)
    PROVE  NodeInv(n)' /\ shared'[n] = SK!Pair(n)
<1>1. /\ spc \in [Nodes -> Stages] /\ disk \in [Nodes -> Attributes] /\ shared \in [Nodes -> Attributes]
  BY SshTyping
<1>2. spc[n] = "save" /\ spc'[n] = "authorize" /\ UNCHANGED <<key, offered, disk>>
  BY <1>1 DEF SK!Save, SK!Goto
<1>3. Own(n) /\ disk[n]["private_key"] # None /\ key[n] = 1 /\ \E g \in Nodes : OfOne(g, offered[n])
  BY <1>2 DEF NodeInv
<1>4. shared[n]["private_key"] = None
  BY <1>3, PairFacts DEF Own
<1>5. disk[n]["private_key"] = n /\ disk[n]["public_key"] = n /\ disk[n]["authorized_key"] = None
  BY <1>3, <1>4, PairFacts DEF Own, SK!Save, SK!HalfMade
<1>6. shared'[n] = SK!Pair(n)
  <2>1. shared'[n] = [k \in SK!KeyNames |-> disk[n][IF k = "private_key" THEN k ELSE "public_key"]]
    BY <1>1 DEF SK!Save
  <2> QED
    BY <1>5, <2>1 DEF SK!Pair
<1>7. disk[n] = [SK!Pair(n) EXCEPT !["authorized_key"] = None]
  <2>1. \A k \in SK!KeyNames : disk[n][k] = [SK!Pair(n) EXCEPT !["authorized_key"] = None][k]
    BY <1>5 DEF SK!Pair, SK!KeyNames
  <2> QED
    BY <1>1, <2>1 DEF Attributes, SK!Pair
<1>8. (\E g \in Nodes : OfOne(g, shared[n]))' /\ (\E g \in Nodes : OfOne(g, offered[n]))'
  BY <1>2, <1>3, <1>6, PairFacts DEF OfOne
<1> QED
  BY <1>2, <1>3, <1>6, <1>7, <1>8 DEF NodeInv

LEMMA AuthorizeNode ==
    ASSUME SK!SshTypeOK, NEW n \in Nodes, NodeInv(n), SK!Authorize(n)
    PROVE  NodeInv(n)'
<1>1. /\ spc \in [Nodes -> Stages] /\ disk \in [Nodes -> Attributes]
  BY SshTyping
<1>2. spc[n] = "authorize" /\ spc'[n] = "off" /\ UNCHANGED <<key, offered, shared>>
  BY <1>1 DEF SK!Authorize, SK!Goto
<1>3. /\ shared[n] = SK!Pair(n) /\ disk[n] = [SK!Pair(n) EXCEPT !["authorized_key"] = None]
      /\ key[n] = 1 /\ \E g \in Nodes : OfOne(g, offered[n])
  BY <1>2 DEF NodeInv
<1>4. disk'[n] = SK!Pair(n)
  <2>1. disk'[n] = [disk[n] EXCEPT !["authorized_key"] = n]
    BY <1>1, <1>3, PairFacts DEF SK!Authorize
  <2> QED
    BY <1>3, <2>1 DEF SK!Pair, SK!KeyNames
<1>5. n # None /\ shared[n]["private_key"] = n
  BY <1>3, PairFacts
<1>6. (\E g \in Nodes : OfOne(g, shared[n]))' /\ (\E g \in Nodes : OfOne(g, offered[n]))'
  BY <1>2, <1>3, PairFacts DEF OfOne
<1>7. AtRest(n)'
  <2>1. disk'[n] = shared'[n] /\ shared'[n]["private_key"] # None
    BY <1>2, <1>3, <1>4, <1>5
  <2> QED
    BY <2>1 DEF AtRest, Written
<1> QED
  BY <1>2, <1>3, <1>6, <1>7 DEF NodeInv

\* One key more is saved; with the last one, all that were offered are.
LEMMA TakeNode ==
    ASSUME SK!SshTypeOK, NEW n \in Nodes, NodeInv(n), SK!Take(n)
    PROVE  NodeInv(n)'
<1>1. /\ spc \in [Nodes -> Stages] /\ key \in [Nodes -> 1..3] /\ offered \in [Nodes -> Attributes]
      /\ shared \in [Nodes -> Attributes] /\ disk \in [Nodes -> Attributes]
  BY SshTyping
<1> DEFINE q == SK!Keys[key[n]]
<1>2. /\ spc[n] = "take" /\ UNCHANGED <<offered, disk>> /\ key[n] \in 1..3
      /\ spc'[n] = (IF key[n] < 3 THEN "take" ELSE "place")
      /\ key'[n] = (IF key[n] < 3 THEN key[n] + 1 ELSE 1)
      /\ q \in SK!KeyNames
  BY <1>1, KeyOf DEF SK!Take, SK!NextKey
<1>3. Taking(n)
  BY <1>2 DEF NodeInv
<1>4. shared'[n] \in Attributes /\ shared'[n] = [shared[n] EXCEPT ![q] = offered[n][q]]
  <2>1. SK!SshTypeOK'
    <3>1. SK!Next
      BY DEF SK!Next, SK!Step
    <3> QED
      BY <3>1, SshTypeStep
  <2> QED
    BY <1>1, <1>2, <2>1 DEF SK!Take, SK!SshTypeOK, Attributes
<1>5. \A k \in 1..3 : shared'[n][SK!Keys[k]] = IF k <= key[n] THEN offered[n][SK!Keys[k]] ELSE None
  <2>1. \A k \in 1..3 : SK!Keys[k] \in SK!KeyNames /\ (SK!Keys[k] = q <=> k = key[n])
    BY <1>2, KeyOf DEF SK!Keys
  <2>2. \A k \in 1..3 : shared[n][SK!Keys[k]] = IF k < key[n] THEN offered[n][SK!Keys[k]] ELSE None
    BY <1>3 DEF Taking, UpTo
  <2>3. \A k \in 1..3 : shared'[n][SK!Keys[k]] = IF k = key[n] THEN offered[n][q] ELSE shared[n][SK!Keys[k]]
    BY <1>1, <1>4, <2>1 DEF Attributes
  <2>4. \A k \in 1..3 : (k <= key[n] <=> k < key[n] \/ k = key[n])
    BY <1>2
  <2> HIDE DEF q
  <2> QED
    BY <2>2, <2>3, <2>4 DEF q
<1>6. (\E g \in Nodes : OfOne(g, shared[n]))' /\ (\E g \in Nodes : OfOne(g, offered[n]))'
  <2>1. PICK g \in Nodes : OfOne(g, offered[n])
    BY DEF NodeInv
  <2>2. \A k \in 1..3 : shared'[n][SK!Keys[k]] \in {g, None}
    BY <1>5, <2>1, KeyOf DEF OfOne
  <2>3. \A k \in SK!KeyNames : \E j \in 1..3 : SK!Keys[j] = k
    BY DEF SK!Keys, SK!KeyNames
  <2>4. \A k \in SK!KeyNames : shared'[n][k] \in {g, None}
    BY <2>2, <2>3
  <2> QED
    BY <1>2, <2>1, <2>4 DEF OfOne
<1>7. CASE key[n] < 3
  <2>1. spc'[n] = "take" /\ key'[n] = key[n] + 1
    BY <1>2, <1>7
  <2>2. \A k \in 1..3 : (k < key'[n] <=> k <= key[n])
    BY <1>2, <2>1
  <2>3. Taking(n)'
    <3>1. key'[n] # 1
      BY <1>2, <2>1
    <3> QED
      BY <1>2, <1>3, <1>5, <2>2, <3>1 DEF Taking, UpTo, SK!Keys
  <2> QED
    BY <1>6, <2>1, <2>3 DEF NodeInv
<1>8. CASE ~ (key[n] < 3)
  <2>1. spc'[n] = "place" /\ key'[n] = 1 /\ key[n] = 3
    BY <1>2, <1>8
  <2>2. \A k \in 1..3 : shared'[n][SK!Keys[k]] = offered[n][SK!Keys[k]]
    BY <1>5, <2>1
  <2>3. shared'[n] = offered'[n]
    <3>1. shared'[n] \in Attributes /\ offered[n] \in Attributes
      BY <1>1, <1>4
    <3>2. shared'[n] = offered[n]
      BY <2>2, <3>1, ByKeys
    <3> QED
      BY <1>2, <3>2
  <2>4. \A k \in 1..3 : ~ (k < key'[n])
    BY <2>1
  <2>5. Placing(n)'
    BY <1>2, <1>3, <2>3, <2>4 DEF Placing, Taking
  <2> QED
    BY <1>6, <2>1, <2>5 DEF NodeInv
<1> QED
  BY <1>7, <1>8

\* One file more is written; with the last one, all that were saved are.
LEMMA PlaceNode ==
    ASSUME SK!SshTypeOK, NEW n \in Nodes, NodeInv(n), SK!Place(n)
    PROVE  NodeInv(n)'
<1>1. /\ spc \in [Nodes -> Stages] /\ key \in [Nodes -> 1..3] /\ offered \in [Nodes -> Attributes]
      /\ shared \in [Nodes -> Attributes] /\ disk \in [Nodes -> Attributes]
  BY SshTyping
<1> DEFINE q == SK!Keys[key[n]]
           v == IF shared[n][q] # None THEN shared[n][q] ELSE disk[n][q]
<1>2. /\ spc[n] = "place" /\ UNCHANGED <<offered, shared>> /\ key[n] \in 1..3
      /\ spc'[n] = (IF key[n] < 3 THEN "place" ELSE "off")
      /\ key'[n] = (IF key[n] < 3 THEN key[n] + 1 ELSE 1)
      /\ q \in SK!KeyNames
  BY <1>1, KeyOf DEF SK!Place, SK!NextKey
<1>3. Placing(n)
  BY <1>2 DEF NodeInv
<1>4. disk'[n] \in Attributes /\ disk'[n] = [disk[n] EXCEPT ![q] = v]
  <2>1. SK!SshTypeOK'
    <3>1. SK!Next
      BY DEF SK!Next, SK!Step
    <3> QED
      BY <3>1, SshTypeStep
  <2> QED
    BY <1>1, <1>2, <2>1 DEF SK!Place, SK!SshTypeOK, Attributes
<1>6. ASSUME NEW k \in 1..3, k <= key[n], shared[n][SK!Keys[k]] # None
      PROVE  disk'[n][SK!Keys[k]] = shared[n][SK!Keys[k]]
  <2>1. SK!Keys[k] \in SK!KeyNames /\ (SK!Keys[k] = q <=> k = key[n])
    BY <1>2, KeyOf DEF SK!Keys
  <2>2. k < key[n] => disk[n][SK!Keys[k]] = shared[n][SK!Keys[k]]
    BY <1>3, <1>6 DEF Placing
  <2>3. disk'[n][SK!Keys[k]] = IF k = key[n] THEN v ELSE disk[n][SK!Keys[k]]
    <3> HIDE DEF v
    <3> QED
      BY <1>1, <1>4, <2>1 DEF Attributes
  <2>4. k < key[n] \/ k = key[n]
    BY <1>2, <1>6
  <2> QED
    BY <1>6, <2>2, <2>3, <2>4
<1>7. (\E g \in Nodes : OfOne(g, shared[n]))' /\ (\E g \in Nodes : OfOne(g, offered[n]))'
  BY <1>2 DEF NodeInv, OfOne
<1>8. CASE key[n] < 3
  <2>1. spc'[n] = "place" /\ key'[n] = key[n] + 1
    BY <1>2, <1>8
  <2>2. \A k \in 1..3 : (k < key'[n] <=> k <= key[n])
    BY <1>2, <2>1
  <2>3. Placing(n)'
    BY <1>2, <1>3, <1>6, <2>2 DEF Placing, SK!Keys
  <2> QED
    BY <1>7, <2>1, <2>3 DEF NodeInv
<1>9. CASE ~ (key[n] < 3)
  <2>1. spc'[n] = "off" /\ key'[n] = 1 /\ key[n] = 3
    BY <1>2, <1>9
  <2>2. \A k \in SK!KeyNames : \E j \in 1..3 : SK!Keys[j] = k /\ j <= 3
    BY DEF SK!Keys, SK!KeyNames
  <2>3. Written(n)'
    BY <1>2, <1>6, <2>1, <2>2 DEF Written
  <2>4. AtRest(n)'
    BY <1>2, <1>3, <2>3 DEF AtRest, Placing
  <2> QED
    BY <1>7, <2>1, <2>4 DEF NodeInv
<1> QED
  BY <1>8, <1>9

\* A run that is killed before its first save has saved nothing, and one that is
\* killed after it is torn.
LEMMA FailNode ==
    ASSUME SK!SshTypeOK, NEW n \in Nodes, NodeInv(n), SK!Fail(n)
    PROVE  /\ NodeInv(n)'
           /\ spc[n] \in {"tag", "role"} \/ shared[n]["private_key"] = None \/ n \in torn'
           /\ torn \subseteq torn'
<1>1. /\ spc \in [Nodes -> Stages] /\ key \in [Nodes -> 1..3] /\ shared \in [Nodes -> Attributes]
  BY SshTyping
<1>2. /\ spc'[n] = "off" /\ key'[n] = 1 /\ UNCHANGED <<offered, shared, disk>>
      /\ torn \subseteq torn' /\ key[n] \in 1..3
      /\ \/ n \in torn'
         \/ spc[n] \in {"tag", "role", "make", "public", "save"}
         \/ spc[n] = "take" /\ ~ (key[n] > 1)
  BY <1>1 DEF SK!Fail, Stages
<1>3. spc[n] = "take" /\ ~ (key[n] > 1) => Own(n)
  <2>1. ~ (key[n] > 1) => key[n] = 1
    BY <1>2
  <2> QED
    BY <2>1 DEF NodeInv, Taking
<1>4. Own(n) => shared[n]["private_key"] = None /\ AtRest(n)
  BY PairFacts DEF Own, AtRest
<1>5. spc[n] \in {"tag", "role"} \/ shared[n]["private_key"] = None \/ n \in torn'
  BY <1>2, <1>3, <1>4 DEF NodeInv
<1>6. AtRest(n) \/ AtRest(n)'
  <2>1. CASE spc[n] \in {"tag", "role", "make", "public", "save"} \/ Own(n)
    BY <1>4, <2>1 DEF NodeInv
  <2>2. CASE n \in torn' /\ spc[n] \in {"authorize", "place", "take", "off"}
    <3>1. shared[n]["private_key"] # None \/ Own(n) \/ spc[n] = "off"
      <4>1. CASE spc[n] = "authorize"
        BY <4>1, PairFacts DEF NodeInv
      <4>2. CASE spc[n] = "place"
        BY <4>2 DEF NodeInv, Placing
      <4>3. CASE spc[n] = "take" /\ key[n] # 1
        <5>1. 1 \in 1..3 /\ 1 < key[n] /\ SK!Keys[1] = "private_key"
          BY <1>2, <4>3 DEF SK!Keys
        <5> QED
          BY <4>3, <5>1 DEF NodeInv, Taking, UpTo
      <4>4. CASE spc[n] = "take" /\ key[n] = 1
        BY <4>4 DEF NodeInv, Taking
      <4> QED
        BY <2>2, <4>1, <4>2, <4>3, <4>4
    <3> QED
      BY <1>2, <1>4, <2>2, <3>1 DEF AtRest, NodeInv
  <2> QED
    BY <1>1, <1>2, <1>3, <2>1, <2>2 DEF Stages
<1> QED
  BY <1>2, <1>5, <1>6, NodeKept

LEMMA MixInvStep == SK!SshTypeOK /\ MixInv /\ [SK!Next]_(SK!svars) => MixInv'
<1> SUFFICES ASSUME SK!SshTypeOK, MixInv, [SK!Next]_(SK!svars) PROVE \A n \in Nodes : NodeInv(n)'
  BY DEF MixInv
<1>2. \A m \in Nodes : NodeInv(m)
  BY DEF MixInv
<1>3. ASSUME UNCHANGED <<spc, key, offered, shared, disk, torn>> PROVE \A n \in Nodes : NodeInv(n)'
  BY <1>2, <1>3, NodeKept
<1>4. ASSUME NEW n \in Nodes, SK!Start(n) \/ SK!NoneTagged(n) PROVE \A m \in Nodes : NodeInv(m)'
  <2>1. /\ UNCHANGED <<key, offered, shared, disk, torn>>
        /\ spc[n] \in {"off", "tag", "role"} /\ spc'[n] \in {"off", "tag", "role"}
    BY <1>4, SshTyping DEF SK!Start, SK!NoneTagged, SK!Goto
  <2>2. NodeInv(n)'
    BY <1>2, <2>1, NodeKept
  <2> QED
    BY <1>2, <1>4, <2>2, ElsewhereKept, NodesKept
<1>5. ASSUME NEW n \in Nodes, SK!Fail(n) PROVE \A m \in Nodes : NodeInv(m)'
  BY <1>2, <1>5, FailNode, ElsewhereKept, NodesKept
<1>6. ASSUME NEW n \in Nodes,
             \/ SK!Make(n) \/ SK!MakePublic(n) \/ SK!Save(n) \/ SK!PublicMissing(n)
             \/ SK!Authorize(n) \/ SK!Take(n) \/ SK!Place(n)
      PROVE  \A m \in Nodes : NodeInv(m)'
  BY <1>2, <1>6, MakeNode, SaveNode, AuthorizeNode, TakeNode, PlaceNode, ElsewhereKept, NodesKept
<1>7. ASSUME NEW n \in Nodes, NEW m \in Nodes, SK!SearchTag(n, m) \/ SK!SearchRole(n, m)
      PROVE  \A k \in Nodes : NodeInv(k)'
  BY <1>2, <1>7, SearchNode, ElsewhereKept, NodesKept
<1> QED
  BY <1>3, <1>4, <1>5, <1>6, <1>7 DEF SK!Next, SK!svars, SK!Step, SK!ServerStep

\* Without a missed node, the one that is elected is Keeper, and its pair is whole.
LEMMA OneSearch ==
    ASSUME SK!SshTypeOK, \A k \in Nodes : NodeInv(k), \A k \in Nodes : OneOf(k),
           NEW n \in Nodes, NEW m \in Nodes, m = Keeper, SK!SearchTag(n, m) \/ SK!SearchRole(n, m)
    PROVE  OneOf(n)'
<1>1. spc \in [Nodes -> Stages] /\ offered \in [Nodes -> Attributes]
  BY SshTyping
<1>2. /\ spc[n] \in {"tag", "role"} /\ spc'[n] = SK!Branch(n, m)
      /\ UNCHANGED <<key, shared, disk, torn>>
      /\ offered'[n] = IF SK!Branch(n, m) = "take" THEN shared[m] ELSE SK!NoPair
  BY <1>1 DEF SK!SearchTag, SK!SearchRole, SK!Goto, SK!Elected
<1>3. shared[m]["private_key"] # None => shared[m] = SK!Pair(Keeper)
  BY PairFacts DEF OneOf
<1>4. UNCHANGED <<shared[n], SK!NoPair>>
  BY <1>2 DEF SK!NoPair, SK!Pair, SK!KeyNames
<1>5. n \notin torn /\ shared[n]["private_key"] # None => shared[n] = SK!Pair(Keeper)
  BY <1>2 DEF OneOf
<1> QED
  BY <1>2, <1>3, <1>4, <1>5 DEF OneOf, SK!Branch, Keeper, SK!Pair

LEMMA OneNode ==
    ASSUME SK!SshTypeOK, NEW n \in Nodes, NodeInv(n), OneOf(n),
           \/ SK!Make(n) \/ SK!MakePublic(n) \/ SK!Save(n) \/ SK!PublicMissing(n)
           \/ SK!Authorize(n) \/ SK!Take(n) \/ SK!Place(n)
    PROVE  OneOf(n)'
<1>1. /\ spc \in [Nodes -> Stages]
      /\ key \in [Nodes -> 1..3]
  BY SshTyping
<1>2. CASE SK!Make(n) \/ SK!MakePublic(n) \/ SK!PublicMissing(n)
  <2>1. /\ spc[n] \in {"make", "public", "save"} /\ spc'[n] \in {"public", "save", "off"}
    BY <1>1, <1>2 DEF SK!Make, SK!MakePublic, SK!PublicMissing, SK!Goto
  <2>2. shared'[n] = shared[n] /\ shared[n] = SK!NoPair
    BY <1>2, <2>1, MakeNode DEF NodeInv, Own
  <2>3. shared'[n]["private_key"] = None
    BY <2>2, PairFacts
  <2> QED
    BY <2>1, <2>2, <2>3 DEF OneOf, SK!NoPair, SK!Pair, SK!KeyNames
<1>3. CASE SK!Save(n)
  <2>1. spc[n] = "save" /\ spc'[n] = "authorize" /\ shared'[n] = SK!Pair(n)
    BY <1>1, <1>3, SaveNode DEF SK!Save, SK!Goto
  <2> QED
    BY <2>1 DEF OneOf
<1>4. CASE SK!Authorize(n)
  <2>1. spc[n] = "authorize" /\ spc'[n] = "off" /\ shared'[n] = shared[n]
    BY <1>1, <1>4 DEF SK!Authorize, SK!Goto
  <2> QED
    BY <2>1 DEF OneOf, NodeInv
<1>5. CASE SK!Take(n)
  <2>1. spc[n] = "take" /\ spc'[n] \in {"take", "place"} /\ offered'[n] = offered[n]
    BY <1>1, <1>5 DEF SK!Take, SK!NextKey
  <2> QED
    BY <2>1 DEF OneOf
<1>6. CASE SK!Place(n)
  <2>1. spc[n] = "place" /\ spc'[n] \in {"place", "off"} /\ offered'[n] = offered[n] /\ shared'[n] = shared[n]
    BY <1>1, <1>6 DEF SK!Place, SK!NextKey
  <2> QED
    BY <2>1 DEF OneOf, NodeInv, Placing
<1> QED
  BY <1>2, <1>3, <1>4, <1>5, <1>6

LEMMA OneInvStep ==
    ASSUME SK!SshTypeOK, ElectInv, MixInv, OneInv, [SK!Next]_(SK!svars)
    PROVE  OneInv'
<1> SUFFICES ASSUME ~ missed' PROVE \A n \in Nodes : OneOf(n)'
  BY DEF OneInv
<1>2. ~ missed
  <2>1. missed \in BOOLEAN /\ ElectionStep
    BY SshTyping, SshElection DEF ElectionTypeOK
  <2> QED
    BY <2>1 DEF ElectionStep, chefServer, Register, Reindex, ElectFirst
<1>3. (\A m \in Nodes : NodeInv(m)) /\ (\A m \in Nodes : OneOf(m))
  BY <1>2 DEF MixInv, OneInv
<1>4. ASSUME NEW n \in Nodes, Elsewhere(n), OneOf(n)' PROVE \A m \in Nodes : OneOf(m)'
  <2>1. ASSUME NEW m \in Nodes, m # n PROVE OneOf(m)'
    BY <1>3, <1>4, <2>1 DEF Elsewhere, OneOf
  <2> QED
    BY <1>4, <2>1
<1>5. ASSUME UNCHANGED <<spc, key, offered, shared, disk, torn>> PROVE \A n \in Nodes : OneOf(n)'
  BY <1>3, <1>5 DEF OneOf
<1>6. ASSUME NEW n \in Nodes, SK!Start(n) \/ SK!NoneTagged(n) PROVE \A m \in Nodes : OneOf(m)'
  <2>1. /\ UNCHANGED <<key, offered, shared, disk, torn>>
        /\ spc[n] \in {"off", "tag", "role"} /\ spc'[n] \in {"off", "tag", "role"}
    BY <1>6, SshTyping DEF SK!Start, SK!NoneTagged, SK!Goto
  <2>2. OneOf(n)'
    BY <1>3, <2>1 DEF OneOf
  <2> QED
    BY <1>4, <1>6, <2>2, ElsewhereKept
<1>7. ASSUME NEW n \in Nodes, SK!Fail(n) PROVE \A m \in Nodes : OneOf(m)'
  <2>1. spc'[n] = "off" /\ shared'[n] = shared[n]
    BY <1>7, SshTyping DEF SK!Fail
  <2>2. /\ spc[n] \in {"tag", "role"} \/ shared[n]["private_key"] = None \/ n \in torn'
        /\ torn \subseteq torn'
    BY <1>3, <1>7, FailNode
  <2>3. OneOf(n)'
    BY <1>3, <2>1, <2>2 DEF OneOf
  <2> QED
    BY <1>4, <1>7, <2>3, ElsewhereKept
<1>8. ASSUME NEW n \in Nodes,
             \/ SK!Make(n) \/ SK!MakePublic(n) \/ SK!Save(n) \/ SK!PublicMissing(n)
             \/ SK!Authorize(n) \/ SK!Take(n) \/ SK!Place(n)
      PROVE  \A m \in Nodes : OneOf(m)'
  BY <1>3, <1>4, <1>8, OneNode, ElsewhereKept
<1>9. ASSUME NEW n \in Nodes, NEW m \in Nodes, SK!SearchTag(n, m) \/ SK!SearchRole(n, m)
      PROVE  \A k \in Nodes : OneOf(k)'
  <2>1. m = Keeper
    <3>1. CASE SK!SearchTag(n, m)
      BY <1>2, <3>1 DEF SK!SearchTag, SK!Masters, ElectInv, Masters
    <3>2. CASE SK!SearchRole(n, m)
      BY <3>2, NodesAssumption, SameFirst DEF SK!SearchRole, SK!ElectFirst, SK!FirstFound, Keeper,
         NodesAssumption
    <3> QED
      BY <1>9, <3>1, <3>2
  <2> QED
    BY <1>3, <1>4, <1>9, <2>1, OneSearch, ElsewhereKept
<1> QED
  BY <1>5, <1>6, <1>7, <1>8, <1>9 DEF SK!Next, SK!svars, SK!Step, SK!ServerStep

LEMMA PairsFollow == MixInv /\ OneInv => SK!PairsMatch
<1> SUFFICES ASSUME MixInv, OneInv, NEW n \in Nodes \ torn, spc[n] \in {"off", "tag", "role"},
                    shared[n]["private_key"] # None
             PROVE  /\ \E g \in Nodes : \A k \in SK!KeyNames :
                          shared[n][k] \in (IF missed THEN {g, None} ELSE {g})
                    /\ \A k \in SK!KeyNames : shared[n][k] # None => disk[n][k] = shared[n][k]
  BY DEF SK!PairsMatch
<1>1. NodeInv(n) /\ (missed \/ OneOf(n))
  BY DEF MixInv, OneInv
<1>2. Written(n)
  BY <1>1 DEF NodeInv, AtRest
<1>3. CASE missed
  BY <1>1, <1>2, <1>3 DEF NodeInv, OfOne, Written
<1>4. CASE ~ missed
  <2>1. shared[n] = SK!Pair(Keeper)
    BY <1>1, <1>4 DEF OneOf
  <2> QED
    BY <1>2, <1>4, <2>1, KeeperIsNode, PairFacts DEF Written
<1> QED
  BY <1>3, <1>4

-----------------------------------------------------------------------------
(* Controllers: one of the three recipes                                    *)

LEMMA SameTypes ==
    /\ KA!ElectionTypeOK <=> ElectionTypeOK
    /\ KA!KeepalivedTypeOK => ElectionTypeOK /\ faults \in 0..MaxFaults
    /\ TypeOK => ElectionTypeOK /\ faults \in 0..MaxFaults
    /\ SK!SshTypeOK => ElectionTypeOK /\ faults \in 0..MaxFaults
  BY SshTyping DEF KA!ElectionTypeOK, ElectionTypeOK, KA!KeepalivedTypeOK, TypeOK

\* A recipe that is not run leaves its own state alone; the chef server's stays typed.
LEMMA KeystoneFrame ==
    ASSUME TypeOK, UNCHANGED pkiOnly, ElectionTypeOK', (faults \in 0..MaxFaults)'
    PROVE  TypeOK'
  BY DEF TypeOK, pkiOnly, run

LEMMA KeepalivedFrame ==
    ASSUME KA!KeepalivedTypeOK, UNCHANGED keepalivedOnly, ElectionTypeOK', (faults \in 0..MaxFaults)'
    PROVE  KA!KeepalivedTypeOK'
  BY DEF KA!KeepalivedTypeOK, KA!ElectionTypeOK, ElectionTypeOK, keepalivedOnly

LEMMA SshFrame ==
    ASSUME SK!SshTypeOK, UNCHANGED sshOnly, ElectionTypeOK', (faults \in 0..MaxFaults)'
    PROVE  SK!SshTypeOK'
  BY DEF SK!SshTypeOK, SK!ElectionTypeOK, ElectionTypeOK, sshOnly

LEMMA ControllersTypeInit == ControllersInit => ControllersTypeOK
<1> SUFFICES ASSUME ControllersInit PROVE ControllersTypeOK
  OBVIOUS
<1>1. Init /\ KA!KInit /\ SK!SInit /\ ElectionInit /\ faults = 0
  BY DEF ControllersInit, Init
<1>2. KA!Init
  BY <1>1 DEF KA!Init, KA!ElectionInit, ElectionInit
<1> QED
  BY <1>1, <1>2, KeystoneTypeInit, KeepalivedTypeInit, SshTypeInit DEF ControllersTypeOK

\* What one step can be: of the recipe that is run, with the rest left alone.
LEMMA OneRecipe ==
    ASSUME [ControllersNext]_controllers
    PROVE  /\ recipe' = recipe
           /\ \/ /\ recipe = "keystone" /\ [Next]_vars
                 /\ UNCHANGED keepalivedOnly /\ UNCHANGED sshOnly
              \/ /\ recipe = "keepalived" /\ [KA!Next]_(KA!kvars)
                 /\ UNCHANGED pkiOnly /\ UNCHANGED sshOnly
              \/ /\ recipe = "ssh" /\ [SK!Next]_(SK!svars)
                 /\ UNCHANGED pkiOnly /\ UNCHANGED keepalivedOnly
              \/ UNCHANGED controllers
<1>1. CASE UNCHANGED controllers
  BY <1>1 DEF controllers
<1>2. CASE ControllersNext
  BY <1>2 DEF ControllersNext, Keystone, KeepalivedOf, SshOf
<1> QED
  BY <1>1, <1>2

LEMMA ControllersTypeStep == ControllersTypeOK /\ [ControllersNext]_controllers => ControllersTypeOK'
<1> SUFFICES ASSUME ControllersTypeOK, [ControllersNext]_controllers PROVE ControllersTypeOK'
  OBVIOUS
<1>1. TypeOK /\ KA!KeepalivedTypeOK /\ SK!SshTypeOK
  BY DEF ControllersTypeOK
<1>2. CASE UNCHANGED controllers
  <2>1. /\ UNCHANGED pkiOnly /\ UNCHANGED keepalivedOnly /\ UNCHANGED sshOnly
        /\ UNCHANGED chefServer /\ UNCHANGED faults
    BY <1>2 DEF controllers, vars, pkiOnly
  <2>2. ElectionTypeOK' /\ (faults \in 0..MaxFaults)'
    BY <1>1, <2>1, SameTypes DEF ElectionTypeOK, chefServer
  <2> QED
    BY <1>1, <2>1, <2>2, KeystoneFrame, KeepalivedFrame, SshFrame DEF ControllersTypeOK
<1>3. ASSUME [Next]_vars, UNCHANGED keepalivedOnly, UNCHANGED sshOnly PROVE ControllersTypeOK'
  <2>1. TypeOK'
    BY <1>1, <1>3, KeystoneTypeStep
  <2>2. ElectionTypeOK' /\ (faults \in 0..MaxFaults)'
    BY <2>1 DEF TypeOK
  <2> QED
    BY <1>1, <1>3, <2>1, <2>2, KeepalivedFrame, SshFrame DEF ControllersTypeOK
<1>4. ASSUME [KA!Next]_(KA!kvars), UNCHANGED pkiOnly, UNCHANGED sshOnly PROVE ControllersTypeOK'
  <2>1. KA!KeepalivedTypeOK'
    BY <1>1, <1>4, KeepalivedTypeStep
  <2>2. ElectionTypeOK' /\ (faults \in 0..MaxFaults)'
    BY <2>1 DEF KA!KeepalivedTypeOK, KA!ElectionTypeOK, ElectionTypeOK
  <2> QED
    BY <1>1, <1>4, <2>1, <2>2, KeystoneFrame, SshFrame DEF ControllersTypeOK
<1>5. ASSUME [SK!Next]_(SK!svars), UNCHANGED pkiOnly, UNCHANGED keepalivedOnly PROVE ControllersTypeOK'
  <2>1. SK!SshTypeOK'
    BY <1>1, <1>5, SshTypeStep
  <2>2. ElectionTypeOK' /\ (faults \in 0..MaxFaults)'
    BY <2>1 DEF SK!SshTypeOK, SK!ElectionTypeOK, ElectionTypeOK
  <2> QED
    BY <1>1, <1>5, <2>1, <2>2, KeystoneFrame, KeepalivedFrame DEF ControllersTypeOK
<1> QED
  BY <1>2, <1>3, <1>4, <1>5, OneRecipe

\* The invariants of the recipe that is run, and what is left of the others: no run,
\* no master and no pair.
RecipeInv ==
    /\ recipe \in {"keystone", "keepalived", "ssh"}
    /\ IF recipe = "keystone" THEN ElectInv /\ StepInv /\ KeyInv ELSE \A n \in Nodes : pc[n] = "off"
    /\ IF recipe = "keepalived" THEN Covered /\ Sole ELSE \A n \in Nodes : conf[n] # "MASTER"
    /\ IF recipe = "ssh" THEN ElectInv /\ MixInv /\ OneInv ELSE \A n \in Nodes : shared[n] = SK!NoPair

LEMMA RecipeInit == ControllersInit => RecipeInv
<1> SUFFICES ASSUME ControllersInit PROVE RecipeInv
  OBVIOUS
<1>1. /\ Init /\ KA!KInit /\ SK!SInit /\ ElectionInit /\ faults = 0
      /\ recipe \in {"keystone", "keepalived", "ssh"}
  BY DEF ControllersInit, Init
<1>2. ElectInv /\ StepInv /\ KeyInv
  BY <1>1, ElectInvInit, StepInvInit, KeyInvInit
<1>3. Covered /\ Sole
  <2>1. KA!Init
    BY <1>1 DEF KA!Init, KA!ElectionInit, ElectionInit
  <2> QED
    BY <2>1, CoveredInit, SoleInit
<1>4. MixInv /\ OneInv
  BY <1>1, SshInvInit
<1>5. \A n \in Nodes : pc[n] = "off"
  BY <1>1 DEF Init
<1>6. \A n \in Nodes : conf[n] # "MASTER"
  BY <1>1 DEF KA!KInit
<1>7. \A n \in Nodes : shared[n] = SK!NoPair
  BY <1>1 DEF SK!SInit
<1> QED
  BY <1>1, <1>2, <1>3, <1>4, <1>5, <1>6, <1>7 DEF RecipeInv

LEMMA RecipeStep == ControllersTypeOK /\ RecipeInv /\ [ControllersNext]_controllers => RecipeInv'
<1> SUFFICES ASSUME ControllersTypeOK, RecipeInv, [ControllersNext]_controllers PROVE RecipeInv'
  OBVIOUS
<1>1. TypeOK /\ KA!KeepalivedTypeOK /\ SK!SshTypeOK /\ ElectionTypeOK
  BY SameTypes DEF ControllersTypeOK
<1>2. ASSUME UNCHANGED pkiOnly PROVE (\A n \in Nodes : pc[n] = "off") => (\A n \in Nodes : pc[n] = "off")'
  BY <1>2 DEF pkiOnly, run
<1>3. ASSUME UNCHANGED keepalivedOnly
      PROVE  (\A n \in Nodes : conf[n] # "MASTER") => (\A n \in Nodes : conf[n] # "MASTER")'
  BY <1>3 DEF keepalivedOnly
<1>4. ASSUME UNCHANGED sshOnly
      PROVE  (\A n \in Nodes : shared[n] = SK!NoPair) => (\A n \in Nodes : shared[n] = SK!NoPair)'
  BY <1>4 DEF sshOnly, SK!NoPair, SK!Pair, SK!KeyNames
<1>5. ASSUME recipe = "keystone", recipe' = recipe, [Next]_vars, UNCHANGED keepalivedOnly, UNCHANGED sshOnly
      PROVE  RecipeInv'
  <2>1. ElectInv /\ StepInv /\ KeyInv
    BY <1>5 DEF RecipeInv
  <2>2. ElectInv' /\ StepInv' /\ KeyInv'
    BY <1>1, <1>5, <2>1, KeystoneElection, ElectInvStep, StepInvStep, KeyInvStep
  <2> QED
    BY <1>3, <1>4, <1>5, <2>2 DEF RecipeInv
<1>6. ASSUME recipe = "keepalived", recipe' = recipe, [KA!Next]_(KA!kvars),
             UNCHANGED pkiOnly, UNCHANGED sshOnly
      PROVE  RecipeInv'
  <2>1. Covered /\ Sole
    BY <1>6 DEF RecipeInv
  <2>2. Covered' /\ Sole'
    BY <1>1, <1>6, <2>1, CoveredStep, SoleStep
  <2> QED
    BY <1>2, <1>4, <1>6, <2>2 DEF RecipeInv
<1>7. ASSUME recipe = "ssh", recipe' = recipe, [SK!Next]_(SK!svars),
             UNCHANGED pkiOnly, UNCHANGED keepalivedOnly
      PROVE  RecipeInv'
  <2>1. ElectInv /\ MixInv /\ OneInv
    BY <1>7 DEF RecipeInv
  <2>2. ElectInv' /\ MixInv' /\ OneInv'
    BY <1>1, <1>7, <2>1, SshElection, ElectInvStep, MixInvStep, OneInvStep
  <2> QED
    BY <1>2, <1>3, <1>7, <2>2 DEF RecipeInv
<1>8. CASE UNCHANGED controllers
  <2>1. /\ UNCHANGED vars /\ UNCHANGED pkiOnly /\ UNCHANGED keepalivedOnly /\ UNCHANGED sshOnly
        /\ UNCHANGED chefServer /\ UNCHANGED faults /\ recipe' = recipe
    BY <1>8 DEF controllers, vars, pkiOnly
  <2>2. UNCHANGED KA!kvars
    BY <2>1 DEF keepalivedOnly, KA!kvars, KA!chefServer, KA!node, chefServer
  <2>3. UNCHANGED SK!svars
    BY <2>1 DEF sshOnly, SK!svars, SK!chefServer, chefServer
  <2> QED
    BY <1>5, <1>6, <1>7, <2>1, <2>2, <2>3 DEF RecipeInv
<1> QED
  BY <1>5, <1>6, <1>7, <1>8, OneRecipe

-----------------------------------------------------------------------------
(* The theorems                                                             *)

LEMMA ControllersSafety == ControllersSpec => ControllersInit /\ [][ControllersNext]_controllers
  BY PTL DEF ControllersSpec

\* The types of the state in each of the three recipes, and: a run that writes
\* keepalived.conf has a state to write.
THEOREM TypesCorrect == ControllersSpec => []ControllersTypeOK
  BY ControllersSafety, ControllersTypeInit, ControllersTypeStep, PTL

LEMMA RecipeInvariant == ControllersSpec => []RecipeInv
  BY ControllersSafety, TypesCorrect, RecipeInit, RecipeStep, PTL

\* Unless some search for the role missed a node, at most one node is ever tagged,
\* whichever of the three recipes elects it (node_election, keepalived_master).
THEOREM OneElectedCorrect == ControllersSpec => []OneElected
<1>1. RecipeInv => OneElected
  BY DEF RecipeInv, ElectInv, Sole, FirstOnly, OneElected
<1> QED
  BY <1>1, RecipeInvariant, PTL

\* A chef-client run that ends leaves its node with all of keystone's keys or with none,
\* unless a search for the role missed a node or a pki_setup was interrupted.
THEOREM EndsWholeCorrect == ControllersSpec => []EndsWhole
<1>1. KeyInv => EndsWhole
  BY KeeperIsNode DEF KeyInv, WholeInv, WholeFiles, EndsWhole, Nothing, KeysOf, Generations
<1>2. (\A n \in Nodes : pc[n] = "off") => EndsWhole
  BY DEF EndsWhole
<1>3. RecipeInv => EndsWhole
  BY <1>1, <1>2 DEF RecipeInv
<1> QED
  BY <1>3, RecipeInvariant, PTL

\* recipes/default.rb: with complete searches, one node at most is ever configured as MASTER.
THEOREM OneMasterCorrect == ControllersSpec => []OneMaster
<1>1. Sole => KA!OneMaster
  BY DEF Sole, FirstOnly, KA!OneMaster
<1>2. (\A n \in Nodes : conf[n] # "MASTER") => KA!OneMaster
  BY DEF KA!OneMaster
<1>3. RecipeInv => OneMaster
  BY <1>1, <1>2 DEF RecipeInv, OneMaster
<1> QED
  BY <1>3, RecipeInvariant, PTL

\* The private key, the public key and the authorized key of a node are of one pair,
\* although they are saved and written one by one; all of them, unless a search for the
\* role missed a node (openssh/providers/key.rb).
THEOREM PairsMatchCorrect == ControllersSpec => []PairsMatch
<1>1. (\A n \in Nodes : shared[n] = SK!NoPair) => SK!PairsMatch
  BY PairFacts DEF SK!PairsMatch
<1>2. RecipeInv => PairsMatch
  BY <1>1, PairsFollow DEF RecipeInv, PairsMatch
<1> QED
  BY <1>2, RecipeInvariant, PTL

\* keepalived_master: once a node is tagged, some node is, whatever the searches have
\* found; node_election never takes the tag from a node.
THEOREM StillTaggedCorrect == ControllersSpec => StillTagged
<1>1. ASSUME KA!KeepalivedTypeOK, Covered, KA!Next, tagged # {} PROVE tagged' # {}
  <2>1. ASSUME NEW n \in Nodes, KA!Untag(n) PROVE tagged' # {}
    BY <1>1, <2>1, UntagKeeps
  <2>2. ASSUME NEW n \in Nodes, KA!End(n) PROVE tagged' # {}
    <3>1. n \notin carrying => n \notin tagged
      BY <1>1, <2>2 DEF KA!End, KA!Goto, Covered
    <3> QED
      BY <1>1, <2>2, <3>1 DEF KA!End
  <2>3. ASSUME NEW n \in Nodes, KA!ServerStep(n) \/ KA!Start(n) \/ KA!Fail(n) PROVE tagged' # {}
    BY <1>1, <2>3 DEF KA!ServerStep, KA!Register, KA!Reindex, KA!Start, KA!Fail, KA!chefServer
  <2>4. ASSUME NEW n \in Nodes, KA!Step(n) PROVE tagged' # {}
    BY <1>1, <2>4, <2>1, <2>2 DEF KA!Step, KA!FirstTagged, KA!Elect, KA!NoneTagged, KA!Untagged,
       KA!NobodyFound, KA!Decide, KA!Converge, KA!chefServer
  <2> QED
    BY <1>1, <2>3, <2>4 DEF KA!Next
<1>2. ElectionStep /\ tagged # {} => tagged' # {}
  BY DEF ElectionStep, chefServer, Register, Reindex, ElectFirst
<1>3. ControllersTypeOK /\ RecipeInv /\ [ControllersNext]_controllers =>
          [tagged # {} => tagged' # {}]_(KA!kvars)
  <2> SUFFICES ASSUME ControllersTypeOK, RecipeInv, [ControllersNext]_controllers,
                      tagged # {}, ~ UNCHANGED KA!kvars
               PROVE  tagged' # {}
    OBVIOUS
  <2>1. CASE UNCHANGED controllers
    BY <2>1 DEF controllers, vars, chefServer
  <2>2. ASSUME [Next]_vars PROVE tagged' # {}
    BY <1>2, <2>2, KeystoneElection
  <2>3. ASSUME [SK!Next]_(SK!svars) PROVE tagged' # {}
    BY <1>2, <2>3, SshElection
  <2>4. ASSUME recipe = "keepalived", [KA!Next]_(KA!kvars) PROVE tagged' # {}
    BY <1>1, <2>4 DEF RecipeInv, ControllersTypeOK
  <2> QED
    BY <2>1, <2>2, <2>3, <2>4, OneRecipe
<1> QED
  BY <1>3, ControllersSafety, TypesCorrect, RecipeInvariant, PTL DEF StillTagged, KA!StillTagged
=============================================================================
