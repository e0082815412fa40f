------------------------------- MODULE PkiKeys ------------------------------
(***************************************************************************)
(* How the keystone nodes share one set of signing keys                    *)
(* (openstack-identity/recipes/server.rb, strategy "pki"): chef-client     *)
(* runs on every node again and again; the elected node makes the keys,    *)
(* reads the three files into its attributes one by one and saves each;    *)
(* the others copy the attributes to their files once the last is there.   *)
(***************************************************************************)
EXTENDS NodeElection, Sequences

CONSTANTS
    None,        \* no file, no attribute
    Empty        \* a file without content

ASSUME NoneAssumption == None \notin Nodes /\ Empty \notin Nodes /\ None # Empty

Parts == <<"certfile", "keyfile", "ca_certs">>
Names == {"certfile", "keyfile", "ca_certs"}

VARIABLES
    pc,          \* where the chef-client run of each node is
    step,        \* the part it is at
    given,       \* keygen_node's attributes, as the search returned them
    files,       \* the files of each node: the node whose pki_setup made them
    published,   \* the _data attributes each node has saved
    interrupted, \* history: a pki_setup did not come to its end
    faults

run == <<pc, step, given>>
vars == <<chefServer, run, files, published, interrupted, faults>>

Generations == Nodes \union {None}
Nothing == [p \in Names |-> None]
KeysOf(n) == [p \in Names |-> n]

TypeOK ==
    /\ ElectionTypeOK
    /\ pc \in [Nodes -> {"off", "tag", "role", "setup", "read", "copy", "end"}]
    /\ step \in [Nodes -> 1..3]
    /\ given \in [Nodes -> [Names -> Generations \union {Empty}]]
    /\ files \in [Nodes -> [Names -> Generations \union {Empty}]]
    /\ published \in [Nodes -> [Names -> Generations \union {Empty}]]
    /\ interrupted \in BOOLEAN
    /\ faults \in 0..MaxFaults

Init ==
    /\ ElectionInit
    /\ pc = [n \in Nodes |-> "off"]
    /\ step = [n \in Nodes |-> 1]
    /\ given = [n \in Nodes |-> Nothing]
    /\ files = [n \in Nodes |-> Nothing]
    /\ published = [n \in Nodes |-> Nothing]
    /\ interrupted = FALSE
    /\ faults = 0

Goto(n, here, there) ==
    /\ pc[n] = here
    /\ pc' = [pc EXCEPT ![n] = there]

Start(n) ==
    /\ n \in registered
    /\ Goto(n, "off", "tag")
    /\ UNCHANGED <<chefServer, step, given, files, published, interrupted, faults>>

-----------------------------------------------------------------------------
(* The recipe is compiled: node_election, and what follows from its answer  *)

\* mutant: the first attribute to be saved is tested, not the last
ReadyEarly(m) == published[m]["certfile"] # None

Ready(m) == published[m]["ca_certs"] # None

Go(n, m) == IF m = n THEN "setup" ELSE IF Ready(m) THEN "copy" ELSE "end"

Elect(n, m) ==
    /\ given' = [given EXCEPT ![n] = IF m # n /\ Ready(m) THEN published[m] ELSE Nothing]
    /\ UNCHANGED <<step, files, published, interrupted, faults>>

\* A tagged node is found, the first of any order.
SearchTag(n, m) ==
    /\ m \in Masters
    /\ Goto(n, "tag", Go(n, m))
    /\ Elect(n, m)
    /\ UNCHANGED chefServer

NoneTagged(n) ==
    /\ Masters = {}
    /\ Goto(n, "tag", "role")
    /\ UNCHANGED <<chefServer, step, given, files, published, interrupted, faults>>

SearchRole(n, m) ==
    /\ ElectFirst(n, m)
    /\ Goto(n, "role", Go(n, m))
    /\ Elect(n, m)

\* The elected node is another one that may not have saved its attributes yet:
\* NoMethodError, and the run is over.
AttributesMissing(n, m) ==
    /\ m # n
    /\ m \notin tagged
    /\ ElectFirst(n, m)
    /\ Goto(n, "role", "off")
    /\ UNCHANGED <<step, given, files, published, interrupted, faults>>

-----------------------------------------------------------------------------
(* The recipe is converged                                                  *)

\* mutant: keys that are there have been read
SetupSkips(n) ==
    /\ Goto(n, "setup", IF files[n]["keyfile"] # None THEN "end" ELSE "read")
    /\ files' = [files EXCEPT ![n] = IF @["keyfile"] # None THEN @ ELSE KeysOf(n)]
    /\ UNCHANGED <<chefServer, step, given, published, interrupted, faults>>

\* keystone-manage pki_setup, not_if the key file exists.
Setup(n) ==
    /\ Goto(n, "setup", "read")
    /\ files' = [files EXCEPT ![n] = IF @["keyfile"] # None THEN @ ELSE KeysOf(n)]
    /\ UNCHANGED <<chefServer, step, given, published, interrupted, faults>>

Fault == faults < MaxFaults /\ faults' = faults + 1

\* It fails or is killed and has made some of the files.
SetupInterrupted(n, S) ==
    /\ Fault
    /\ files[n]["keyfile"] = None
    /\ Goto(n, "setup", "off")
    /\ files' = [files EXCEPT ![n] = [p \in Names |-> IF p \in S THEN n ELSE @[p]]]
    /\ interrupted' = TRUE
    /\ UNCHANGED <<chefServer, step, given, published>>

NextPart(n) ==
    /\ step' = [step EXCEPT ![n] = IF @ < 3 THEN @ + 1 ELSE 1]
    /\ pc' = [pc EXCEPT ![n] = IF step[n] < 3 THEN @ ELSE "end"]

\* ruby_block "read #{name}": a file that is there and was not read before.
ReadPart(n) ==
    /\ pc[n] = "read"
    /\ LET p == Parts[step[n]]
       IN  published' = [published EXCEPT ![n][p] = IF @ = None THEN files[n][p] ELSE @]
    /\ NextPart(n)
    /\ UNCHANGED <<chefServer, given, files, interrupted, faults>>

\* file "..." with the content of the attribute; without one, an empty file.
CopyPart(n) ==
    /\ pc[n] = "copy"
    /\ LET p == Parts[step[n]]
       IN  files' = [files EXCEPT ![n][p] =
                        IF given[n][p] # None THEN given[n][p] ELSE IF @ = None THEN Empty ELSE @]
    /\ NextPart(n)
    /\ UNCHANGED <<chefServer, given, published, interrupted, faults>>

End(n) ==
    /\ Goto(n, "end", "off")
    /\ given' = [given EXCEPT ![n] = Nothing]
    /\ UNCHANGED <<chefServer, step, files, published, interrupted, faults>>

\* The run is killed, or the chef server does not answer.
Fail(n) ==
    /\ pc[n] # "off"
    /\ Fault
    /\ pc' = [pc EXCEPT ![n] = "off"]
    /\ step' = [step EXCEPT ![n] = 1]
    /\ given' = [given EXCEPT ![n] = Nothing]
    /\ UNCHANGED <<chefServer, files, published, interrupted>>

-----------------------------------------------------------------------------
Step(n) ==
    \/ \E m \in Nodes : SearchTag(n, m) \/ SearchRole(n, m) \/ AttributesMissing(n, m)
    \/ NoneTagged(n)
    \/ Setup(n) \/ ReadPart(n) \/ CopyPart(n) \/ End(n)

ServerStep(n) ==
    /\ Register(n) \/ Reindex(n)
    /\ UNCHANGED <<run, files, published, interrupted, faults>>

Next ==
    \E n \in Nodes :
        \/ ServerStep(n)
        \/ Start(n) \/ Step(n) \/ Fail(n)
        \/ \E S \in SUBSET Names : SetupInterrupted(n, S)

Spec == Init /\ [][Next]_vars

\* Compass registers every node, the index catches up, cron starts chef-client
\* again on every node, and a run goes on.
FairSpec ==
    Spec /\ \A n \in Nodes : WF_vars(ServerStep(n)) /\ WF_vars(Start(n)) /\ WF_vars(Step(n))

-----------------------------------------------------------------------------
(* Properties                                                               *)

Undisturbed == ~ missed /\ ~ interrupted

\* A run that comes to its end leaves a node with a whole set of keys of one
\* pki_setup, or with none, although the sets are saved and copied part by part
\* and runs are killed in between (the test for ca_certs_data, the last to be saved).
EndsWhole ==
    Undisturbed => \A n \in Nodes : pc[n] = "end" =>
        \E g \in Generations : \A p \in Names : files[n][p] = g

\* In the end all nodes have the keys of one node.
EventuallyShared ==
    <>[](Undisturbed => \E g \in Nodes : \A n \in Nodes : files[n] = KeysOf(g))
=============================================================================
