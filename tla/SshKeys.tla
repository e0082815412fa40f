------------------------------ MODULE SshKeys -------------------------------
(***************************************************************************)
(* How the nodes of a role come to share one key pair for ssh without a    *)
(* password (openssh/providers/key.rb): the elected node makes it, file by *)
(* file, and saves the three attributes at once; each other node takes     *)
(* them over one by one, saving each, and then writes the files.           *)
(***************************************************************************)
EXTENDS NodeElection, Sequences

CONSTANT None    \* no file, no attribute

Keys == <<"private_key", "public_key", "authorized_key">>
KeyNames == {"private_key", "public_key", "authorized_key"}

VARIABLES
    spc,        \* where the chef-client run of each node is
    key,        \* the key it is at
    offered,    \* ssh_keygen_node's attributes, as the search returned them
    shared,     \* each node's attributes: the node that made the pair
    disk,       \* each node's files
    torn,       \* history: the nodes with a run that failed between its first save
                \* and its last file
    faults

svars == <<chefServer, spc, key, offered, shared, disk, torn, faults>>

Pair(g) == [k \in KeyNames |-> g]
NoPair == Pair(None)

SshTypeOK ==
    /\ ElectionTypeOK
    /\ spc \in [Nodes -> {"off", "tag", "role", "make", "public", "save", "authorize", "take", "place"}]
    /\ key \in [Nodes -> 1..3]
    /\ {offered, shared, disk} \subseteq [Nodes -> [KeyNames -> Nodes \union {None}]]
    /\ torn \in SUBSET Nodes
    /\ faults \in 0..MaxFaults

SInit ==
    /\ spc = [n \in Nodes |-> "off"]
    /\ key = [n \in Nodes |-> 1]
    /\ offered = [n \in Nodes |-> NoPair]
    /\ shared = [n \in Nodes |-> NoPair]
    /\ disk = [n \in Nodes |-> NoPair]
    /\ torn = {}

Init == ElectionInit /\ SInit /\ faults = 0

Goto(n, here, there) == spc[n] = here /\ spc' = [spc EXCEPT ![n] = there]

Start(n) ==
    /\ n \in registered
    /\ Goto(n, "off", "tag")
    /\ UNCHANGED <<chefServer, key, offered, shared, disk, torn, faults>>

-----------------------------------------------------------------------------
(* node_election, and the branch that follows from its answer               *)

\* mutant: the pair of the elected node is taken over again in every run
BranchAlways(n, m) ==
    IF m = n THEN (IF shared[n]["private_key"] = None THEN "make" ELSE "off")
    ELSE IF shared[m]["private_key"] # None THEN "take" ELSE "off"

Branch(n, m) ==
    IF shared[n]["private_key"] # None THEN "off"
    ELSE IF m = n THEN "make"
    ELSE IF shared[m]["private_key"] # None THEN "take" ELSE "off"

Elected(n, m) ==
    /\ offered' = [offered EXCEPT ![n] = IF Branch(n, m) = "take" THEN shared[m] ELSE NoPair]
    /\ UNCHANGED <<key, shared, disk, torn, faults>>

SearchTag(n, m) ==
    /\ m \in Masters
    /\ Goto(n, "tag", Branch(n, m))
    /\ Elected(n, m)
    /\ UNCHANGED chefServer

NoneTagged(n) ==
    /\ Masters = {}
    /\ Goto(n, "tag", "role")
    /\ UNCHANGED <<chefServer, key, offered, shared, disk, torn, faults>>

SearchRole(n, m) ==
    /\ ElectFirst(n, m)
    /\ Goto(n, "role", Branch(n, m))
    /\ Elected(n, m)

-----------------------------------------------------------------------------
(* The elected node                                                         *)

\* ssh-keygen, unless the private key's file exists: that file first ...
Make(n) ==
    /\ Goto(n, "make", IF disk[n]["private_key"] = None THEN "public" ELSE "save")
    /\ disk' = [disk EXCEPT ![n]["private_key"] = IF @ = None THEN n ELSE @]
    /\ UNCHANGED <<chefServer, key, offered, shared, torn, faults>>

\* ... then the public key's.
MakePublic(n) ==
    /\ Goto(n, "public", "save")
    /\ disk' = [disk EXCEPT ![n]["public_key"] = n]
    /\ UNCHANGED <<chefServer, key, offered, shared, torn, faults>>

HalfMade(n) ==
    /\ disk[n]["private_key"] # None
    /\ disk[n]["public_key"] = None
    /\ shared[n]["private_key"] = None

\* mutant: the node is not saved
SaveLost(n) ==
    /\ ~ HalfMade(n)
    /\ Goto(n, "save", "authorize")
    /\ UNCHANGED <<chefServer, key, offered, shared, disk, torn, faults>>

\* Both files are read and all attributes saved at once.
Save(n) ==
    /\ ~ HalfMade(n)
    /\ Goto(n, "save", "authorize")
    /\ shared' = [shared EXCEPT ![n] =
                   [k \in KeyNames |-> disk[n][IF k = "private_key" THEN k ELSE "public_key"]]]
    /\ UNCHANGED <<chefServer, key, offered, disk, torn, faults>>

\* File.read(public_key) raises: a former run was killed inside of ssh-keygen.
PublicMissing(n) ==
    /\ HalfMade(n)
    /\ Goto(n, "save", "off")
    /\ UNCHANGED <<chefServer, key, offered, shared, disk, torn, faults>>

\* The public key is added to the authorized ones, or is the first of them.
Authorize(n) ==
    /\ Goto(n, "authorize", "off")
    /\ disk' = [disk EXCEPT ![n]["authorized_key"] = shared[n]["authorized_key"]]
    /\ UNCHANGED <<chefServer, key, offered, shared, torn, faults>>

-----------------------------------------------------------------------------
(* The other nodes                                                          *)

NextKey(n, here, there) ==
    /\ spc[n] = here
    /\ key' = [key EXCEPT ![n] = IF @ < 3 THEN @ + 1 ELSE 1]
    /\ spc' = [spc EXCEPT ![n] = IF key[n] < 3 THEN here ELSE there]

Take(n) ==
    /\ NextKey(n, "take", "place")
    /\ LET k == Keys[key[n]]
       IN  shared' = [shared EXCEPT ![n][k] = offered[n][k]]
    /\ UNCHANGED <<chefServer, offered, disk, torn, faults>>

\* The file resources follow when the action of the provider is over.
Place(n) ==
    /\ NextKey(n, "place", "off")
    /\ LET k == Keys[key[n]]
       IN  disk' = [disk EXCEPT ![n][k] = IF shared[n][k] # None THEN shared[n][k] ELSE @]
    /\ UNCHANGED <<chefServer, offered, shared, torn, faults>>

\* The run is killed, ssh-keygen fails, or the chef server does not answer.
Fail(n) ==
    /\ spc[n] # "off"
    /\ faults < MaxFaults /\ faults' = faults + 1
    /\ spc' = [spc EXCEPT ![n] = "off"]
    /\ key' = [key EXCEPT ![n] = 1]
    /\ torn' = IF spc[n] \in {"authorize", "place"} \/ (spc[n] = "take" /\ key[n] > 1)
               THEN torn \union {n}
               ELSE torn
    /\ UNCHANGED <<chefServer, offered, shared, disk>>

-----------------------------------------------------------------------------
Step(n) ==
    \/ \E m \in Nodes : SearchTag(n, m) \/ SearchRole(n, m)
    \/ NoneTagged(n) \/ Make(n) \/ MakePublic(n) \/ Save(n) \/ PublicMissing(n)
    \/ Authorize(n) \/ Take(n) \/ Place(n)

ServerStep(n) ==
    /\ Register(n) \/ Reindex(n)
    /\ UNCHANGED <<spc, key, offered, shared, disk, torn, faults>>

Next == \E n \in Nodes : ServerStep(n) \/ Start(n) \/ Step(n) \/ Fail(n)

Spec == Init /\ [][Next]_svars

-----------------------------------------------------------------------------
(* Properties                                                               *)

\* What a node has saved is of one pair, and its files are what it has saved, on
\* every node that is not just writing them, even if searches have missed nodes and
\* two pairs were made: a node keeps the pair it has first taken over
\* (private_key.nil?).  It has all three keys unless a search missed nodes: then a
\* node may be elected that is itself taking a pair over, and the keys it has not
\* saved yet are missing for good on the next.  A run that is killed half way harms
\* the keys of its own node only (torn).
PairsMatch ==
    \A n \in Nodes \ torn :
        spc[n] \in {"off", "tag", "role"} /\ shared[n]["private_key"] # None =>
            /\ \E g \in Nodes : \A k \in KeyNames : shared[n][k] \in (IF missed THEN {g, None} ELSE {g})
            /\ \A k \in KeyNames : shared[n][k] # None => disk[n][k] = shared[n][k]

\* In the end the nodes have one pair in their files, all but those whose own run was
\* killed half way (torn): what such a node has saved the others still get.  One kill
\* stops all of them: that of the elected node inside of ssh-keygen, which leaves a
\* private key alone (HalfMade), and then each of its runs ends at line 13.
PairShared ==
    <>[](\/ missed
         \/ \E n \in tagged : HalfMade(n)
         \/ \E g \in Nodes : \A n \in Nodes \ torn : disk[n] = Pair(g))
=============================================================================
