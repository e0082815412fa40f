----------------------------- MODULE Controllers ----------------------------
(***************************************************************************)
(* The controllers of an OpenStack cloud, whose chef-client runs go        *)
(* through three recipes that elect a node: keystone's (PkiKeys),          *)
(* keepalived's and the one for ssh keys.  The elections have a tag each   *)
(* and nothing else in common, so that a behaviour follows one of them,    *)
(* the recipe.                                                             *)
(***************************************************************************)
EXTENDS PkiKeys

VARIABLES
    recipe,
    kpc, saved, carrying, state, seen, todo, master, conf,      \* Keepalived's
    spc, key, offered, shared, disk, torn            \* SshKeys'

KA == INSTANCE Keepalived
SK == INSTANCE SshKeys

pkiOnly == <<run, files, published, interrupted>>
keepalivedOnly == <<kpc, saved, carrying, state, seen, todo, master, conf>>
sshOnly == <<spc, key, offered, shared, disk, torn>>
controllers == <<vars, keepalivedOnly, sshOnly, recipe>>

ControllersInit ==
    /\ recipe \in {"keystone", "keepalived", "ssh"}
    /\ Init /\ KA!KInit /\ SK!SInit

Keystone(A) == recipe = "keystone" /\ A /\ UNCHANGED <<keepalivedOnly, sshOnly, recipe>>
KeepalivedOf(A) == recipe = "keepalived" /\ A /\ UNCHANGED <<pkiOnly, sshOnly, recipe>>
SshOf(A) == recipe = "ssh" /\ A /\ UNCHANGED <<pkiOnly, keepalivedOnly, recipe>>

ControllersNext == Keystone(Next) \/ KeepalivedOf(KA!Next) \/ SshOf(SK!Next)

\* Compass registers every node, the index catches up, cron starts chef-client
\* again on every node, and a run goes on.
ControllersSpec ==
    /\ ControllersInit /\ [][ControllersNext]_controllers
    /\ \A n \in Nodes :
          /\ WF_controllers(Keystone(ServerStep(n)))
          /\ WF_controllers(Keystone(Start(n)))
          /\ WF_controllers(Keystone(Step(n)))
          /\ WF_controllers(SshOf(SK!ServerStep(n)))
          /\ WF_controllers(SshOf(SK!Start(n)))
          /\ WF_controllers(SshOf(SK!Step(n)))

-----------------------------------------------------------------------------
(* Properties: those of the three modules                                   *)

\* The types of the state in keystone's, in keepalived's and in ssh's recipe.
ControllersTypeOK == TypeOK /\ KA!KeepalivedTypeOK /\ SK!SshTypeOK

\* At most one keepalived starts as the master.
OneMaster == KA!OneMaster

\* Some node stays tagged for keepalived.
StillTagged == KA!StillTagged

\* The key pair of a node is one pair.
PairsMatch == SK!PairsMatch

\* In the end keystone's nodes have the keys of one node.
KeysShared == recipe = "keystone" => EventuallyShared

\* In the end the nodes have the key pair of one node.
PairShared == recipe = "ssh" => SK!PairShared
=============================================================================
