------------------------------- MODULE Fabric -------------------------------
(***************************************************************************)
(* What Neutron promises of its objects wherever they are kept: an object  *)
(* is made once, after the objects it belongs to, changes, and goes for    *)
(* good, after all that belong to it.  One change may be of several        *)
(* objects.  An object of which a call was lost is Unknown from then on.   *)
(***************************************************************************)
CONSTANTS
    Ids,        \* objects; an id is used once
    Parents,    \* Parents[i]: the objects i belongs to
    Values,     \* what an object may look like
    Unknown

VARIABLE net

Whole(s) ==
    \A i \in Ids : s[i] \in Values =>
        \A j \in Parents[i] : s[j] \in Values \union {Unknown}

Evolves(x, y) ==
    \/ y = x \/ y = Unknown
    \/ x = "none" /\ y \in Values \union {"gone"}
    \/ x \in Values /\ y \in Values \union {"gone"}

FabricInit == net \in [Ids -> Values \union {"none"}] /\ Whole(net)

Change ==
    /\ \A i \in Ids : Evolves(net[i], net'[i])
    /\ Whole(net')

FabricSpec == FabricInit /\ [][Change]_net
=============================================================================
