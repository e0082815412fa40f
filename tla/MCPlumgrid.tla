----------------------------- MODULE MCPlumgrid -----------------------------
(* Instances of Plumgrid for TLC: a few kinds of objects at a time.         *)
EXTENDS Plumgrid, TLC

CONSTANTS net, sub, port, fip, rtr, face, grp, dflt, rule

MCKind ==
    net :> "network" @@ sub :> "subnet" @@ port :> "port" @@ fip :> "floatingip"
    @@ rtr :> "router" @@ face :> "interface"
    @@ grp :> "group" @@ dflt :> "default" @@ rule :> "rule"

\* The port is one of a network that stays.
MCParents ==
    net :> {} @@ sub :> {net} @@ port :> {} @@ fip :> {}
    @@ rtr :> {} @@ face :> {rtr} @@ grp :> {} @@ dflt :> {} @@ rule :> {grp}

Layout(made, fresh0) == [made |-> made, fresh |-> fresh0]

MCLayouts ==
    {Layout({}, {net, dflt}), Layout({net}, {sub}),
     Layout({}, {port, dflt}), Layout({port}, {fip}), Layout({}, {grp, dflt}),
     Layout({dflt}, {grp, rule}), Layout({}, {rtr, face})}

MCCidrs == {<<8, 8>>, <<8, 9>>, <<8, 11>>, <<8, 15>>}

Symmetry == Permutations(Requests) \union Permutations(Versions)
=============================================================================
