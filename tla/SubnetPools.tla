----------------------------- MODULE SubnetPools ----------------------------
(***************************************************************************)
(* The gateway and the allocation pools that the PLUMgrid plugin gives a   *)
(* subnet whose request names none (create_subnet and                      *)
(* _allocate_pools_for_subnet).  Addresses are integers.                   *)
(***************************************************************************)
EXTENDS Integers

CONSTANTS
    Unspecified,    \* a request without a gateway
    NoGateway       \* a request for a subnet that has none

ASSUME GatewayAssumption ==
    Unspecified \notin Int /\ NoGateway \notin Int /\ Unspecified # NoGateway

Least(a, b) == IF a < b THEN a ELSE b
Most(a, b) == IF a > b THEN a ELSE b

\* "PLUMgrid Director reserves the last IP address for GW when is not defined"
Gateway(last, asked) == IF asked = Unspecified THEN last - 1 ELSE asked

\* The address behind the network's own serves DHCP, or the one behind the
\* gateway if that is where the gateway is.
DhcpMoves(first, gateway) == gateway = first + 1

FirstIp(first, gateway) == IF DhcpMoves(first, gateway) THEN first + 3 ELSE first + 2

\* mutant: the boundary is not moved with the first address
BoundaryStays(first, last, gateway) == IF gateway = NoGateway THEN last ELSE gateway

Boundary(first, last, gateway) ==
    IF DhcpMoves(first, gateway) THEN first + 2
    ELSE IF gateway = NoGateway THEN last ELSE gateway

Split(first, last, gateway) == Least(Most(Boundary(first, last, gateway), first), last)

\* The pool before the split and the one behind it, either of them perhaps empty.
Pools(first, last, gateway) ==
    LET split == Split(first, last, gateway)
        low == FirstIp(first, gateway)
    IN  [before |-> IF split > low THEN low .. (split - 1) ELSE {},
         behind |-> IF split < last - 1 THEN (split + 1) .. (last - 1) ELSE {}]

\* A subnet as it is handed to Neutron.
Subnet(first, last, asked) ==
    LET gateway == Gateway(last, asked)
    IN  [first |-> first, last |-> last, gateway |-> gateway,
         pools |-> Pools(first, last, gateway)]

-----------------------------------------------------------------------------
\* What is left of a network when its own address, the address of DHCP, the gateway
\* and the broadcast address are taken away.
Dhcp(s) == IF s.gateway = s.first + 1 THEN s.first + 2 ELSE s.first + 1

Spare(s) == ((s.first + 1) .. (s.last - 1)) \ {s.gateway, Dhcp(s)}

\* A gateway inside of the network, or none.
GatewayInside(s) == s.gateway = NoGateway \/ s.gateway \in (s.first + 1) .. s.last

\* The pools of such a subnet are apart and hold what is left, nothing more and
\* nothing less, also for networks with no room for any (_allocate_pools_for_subnet).
Sound(s) ==
    GatewayInside(s) =>
        /\ s.pools.before \intersect s.pools.behind = {}
        /\ s.pools.before \union s.pools.behind = Spare(s)
=============================================================================
