------------------------- MODULE MCEgressController -------------------------
(***************************************************************************)
(* Small instances of EgressController for TLC.                            *)
(***************************************************************************)
EXTENDS EgressController, Naming, TLC

CONSTANTS here, east, west, p1, p2, s1, net1, eip1, eip2, eth0

MCWorkerSymmetry == Permutations(Worker)

MCTwoNodes == {here, east}
MCNode == {here, east, west}

MCRule(e) == [svc |-> s1, dst |-> net1, eip |-> e]

\* One rule, with one egress IP.
MCOneSpec == {<<MCRule(eip1)>>}

\* One pod, on another node.
MCHost == [p \in Pod |-> east]
MCEndpoints == {<<p1>>}

\* The pod is replaced by an endpoint without a node, and the other way round.
MCEndpointsReplaced == {<<p1>>, <<p2>>}
MCHostless == [p \in Pod |-> IF p = p1 THEN east ELSE NoNode]

\* Texts and names that occur only in themselves.
MCShown == {<<d, d>> : d \in Pod \union {net1}}
MCTunnelShown == {<<n, n>> : n \in MCNode}

MCFullName == [k \in Key |-> k]

\* Addresses of which one occurs in the text of another.
MCNodeAddress == [n \in MCNode |-> CASE n = here -> <<10, 0, 0, 2>>
                                      [] n = east -> <<10, 0, 0, 11>>
                                      [] n = west -> <<10, 0, 0, 1>>]
MCPodAddress == [p \in {p1, p2} |-> IF p = p1 THEN <<10, 9, 0, 10>> ELSE <<10, 9, 0, 1>>]

MCNamedTunnels ==
    {<<n, m>> \in MCNode \X MCNode :
        Occurs(tunnelName(MCNodeAddress[n]), tunnelName(MCNodeAddress[m]))}

MCNamedRoutes ==
    {<<net1, net1>>} \union
    {<<p, q>> \in Pod \X Pod : Occurs(IPString(MCPodAddress[p]), IPString(MCPodAddress[q]))}

MCTwoPods == {<<p1, p2>>}

\* Both egress IPs are in the network of one interface.
MCUplink == [e \in {eip1, eip2} |-> eth0]
MCSubnet == {<<eth0, eip1>>, <<eth0, eip2>>}
=============================================================================
