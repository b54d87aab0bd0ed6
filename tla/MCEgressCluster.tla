-------------------------- MODULE MCEgressCluster --------------------------
(***************************************************************************)
(* Small instances of EgressCluster for TLC.                               *)
(***************************************************************************)
EXTENDS EgressCluster, Naming, TLC

CONSTANTS east, west, north, p1, p2, s1, s2, net1, net2, eip1, eip2, eth0

\* One pod on a node that may become the gateway.
MCHost == [p \in {p1} |-> east]
MCPods == [s \in {s1} |-> <<p1>>]

\* Two services, their pods on a node that is not the gateway.
MCHostNorth == [p \in {p1, p2} |-> north]
MCPodsNorth == [s \in {s1, s2} |-> IF s = s1 THEN <<p1>> ELSE <<p2>>]

MCNodeIP == [n \in Node |-> n]

Rule(s, d, e) == [svc |-> s, dst |-> d, eip |-> e]

\* A spec that is never edited; a new egress IP; there and back again; a new
\* destination; one object for each of two services.
MCPlain == <<<<Rule(s1, net1, eip1)>>>>
MCNewIP == <<<<Rule(s1, net1, eip1)>>, <<Rule(s1, net1, eip2)>>>>
MCBackAgain == MCNewIP \o MCPlain
MCNewCidr == <<<<Rule(s1, net1, eip1)>>, <<Rule(s1, net2, eip1)>>>>
MCTwoServices == <<<<Rule(s1, net1, eip1)>>, <<Rule(s2, net1, eip2)>>>>

\* Every object has a name of its own; or the namespaces and names a/b-c and
\* a-b/c, say, of which generateRuleId makes the same text.
MCFullName == [k \in Key |-> k]
MCJoinedName == [k \in Key |-> IF k = CHOOSE j \in Key : TRUE
                              THEN fullName(<<1>>, <<2, 3>>) ELSE fullName(<<1, 2>>, <<3>>)]

\* Texts and names that occur only in themselves.
MCShown == {<<d, d>> : d \in {p1, p2, net1, net2}}
MCTunnelShown == {<<n, n>> : n \in Node}

\* The hypotheses of the theorems of EgressClusterProofs hold in the instances,
\* except that one of them is there to make two names one.
ASSUME Texts == TextsApart
ASSUME Names == NamesApart \/ FullName = MCJoinedName

MCUplink == [e \in {eip1, eip2} |-> eth0]
MCSubnet == {<<eth0, eip1>>, <<eth0, eip2>>}

\* A new cluster; one with objects that have a gateway; any of the two, or with
\* objects that wait for one; an object for each service, with one gateway or
\* with a gateway for each.
Assigned(v, n) == [present |-> TRUE, spec |-> v, gw |-> n, ip |-> NodeIP[n]]

MCNothing == {[k \in Key |-> Assignment!Absent]}
MCInUse == {[k \in Key |-> Assigned(1, n)] : n \in Node}
MCAnyUse == MCNothing \union MCInUse \union
                {[k \in Key |-> [present |-> TRUE, spec |-> 1, gw |-> NoNode, ip |-> NoIP]]}
MCOneGateway == {o \in [Key -> {Assigned(1, east), Assigned(2, east)}] :
                      {o[k].spec : k \in Key} = {1, 2}}
MCTwoGateways == {o \in [Key -> {Assigned(1, east), Assigned(2, west)}] :
                      {o[k].gw : k \in Key} = {east, west}}

(***************************************************************************)
(* Nodes take turns.  A step of a node depends on the log and on the node  *)
(* alone, and is possible with a longer log too.  So from every behaviour  *)
(* that ends with all nodes at rest another one to the same state is made  *)
(* by taking the steps of the API server first and then those of one node  *)
(* after the other; and every behaviour of a single node is there as well. *)
(***************************************************************************)
Turn == SelectSeq(<<east, west, north>>, LAMBDA n : n \in Node)

Local(n) == <<cache[n], at[n], notify[n], handler[n], pending[n], sync[n], K[n]>>

Fresh(n) == Local(n) = <<[k \in Key |-> Assignment!Absent], [k \in Key |-> 1], <<>>, Idle,
                         {}, [k \in Key |-> <<>>], EmptyKernel>>

\* Those before n are at rest, those after it have done nothing.
TurnOf(n) ==
    \A i, j \in 1..Len(Turn) :
        Turn[i] = n => /\ j < i => Rests(Turn[j])
                       /\ j > i => Fresh(Turn[j])

TurnNext ==
    \/ (\A n \in Node : Fresh(n)) /\ ApiServer
    \/ \E n \in Node : TurnOf(n) /\ Controller(n)
    \/ \E n \in Node : TurnOf(n) /\ (Restart(n) \/ Reboot(n))

TurnSpec == Init /\ [][TurnNext]_vars
=============================================================================
