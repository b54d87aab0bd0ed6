------------------------------ MODULE DataPlane ------------------------------
(***************************************************************************)
(* What the nodes do with a packet of pod p to destination d, given their  *)
(* network configurations: nodes is a function from nodes to kernels.  The *)
(* Linux network stack is external; the tables and chains are the ones the *)
(* controller fills, in the order in which Setup puts them (invariant      *)
(* SetUpWhenServing of NodeSetup).                                         *)
(***************************************************************************)
EXTENDS RuleProcessing

CONSTANTS
    Node,
    Dropped    \* the packet does not leave the cluster

\* The packet of p to d matches a rule <<set, destination>>.
Matches(K, p, d, rule) == rule[2] = d /\ <<rule[1], p>> \in K.member

\* mangle PREROUTING marks the packet.
Caught(K, p, d) == \E r \in K.mark : Matches(K, p, d, r)

\* Where the packet goes from node n: a marked packet into a tunnel that is up,
\* if the table kube-static-egress-ip has a route, and else out of the cluster,
\* which is n itself here.
Hops(nodes, n, p, d) ==
    {r[2] : r \in {q \in nodes[n].route : /\ Caught(nodes[n], p, d)
                                          /\ q[1] = d /\ q[2] \in nodes[n].up}}

Hop(nodes, n, p, d) ==
    LET H == Hops(nodes, n, p, d)
    IN  IF H = {} THEN n ELSE CHOOSE m \in H : TRUE

\* The nodes a packet comes to; after as many hops as there are nodes it has
\* left the cluster or goes round in a circle.
Visits(nodes, p, d, hops) ==
    LET next == [n \in Node |-> Hop(nodes, n, p, d)]
        at[i \in 0..hops] == IF i = 0 THEN Host[p] ELSE next[at[i - 1]]
    IN  at

\* FORWARD drops what comes from another node unless it is accepted.
Accepts(nodes, n, p, d) ==
    n = Host[p] \/ \E r \in nodes[n].forward : Matches(nodes[n], p, d, r)

\* nat POSTROUTING: the bypass, then the first SNAT rule that matches, then the
\* CNI's masquerade.
SourceAt(K, n, p, d) ==
    LET snat == {i \in 1..Len(K.snat) : Matches(K, p, d, K.snat[i])}
    IN  CASE \E r \in K.bypass : Matches(K, p, d, r) -> p
          [] /\ \A r \in K.bypass : ~Matches(K, p, d, r)
             /\ snat # {} -> K.snat[Min(snat)][3]
          [] OTHER -> n

\* The source address with which the packet leaves the cluster.
EgressSource(nodes, hops, p, d) ==
    LET visits == Visits(nodes, p, d, hops)
        x == visits[hops]
    IN  IF /\ Hop(nodes, x, p, d) = x
           /\ \A i \in 0..hops : Accepts(nodes, visits[i], p, d)
        THEN SourceAt(nodes[x], x, p, d)
        ELSE Dropped
=============================================================================
