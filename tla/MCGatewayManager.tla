-------------------------- MODULE MCGatewayManager --------------------------
(***************************************************************************)
(* Small instances of GatewayManager for TLC.  Nodes are numbers, so that  *)
(* a node's place in the list is its number.                               *)
(***************************************************************************)
EXTENDS GatewayManager, TLC

CONSTANTS a1, a2, a3    \* addresses

\* The replicas are interchangeable.
MCManagerSymmetry == Permutations(Manager)

MCListPos == [n \in Node |-> n]

\* Every node has an address.
MCNodeIP == [n \in Node |-> <<a1, a2, a3>>[n]]

\* The first node has no address of either kind.
MCNodeIPMissing == [n \in Node |-> <<NoIP, a2, a3>>[n]]
=============================================================================
