-------------------------- MODULE GatewayAssignment --------------------------
(***************************************************************************)
(* What the gateway manager promises to users and controllers: one object  *)
(* of each name, whose spec only users write and whose two status fields   *)
(* are written together, in one step and on top of the current object, and *)
(* only where there is no gateway or the gateway has been failing.         *)
(* GatewayManager implements it with replicas, caches and stale copies.    *)
(***************************************************************************)
EXTENDS Naturals

CONSTANTS CR, Node, NodeIP, NoNode, NoIP

VARIABLES
    object,     \* object[c], with its spec and its status
    suspect     \* the gateway of c has not been ready all the time

vars == <<object, suspect>>

Absent == [present |-> FALSE, spec |-> 0, gw |-> NoNode, ip |-> NoIP]

Init ==
    /\ object = [c \in CR |-> Absent]
    /\ suspect = [c \in CR |-> FALSE]

\* Only c changes; whether it is suspect from now on is left open.
Only(c, o) ==
    /\ object' = [object EXCEPT ![c] = o]
    /\ suspect' = [suspect EXCEPT ![c] = suspect'[c]]

Create(c) ==
    /\ ~object[c].present
    /\ Only(c, [present |-> TRUE, spec |-> object'[c].spec, gw |-> NoNode, ip |-> NoIP])

Edit(c) ==
    /\ object[c].present
    /\ object'[c].spec > object[c].spec
    /\ Only(c, [object[c] EXCEPT !.spec = object'[c].spec])
    /\ suspect'[c] = suspect[c]

Delete(c) == object[c].present /\ Only(c, Absent)

\* Nodes fail; an object without a gateway has none that could.
Doubt ==
    /\ \A c \in CR : \/ suspect'[c] = suspect[c]
                     \/ suspect'[c] /\ object[c].gw # NoNode
    /\ UNCHANGED object

\* Assignment and failover.
Assign(c, n) ==
    /\ object[c].present
    /\ object[c].gw = NoNode \/ (suspect[c] /\ object[c].gw # n)
    /\ NodeIP[n] # NoIP
    /\ Only(c, [object[c] EXCEPT !.gw = n, !.ip = NodeIP[n]])

Next ==
    \/ Doubt
    \/ \E c \in CR : Create(c) \/ Edit(c) \/ Delete(c)
    \/ \E c \in CR, n \in Node : Assign(c, n)

Spec == Init /\ [][Next]_vars
=============================================================================
