----------------------------- MODULE NodeKernel -----------------------------
(***************************************************************************)
(* The part of a node's network configuration that the controller writes   *)
(* with ipset, iptables and ip: what it consists of, what one command does *)
(* to it, when a command fails, and when a check makes the code pass over  *)
(* the command after it.  The kernel is external; the commands are the     *)
(* ones pkg/director, pkg/gateway and pkg/controller run.                  *)
(*                                                                         *)
(* A set is named by the object and the number of the rule it is for       *)
(* (generateRuleId); a tunnel is named by the node it leads to.            *)
(***************************************************************************)
EXTENDS Naturals, Sequences, SequencesExt

CONSTANTS
    None,         \* an argument a command does not have
    Shown,        \* <<d, e>>: the text d occurs in the line of the route to e
    AddrShown,    \* <<d, e>>: the address of the CIDR d occurs in that line
    TunnelShown,  \* <<n, m>>: the name of the tunnel to n occurs in that to m
    Lo,           \* the loopback interface
    Uplink,       \* the interface an address is routed over
    Subnet        \* <<i, ip>>: ip is in the network of an address of interface i

\* Nothing configured, as after the Setup of director and gateway.
EmptyKernel ==
    [sets    |-> {},      \* the ipsets
     member  |-> {},      \* <<set, pod>>
     mark    |-> {},      \* mangle PREROUTING: <<set, destination>>
     bypass  |-> {},      \* STATIC-EGRESS-BYPASS-CNI: <<set, destination>>
     forward |-> {},      \* the chain of filter FORWARD: <<set, destination>>
     snat    |-> <<>>,    \* the NAT chain, in order: <<set, destination, IP>>
     retmark |-> {},      \* mangle PREROUTING: <<source, egress IP>>
     tunnel  |-> {},      \* GRE interfaces, by remote node
     up      |-> {},      \* the ones that are up
     route   |-> {},      \* table kube-static-egress-ip: <<destination, tunnel>>
     addr    |-> {}]      \* egress IPs configured on an interface

\* A command: its kind, the set it names, a destination and a target.
Cmd(op, s, d, t) == [op |-> op, set |-> s, dst |-> d, to |-> t]

\* The chains of matching rules that a command adds to or removes from.
AddTo == [mark |-> "mark", bypass |-> "bypass", forward |-> "forward"]
RemoveFrom == [unmark |-> "mark", unbypass |-> "bypass", unforward |-> "forward"]

Referenced(K, s) ==
    \E r \in K.mark \union K.bypass \union K.forward \union ToSet(K.snat) : r[1] = s

\* The route command's output contains the destination.
RouteShown(K, d) == \E r \in K.route : <<d, r[1]>> \in Shown

RouteOrAddrShown(K, d) ==
    RouteShown(K, d) \/ \E r \in K.route : <<d, r[1]>> \in AddrShown

\* netlink.RouteGet: an address of the node itself is routed over lo.
RouteGet(K, ip) == IF ip \in K.addr THEN Lo ELSE Uplink[ip]

\* The interfaces getInterfaceForNetwork may return: the one the address is
\* routed over, if one of its addresses is in the same network.
getInterfaceForNetwork(K, ip) == {i \in {RouteGet(K, ip)} : <<i, ip>> \in Subnet}

\* Commands whose match names a set fail if the set does not exist; a set in
\* use is not destroyed; a route that leads into a tunnel is not found by a
\* next hop; an address is added once and removed where it is.
Fails(K, c) ==
    \/ /\ c.op \in {"flush", "add", "snatList", "snat", "unsnat"}
             \union DOMAIN AddTo \union DOMAIN RemoveFrom
       /\ c.set \notin K.sets
    \/ c.op = "unsnat" /\ <<c.set, c.dst, c.to>> \notin ToSet(K.snat)
    \/ c.op = "destroy" /\ (c.set \notin K.sets \/ Referenced(K, c.set))
    \/ c.op = "tunnelAdd" /\ c.to \in K.tunnel
    \/ c.op = "linkUp" /\ c.to \notin K.tunnel
    \/ c.op = "routeAdd" /\ (c.to \notin K.up \/ \E r \in K.route : r[1] = c.dst)
    \/ c.op = "routeDeleteVia"
    \/ c.op \in {"addrAdd", "addrDel"} /\ getInterfaceForNetwork(K, c.to) = {}
    \/ c.op = "addrAdd" /\ c.to \in K.addr
    \/ c.op = "addrDel" /\ c.to \notin K.addr

\* The checks that make the code skip the next command.
Skips(K, c) ==
    \/ c.op = "linkList" /\ \E n \in K.tunnel : <<c.to, n>> \in TunnelShown
    \/ c.op = "routeListAddr" /\ RouteOrAddrShown(K, c.dst)
    \/ c.op = "routeList" /\ RouteShown(K, c.dst)
    \/ c.op = "snatList" /\ <<c.set, c.dst, c.to>> \in ToSet(K.snat)

\* Mutant: the rule is added at the end of the chain.
InsertLast(chain, r) == Append(chain, r)

\* iptables -I at position 1.
Insert(chain, r) == <<r>> \o chain

\* iptables -D: the first rule that is like r.
deleteRule(chain, r) == RemoveFirst(chain, r)

\* What a command that does not fail does.  Of a rule whose place does not
\* matter, the check with iptables -C and the addition are one command: only one
\* worker adds rules for a set (OneSyncPerKey of EgressController), and a second
\* copy of a return mark, which names no set, does what the first does.
Effect(K, c) ==
    CASE c.op = "create" -> [K EXCEPT !.sets = @ \union {c.set}]
      [] c.op = "flush" -> [K EXCEPT !.member = {p \in @ : p[1] # c.set}]
      [] c.op = "add" -> [K EXCEPT !.member = @ \union {<<c.set, c.to>>}]
      [] c.op = "destroy" ->
             [K EXCEPT !.sets = @ \ {c.set}, !.member = {p \in @ : p[1] # c.set}]
      [] c.op \in DOMAIN AddTo ->
             [K EXCEPT ![AddTo[c.op]] = @ \union {<<c.set, c.dst>>}]
      [] c.op \in DOMAIN RemoveFrom ->
             [K EXCEPT ![RemoveFrom[c.op]] = @ \ {<<c.set, c.dst>>}]
      [] c.op = "snat" -> [K EXCEPT !.snat = Insert(@, <<c.set, c.dst, c.to>>)]
      [] c.op = "unsnat" -> [K EXCEPT !.snat = deleteRule(@, <<c.set, c.dst, c.to>>)]
      [] c.op = "retmark" -> [K EXCEPT !.retmark = @ \union {<<c.dst, c.to>>}]
      [] c.op = "tunnelAdd" -> [K EXCEPT !.tunnel = @ \union {c.to}]
      [] c.op = "linkUp" -> [K EXCEPT !.up = @ \union {c.to}]
      [] c.op = "routeAdd" -> [K EXCEPT !.route = @ \union {<<c.dst, c.to>>}]
      [] c.op = "addrAdd" -> [K EXCEPT !.addr = @ \union {c.to}]
      [] c.op = "addrDel" -> [K EXCEPT !.addr = @ \ {c.to}]
      [] OTHER -> K

\* ipset.New, which may find the set there and always empties it.
NewSet(s) == <<Cmd("create", s, None, None), Cmd("flush", s, None, None)>>

\* ipset.New, then one Add for each address.
FillSet(s, ips) ==
    NewSet(s) \o [i \in 1..Len(ips) |-> Cmd("add", s, None, ips[i])]

\* Mutant: what iptables -C says is not looked at.
insertRuleBlindly(s, d, ip) ==
    <<Cmd("snatLook", s, d, ip), Cmd("snat", s, d, ip)>>

\* insertRule of pkg/gateway: iptables -C, and -I unless the rule is there.
insertRule(s, d, ip) == <<Cmd("snatList", s, d, ip), Cmd("snat", s, d, ip)>>

\* Mutant: the tunnel is created without looking for it.
EnsureTunnelAgain(node) ==
    <<Cmd("tunnelAdd", None, None, node), Cmd("linkUp", None, None, node)>>

\* Create the tunnel unless it is listed, and bring it up.
EnsureTunnel(node) ==
    <<Cmd("linkList", None, None, node), Cmd("tunnelAdd", None, None, node),
      Cmd("linkUp", None, None, node)>>
=============================================================================
