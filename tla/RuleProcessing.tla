--------------------------- MODULE RuleProcessing ---------------------------
(***************************************************************************)
(* The decisions of pkg/controller that do not depend on its goroutines:   *)
(* the role of a node for an object, what a change of the object asks to   *)
(* be cleaned up, and, for each kind of job, the calls it makes for one    *)
(* rule.  A call is a sequence of commands; its error is logged, or, if it *)
(* is fatal, returned.                                                     *)
(***************************************************************************)
EXTENDS EgressDirector, EgressGateway

CONSTANTS
    NoNode,       \* the empty GatewayNode
    Host,         \* the node a pod runs on, or NoNode: the endpoint has no NodeName
    FullName      \* FullName[k]: the namespace and the name of k, as one text

Call(cmds, fatal) == [cmds |-> cmds, fatal |-> fatal]

\* The calls left after n commands of the first one.
Rest(calls, n) ==
    LET cmds == Head(calls).cmds
    IN  IF Len(cmds) <= n THEN Tail(calls)
        ELSE <<Call(SubSeq(cmds, n + 1, Len(cmds)), Head(calls).fatal)>> \o Tail(calls)

\* doGatewyProcessing's loop over the addresses: a tunnel and a route back to
\* every pod whose node could be looked up and is another node.  The links are
\* listed before the pods of this node are passed over.  The name of the node is
\* dereferenced before anything is looked up.
ReturnPaths(self, ips, lost) ==
    FlattenSeq([j \in 1..Len(ips) |->
        CASE Host[ips[j]] = NoNode -> <<Cmd("nodeName", None, ips[j], None)>>
          [] Host[ips[j]] # NoNode /\ ips[j] \in lost -> <<>>
          [] ips[j] \notin lost /\ Host[ips[j]] = self /\ Host[ips[j]] # NoNode ->
                 <<Cmd("linkPeek", None, None, None)>>
          [] OTHER ->
                 EnsureTunnel(Host[ips[j]]) \o
                 <<Cmd("routeList", None, ips[j], None),
                   Cmd("routeAdd", None, ips[j], Host[ips[j]])>>])

\* The set of rule i of object k: a hash of the two.
generateRuleId(k, i) == <<FullName[k], i>>

\* A call without a command is none.
doGatewyProcessing(self, s, r, ips, lost) ==
    LET paths == ReturnPaths(self, ips, lost)
    IN  (IF paths = <<>> THEN <<>> ELSE <<Call(paths, TRUE)>>) \o
        <<Call(AddStaticIptablesRule(s, ips, r.dst, r.eip), FALSE),
          Call(ConfigureStaticIP(r.eip), FALSE)>>

doDirectorProcessing(s, r, ips, gw) ==
    <<Call(AddRouteToGateway(s, ips, r.dst, gw), FALSE)>>

\* updateStaticEgressIP, for a node that was the gateway or becomes it.
ClearGateway(s, r) ==
    <<Call(ClearStaticIptablesRule(s, r.dst, r.eip), FALSE),
      Call(RemoveStaticIP(r.eip), FALSE)>>

\* Mutant: only the policy routing of a director is cleared.
ClearDirectorMark(s, r) ==
    <<Call(<<Cmd("unmark", s, r.dst, None)>> \o DeleteRoute(r.dst), FALSE),
      Call(RemoveStaticIP(r.eip), FALSE)>>

ClearDirector(s, r) ==
    <<Call(ClearStaleRouteToGateway(s, r.dst), FALSE),
      Call(RemoveStaticIP(r.eip), FALSE)>>

\* Mutant: a deletion clears like a change of role.
DeleteRuleClear(s, r) == <<Call(ClearStaleRouteToGateway(s, r.dst), FALSE)>>

\* deleteStaticEgressIP.
DeleteRule(s, r) == <<Call(DeleteRouteToGateway(s, r.dst), FALSE)>>

RuleCalls(self, job, ips, lost) ==
    LET r == job.obj.rules[job.rule]
        s == generateRuleId(job.key, job.rule)
    IN  CASE job.kind = "gateway" -> doGatewyProcessing(self, s, r, ips, lost)
          [] job.kind = "director" -> doDirectorProcessing(s, r, ips, job.obj.gw)
          [] job.kind = "demote" -> ClearGateway(s, r)
          [] job.kind = "promote" -> ClearDirector(s, r)
          [] job.kind = "delete" -> DeleteRule(s, r)
          [] OTHER -> <<>>

\* Mutant: an object without a gateway is synced.
SyncKindUnassigned(self, o) == IF o.gw = self THEN "gateway" ELSE "director"

\* syncHandler has nothing to do for an object that is gone or has no gateway.
SyncKind(self, o) == CASE o.gw = NoNode -> "none"
                       [] o.gw = self -> "gateway"
                       [] OTHER -> "director"

RoleChange(self, old, new) ==
    CASE old.gw = self -> "demote"
      [] new.gw = self -> "promote"
      [] OTHER -> "other"

\* The cleanup that addStaticEgressIP, updateStaticEgressIP and
\* deleteStaticEgressIP do before they enqueue the object.
Cleanup(self, old, new) ==
    CASE ~new.present -> "delete"
      [] /\ old.present /\ new.present
         /\ old.gw # NoNode /\ new.gw # NoNode /\ old.gw # new.gw ->
             RoleChange(self, old, new)
      [] OTHER -> "none"
=============================================================================
