---------------------------- MODULE EgressCluster ----------------------------
(***************************************************************************)
(* The whole system: users and the gateway manager, as GatewayAssignment   *)
(* specifies them (GatewayManager implements it), and a controller on      *)
(* every node, with the network configuration it writes.                   *)
(*                                                                         *)
(* On each node the handler and the syncs of different objects run command *)
(* by command beside each other.  There is one sync of an object at a time *)
(* (OneSyncPerKey of EgressController) and a worker for each object.  Each *)
(* controller is set up, endpoints stay, and a command fails only by what  *)
(* is configured: the rest is the subject of EgressController.             *)
(***************************************************************************)
EXTENDS DataPlane, FiniteSets

CONSTANTS
    Key,          \* StaticEgressIP objects
    NodeIP, NoIP, \* the address of a node, or that it has none
    Written,      \* Written[v]: the rules in version v of a spec
    Pods,         \* the endpoints of a service: a sequence of pods
    Initial,      \* what may be in the API server when the controllers start
    MaxChanges,   \* bound on what users and the gateway manager do
    MaxFaults     \* bound on restarts of controllers and nodes

\* The rules of all specs.
AllRules == UNION {ToSet(Written[v]) : v \in DOMAIN Written}

ASSUME ClusterBoundAssumption == MaxChanges \in Nat /\ MaxFaults \in Nat
ASSUME ClusterKeyAssumption == None \notin Key
ASSUME ClusterNodeAssumption == IsFiniteSet(Node) /\ NoNode \notin Node
ASSUME WrittenAssumption ==
    /\ \A v \in DOMAIN Written : Written[v] \in Seq(AllRules)
    /\ \A r \in AllRules : r.svc \in DOMAIN Pods
ASSUME PodsAssumption ==
    /\ Host \in [DOMAIN Host -> Node]
    /\ \A s \in DOMAIN Pods : Pods[s] \in Seq(DOMAIN Host)
\* The address of a pod is nobody else's.
ASSUME AddressAssumption ==
    \A p \in DOMAIN Host : p \notin Node \union {Dropped} \union {r.eip : r \in AllRules}

\* The handler goroutine waits.
Idle == [key |-> None, kind |-> "none", calls |-> <<>>]

\* What a node may have done for an object last.
Roles == {"none", "cleared", "gateway", "director", "mixed", "raced"}

VARIABLES
    object,    \* object[k] in the API server
    suspect,   \* its gateway has not been ready all the time
    log,       \* log[k]: what object[k] has been so far, the last is what it is
    cache,     \* cache[n][k]: the informer of the controller on n
    at,        \* at[n][k]: how far in the log it has come
    notify,    \* notify[n]: the notifications its handler has not taken yet
    handler,   \* handler[n]: the key, the kind of job and the calls left, or Idle
    pending,   \* pending[n]: the keys in the work queue on n
    sync,      \* sync[n][k]: the calls left of the sync of k on n
    K,         \* K[n]: the network configuration of n
    role,      \* history: as what n has configured k, or that it has cleaned up
    changes,
    faults

api == <<object, suspect, log>>
informer == <<cache, at>>
controller == <<cache, at, notify, handler, pending, sync>>
vars == <<object, suspect, log, cache, at, notify, handler, pending, sync, K, role,
          changes, faults>>

Assignment == INSTANCE GatewayAssignment WITH CR <- Key

Change == changes < MaxChanges /\ changes' = changes + 1 /\ UNCHANGED faults

Fault == faults < MaxFaults /\ faults' = faults + 1 /\ UNCHANGED changes

\* What a controller reads of an object.
View(o) == [present |-> o.present, gw |-> o.gw,
            rules |-> IF o.present THEN Written[o.spec] ELSE <<>>]

Objects == {Assignment!Absent} \union
    {[present |-> TRUE, spec |-> v, gw |-> n, ip |-> IF n = NoNode THEN NoIP ELSE NodeIP[n]] :
        v \in DOMAIN Written, n \in Node \union {NoNode}}

ASSUME InitialAssumption == Initial \subseteq [Key -> Objects]

IPs(o) == {r.eip : r \in ToSet(View(o).rules)}

\* Texts that occur only in themselves: no address, destination or tunnel name
\* is a part of another, so that what strings.Contains finds is what is meant.
TextsApart ==
    /\ \A x \in Shown \union AddrShown \union TunnelShown : x[1] = x[2]
    /\ \A n \in Node : <<n, n>> \in TunnelShown
    /\ \A p \in DOMAIN Host : <<p, p>> \in Shown

\* No two objects are one text to generateRuleId.
NamesApart == \A j, k \in Key : FullName[j] = FullName[k] => j = k

(***************************************************************************)
(* Jobs.                                                                   *)
(***************************************************************************)
\* The calls of all rules of object o of key k, on node n.
JobCalls(n, kind, k, o) ==
    FlattenSeq([i \in 1..Len(o.rules) |->
        RuleCalls(n, [kind |-> kind, key |-> k, obj |-> o, rule |-> i],
                  Pods[o.rules[i].svc], {})])

\* The next command of a job, what it does, what is left then, and whether its
\* failure ends the sync with an error.
Ahead(calls) == Head(Head(calls).cmds)

After(kernel, c) == IF Fails(kernel, c) THEN kernel ELSE Effect(kernel, c)

Breaks(kernel, calls) == Fails(kernel, Ahead(calls)) /\ Head(calls).fatal

Left(kernel, calls) ==
    CASE Breaks(kernel, calls) -> <<>>
      [] Fails(kernel, Ahead(calls)) /\ ~Head(calls).fatal -> Tail(calls)
      [] OTHER -> Rest(calls, IF Skips(kernel, Ahead(calls)) THEN 2 ELSE 1)

(***************************************************************************)
(* The API server.                                                         *)
(***************************************************************************)
Put(k, o, s) ==
    /\ object' = [object EXCEPT ![k] = o]
    /\ suspect' = [suspect EXCEPT ![k] = s]
    /\ log' = [log EXCEPT ![k] = IF o = object[k] THEN @ ELSE Append(@, o)]
    /\ UNCHANGED <<controller, K, role>>

\* A user creates, edits or deletes an object.
UserChanges(k, o) ==
    /\ Change
    /\ Put(k, o, suspect[k] /\ o.present)
    /\ Assignment!Create(k) \/ Assignment!Edit(k) \/ Assignment!Delete(k)

\* The manager assigns a gateway.
ManagerAssigns(k, n) ==
    /\ Change
    /\ object[k].present
    /\ Put(k, [object[k] EXCEPT !.gw = n, !.ip = NodeIP[n]], FALSE)
    /\ Assignment!Assign(k, n)

\* The gateway of k fails for a while.
GatewayFails(k) ==
    /\ Put(k, object[k], TRUE)
    /\ Assignment!Doubt
    /\ UNCHANGED <<changes, faults>>

(***************************************************************************)
(* The controller on node n.                                               *)
(***************************************************************************)
\* The informer follows the log, at its own pace and perhaps not in every step,
\* and notifies the handler.
Observe(n, k) ==
    /\ \E i \in at[n][k]..Len(log[k]) :
           /\ log[k][i] # cache[n][k]
           /\ at' = [at EXCEPT ![n][k] = i]
           /\ cache' = [cache EXCEPT ![n][k] = log[k][i]]
           /\ notify' = [notify EXCEPT ![n] =
                  Append(@, [key |-> k, old |-> cache[n][k], new |-> log[k][i]])]
    /\ UNCHANGED <<api, handler, pending, sync, K, role, changes, faults>>

\* The handler of a resync, which finds no change, only enqueues.
Resync(n, k) ==
    /\ cache[n][k].present /\ k \notin pending[n]
    /\ pending' = [pending EXCEPT ![n] = @ \union {k}]
    /\ UNCHANGED <<api, informer, notify, handler, sync, K, role, changes, faults>>

Cleans(kind) == kind \in {"demote", "promote", "delete"}

\* addStaticEgressIP, updateStaticEgressIP or deleteStaticEgressIP begins, with a
\* sync of the same object perhaps under way.
HandlerTake(n) ==
    /\ handler[n] = Idle /\ notify[n] # <<>>
    /\ notify' = [notify EXCEPT ![n] = Tail(@)]
    /\ LET ev == Head(notify[n])
           kind == Cleanup(n, View(ev.old), View(ev.new))
       IN  /\ handler' = [handler EXCEPT ![n] =
                  [key |-> ev.key, kind |-> kind,
                   calls |-> JobCalls(n, kind, ev.key, View(ev.old))]]
           /\ role' = [role EXCEPT ![n][ev.key] =
                  IF Cleans(kind) /\ sync[n][ev.key] # <<>> THEN "raced" ELSE @]
    /\ UNCHANGED <<api, informer, pending, sync, K, changes, faults>>

HandlerExec(n) ==
    /\ handler[n].key # None /\ handler[n].calls # <<>>
    /\ K' = [K EXCEPT ![n] = After(@, Ahead(handler[n].calls))]
    /\ handler' = [handler EXCEPT ![n].calls = Left(K[n], @)]
    /\ UNCHANGED <<api, informer, notify, pending, sync, role, changes, faults>>

\* It ends: the object is enqueued.
HandlerDone(n) ==
    /\ handler[n].key # None /\ handler[n].calls = <<>>
    /\ pending' = [pending EXCEPT ![n] = @ \union {handler[n].key}]
    /\ handler' = [handler EXCEPT ![n] = Idle]
    /\ role' = [role EXCEPT ![n][handler[n].key] =
           CASE @ \in {"mixed", "raced"} -> @
             [] @ \notin {"mixed", "raced"} /\ handler[n].kind = "delete" -> "none"
             [] @ \notin {"mixed", "raced"} /\ handler[n].kind \in {"demote", "promote"} ->
                    "cleared"
             [] OTHER -> @]
    /\ UNCHANGED <<api, informer, notify, sync, K, changes, faults>>

\* A worker takes k from the queue and reads the cache; from then on it goes by
\* what it has read.
syncHandler(n, k) ==
    /\ k \in pending[n] /\ sync[n][k] = <<>>
    /\ pending' = [pending EXCEPT ![n] = @ \ {k}]
    /\ LET o == View(cache[n][k])
           kind == SyncKind(n, o)
           cleaned == handler[n].key = k /\ Cleans(handler[n].kind)
       IN  /\ sync' = [sync EXCEPT ![n][k] = JobCalls(n, kind, k, o)]
           /\ role' = [role EXCEPT ![n][k] =
                  CASE kind = "none" -> @
                    [] kind # "none" /\ cleaned -> "raced"
                    [] kind # "none" /\ ~cleaned /\ @ \in {"none", "cleared", kind} -> kind
                    [] kind # "none" /\ ~cleaned /\ @ = "raced" -> @
                    [] OTHER -> "mixed"]
    /\ UNCHANGED <<api, informer, notify, handler, K, changes, faults>>

\* One command of a sync.  A sync that fails puts k back into the queue.
SyncExec(n, k) ==
    /\ sync[n][k] # <<>>
    /\ K' = [K EXCEPT ![n] = After(@, Ahead(sync[n][k]))]
    /\ sync' = [sync EXCEPT ![n][k] = Left(K[n], @)]
    /\ pending' = IF Breaks(K[n], sync[n][k])
                  THEN [pending EXCEPT ![n] = @ \union {k}] ELSE pending
    /\ UNCHANGED <<api, informer, notify, handler, role, changes, faults>>

\* The controller is started again and lists the objects, later than it has seen
\* them before, or the whole node is.
Forget(n) ==
    /\ cache' = [cache EXCEPT ![n] = [k \in Key |-> Assignment!Absent]]
    /\ notify' = [notify EXCEPT ![n] = <<>>]
    /\ handler' = [handler EXCEPT ![n] = Idle]
    /\ pending' = [pending EXCEPT ![n] = {}]
    /\ sync' = [sync EXCEPT ![n] = [k \in Key |-> <<>>]]

Restart(n) ==
    /\ Fault
    /\ Forget(n)
    /\ UNCHANGED <<api, at, K, role>>

Reboot(n) ==
    /\ Fault
    /\ Forget(n)
    /\ K' = [K EXCEPT ![n] = EmptyKernel]
    /\ role' = [role EXCEPT ![n] = [k \in Key |-> "none"]]
    /\ UNCHANGED <<api, at>>

-----------------------------------------------------------------------------
Init ==
    /\ object \in Initial /\ suspect = [k \in Key |-> FALSE]
    /\ log = [k \in Key |-> <<object[k]>>]
    /\ at = [n \in Node |-> [k \in Key |-> 1]]
    /\ cache = [n \in Node |-> [k \in Key |-> Assignment!Absent]]
    /\ notify = [n \in Node |-> <<>>]
    /\ handler = [n \in Node |-> Idle]
    /\ pending = [n \in Node |-> {}]
    /\ sync = [n \in Node |-> [k \in Key |-> <<>>]]
    /\ K = [n \in Node |-> EmptyKernel]
    /\ role = [n \in Node |-> [k \in Key |-> "none"]]
    /\ changes = 0 /\ faults = 0

ApiServer ==
    \E k \in Key : \/ \E o \in Objects : UserChanges(k, o)
                   \/ \E n \in Node : ManagerAssigns(k, n)
                   \/ GatewayFails(k)

Controller(n) ==
    \/ HandlerTake(n) \/ HandlerExec(n) \/ HandlerDone(n)
    \/ \E k \in Key : \/ Observe(n, k) \/ Resync(n, k)
                       \/ syncHandler(n, k) \/ SyncExec(n, k)

Next ==
    \/ ApiServer
    \/ \E n \in Node : Controller(n)
    \/ \E n \in Node : Restart(n) \/ Reboot(n)

Spec == Init /\ [][Next]_vars

(***************************************************************************)
(* Properties.                                                             *)
(***************************************************************************)
\* The shape of the state.
TypeOK ==
    /\ object \in [Key -> Objects] /\ suspect \in [Key -> BOOLEAN]
    /\ \A k \in Key : log[k] \in Seq(Objects) \ {<<>>} /\ log[k][Len(log[k])] = object[k]
    /\ cache \in [Node -> [Key -> Objects]] /\ at \in [Node -> [Key -> Nat \ {0}]]
    /\ pending \in [Node -> SUBSET Key]
    /\ \A n \in Node : notify[n] \in Seq([key : Key, old : Objects, new : Objects])
    /\ \A n \in Node : handler[n].key \in Key \union {None}
    /\ role \in [Node -> [Key -> Roles]]
    /\ \A n \in Node : K[n].up \subseteq K[n].tunnel /\ K[n].tunnel \subseteq Node

(***************************************************************************)
(* A sync that nothing disturbs, from its first command to its last.       *)
(***************************************************************************)
\* A command is passed over after a check that makes the code skip it, or after
\* one that failed.
ExecCmd(acc, c) ==
    CASE acc.next = "skip" -> [acc EXCEPT !.next = "run"]
      [] acc.next = "run" /\ Fails(acc.K, c) -> [acc EXCEPT !.next = "failed"]
      [] acc.next = "run" /\ ~Fails(acc.K, c) ->
             [acc EXCEPT !.K = Effect(acc.K, c),
                         !.next = IF Skips(acc.K, c) THEN "skip" ELSE "run"]
      [] OTHER -> acc

\* The commands of a call, one after the other.
RunCmds(acc, cmds) ==
    LET run[i \in 0..Len(cmds)] == IF i = 0 THEN acc ELSE ExecCmd(run[i - 1], cmds[i])
    IN  run[Len(cmds)]

\* The error of a call that is not fatal is logged.
ExecCall(acc, call) ==
    LET done == RunCmds([acc EXCEPT !.next = "run"], call.cmds)
    IN  IF acc.next = "failed" THEN acc
        ELSE IF done.next = "failed" /\ ~call.fatal THEN [done EXCEPT !.next = "run"]
        ELSE done

\* Calls, one after the other.
RunCalls(acc, calls) ==
    LET run[i \in 0..Len(calls)] == IF i = 0 THEN acc ELSE ExecCall(run[i - 1], calls[i])
    IN  run[Len(calls)]

\* A job for object o of key k, on node n with the configuration kernel.
RunJob(n, kernel, kind, k, o) ==
    RunCalls([K |-> kernel, next |-> "run"], JobCalls(n, kind, k, o))

\* A sync of a node never gets stuck on what an earlier sync, the cleanup of
\* another role, half of either, or a former life of the node left behind: if
\* nothing disturbs it, it returns no error.  (doGatewyProcessing returns the
\* first error; processNextWorkItem then tries again and again.)
SyncsSucceed ==
    \A n \in Node, k \in Key :
        k \in pending[n] =>
            LET o == View(cache[n][k])
            IN  RunJob(n, K[n], SyncKind(n, o), k, o).next # "failed"

Source(p, d) == EgressSource(K, Cardinality(Node), p, d)

\* The rules of k that are in force.
Rules(k) ==
    IF object[k].present /\ object[k].gw # NoNode THEN ToSet(Written[object[k].spec])
    ELSE {}

Snated(k) ==
    \A r \in Rules(k) : \A p \in ToSet(Pods[r.svc]) : Source(p, r.dst) = r.eip

\* The known limits: a second gateway away from the pod (the route of the pod's
\* node stays with the first, see RouteFollowsGateway of EgressController), and
\* an egress IP that comes back (its rule stays behind the one that replaced it).
Limited(k) ==
    LET been == 1..Len(log[k])
    IN  \/ \E p \in DOMAIN Host :
               Cardinality({log[k][i].gw : i \in been} \ {NoNode, Host[p]}) > 1
        \/ \E ip \in IPs(object[k]) : \E i, j \in been :
               i < j /\ ip \in IPs(log[k][i]) /\ log[k][j].present /\ ip \notin IPs(log[k][j])

\* A node, or every node, has handled every change.
Rests(n) == /\ cache[n] = object /\ notify[n] = <<>> /\ handler[n] = Idle
            /\ pending[n] = {} /\ \A k \in Key : sync[n][k] = <<>>

Settled == \A n \in Node : Rests(n)

\* A node took a role without the cleanup of the other, or a sync in flight put
\* back what the cleanup took away.
Unclean(k) == \E n \in Node : role[n][k] \in {"mixed", "raced"}

\* The point of the system: when all nodes have handled all changes, the packets
\* of the selected pods to the rule's destination leave the cluster with the
\* rule's egress IP, whatever failovers, edits, deletions, restarts and reboots
\* there were, in whatever order the nodes learnt of them, and whatever commands
\* a restart cut off; except within the known limits, and unless a cleanup was
\* missed by a restart or overlapped by a sync.
EgressWorks == Settled => \A k \in Key : Limited(k) \/ Unclean(k) \/ Snated(k)

\* "a set of pods whose outbound traffic to a specified destination is always
\* SNAT'ed with a configured static egress IP" (README.md): at least when all
\* nodes have handled all changes.
AlwaysSnated == Settled => \A k \in Key : Snated(k)

\* The same where every node did every cleanup, and none beside a sync: what the
\* known limits alone cost.
CleanlySnated == Settled => \A k \in Key : Unclean(k) \/ Snated(k)

\* "routing changes needed to redirect the traffic are exclusivley applied only
\* to those pods" that an object selects (docs/design.md): at least when all
\* nodes have handled all changes, every cleanup undisturbed, no packet is
\* redirected that no rule selects.
Selected(p, d) ==
    \E k \in Key : \E r \in Rules(k) : r.dst = d /\ p \in ToSet(Pods[r.svc])

Redirected(p, d) == Hop(K, Host[p], p, d) # Host[p]

OnlySelectedTraffic ==
    Settled /\ (\A k \in Key : ~Unclean(k)) =>
        \A p \in DOMAIN Host :
            \A d \in {r.dst : r \in AllRules} :
                Redirected(p, d) => Selected(p, d)

\* "only a single node acts as a gateway" (README.md): when all nodes have
\* handled all changes, every cleanup undisturbed, an egress IP is on one node.
SingleGateway ==
    Settled /\ (\A k \in Key : ~Unclean(k)) =>
        \A m, n \in Node : m # n => K[m].addr \intersect K[n].addr = {}
=============================================================================
