# A TLA+ model of kube-static-egress-ip

kube-static-egress-ip gives the traffic of chosen pods to chosen destinations a
fixed source address. A user writes a `StaticEgressIP` object with rules
(service, destination CIDR, egress IP). A gateway manager assigns a gateway node
to the object. A controller on every node configures the kernel of its node: on
the gateway to SNAT the traffic, on every other node (a *director*) to mark the
traffic and route it through a GRE tunnel to the gateway.

This directory holds TLA+ modules for that system, TLC configurations that check
them on small instances, and TLAPS proofs of the central properties for every
instance. `PROJECT.json` lists runs, mutants, theorems, findings and hazards, and
maps each definition to the lines it stands for. Lines 137 to 139 of the repository's
README (the operator chooses the gateway, there is no high availability) are older
than `pkg/ha`; the model follows the code.

## Inventory

| Component | State | Operations | What is hard |
|---|---|---|---|
| Gateway manager (`pkg/ha`) | the lock, the informer cache, the loop and the object it is about to write | election, tick, `chooseGatewayNode`, `Update`, exit | two leaders at once, stale copies of whole objects, a crash at any moment, the choice of a node |
| Controller (`pkg/controller`) | caches of StaticEgressIPs and Endpoints, notifications, the work queue, the job of each goroutine | the three handlers, `Get`/`Done`, `syncHandler`, director and gateway processing | handlers and workers run beside each other, only errors of a few calls are retried, Endpoints events are not handled, restarts forget transitions |
| Director (`pkg/director`) | mark and bypass rules, tunnel, route, ipset | `AddRouteToGateway`, `ClearStaleRouteToGateway`, `DeleteRouteToGateway` | check-then-act on the output of `ip`, partial failure, a set emptied while in use |
| Gateway (`pkg/gateway`) | forward, SNAT and return-mark rules, egress IP, ipset | `AddStaticIptablesRule`, `ClearStaticIptablesRule`, `ConfigureStaticIP`, `RemoveStaticIP` | order of the NAT chain, early returns, address lookup |
| Process and node setup (`cmd`, `Run`, `Setup` of both packages, `pkg/signals`) | chains, jumps, policy rule, the name of the routing table, `stopCh` | `main`, `Run`, `Setup`, `SetupSignalHandler` | a crash, signal or reboot between two steps, order of the jumps, shutdown |
| ipset wrapper (`pkg/ipset`, used by nobody) | a set and its temporary twin | `New`, `Add`, `Del`, `Refresh` | failure and leftovers in the middle of a refresh |
| `pkg/utils`, generated client | none of their own | lookups | a lookup that fails in the middle of a handler |
| The system | objects, caches and kernels of all nodes | all of the above | nodes learn of changes at different times and forget what they were |

Components interact through the API server: users write specs, the manager writes
`Status.GatewayNode` and `Status.GatewayIP`, controllers read both. In a
controller, one goroutine runs the handlers (informer notifications), two run
`runWorker`; they share the caches, the work queue and the kernel of the node. The
kernel's configuration outlives the process.

What makes each component correct:

* manager: the two status fields name one node; no write undoes an edit; a healthy
  gateway stays; a failed one is replaced;
* controller: no change is forgotten; an object is synced by one worker at a time;
  the node gets to the configuration of its role after any change or fault;
* director and gateway: operations can be repeated without piling up rules; what
  one adds, its counterpart removes; traffic that is caught stays caught;
* setup: workers run only on a node that is set up, whatever was interrupted before;
* ipset wrapper: a set changes in one step or not at all;
* the system: once all nodes have caught up, packets of the selected pods leave with
  the egress IP, no sync is stuck, and no other packets are redirected.

## Modules

* **GatewayManager** – replicas of the manager with the API server's versions of
  each object. A copy of an object (in a cache, in the list of the loop, in a write
  under way) is known by the version it was copied from, so staleness is explicit.
  `Tick`, `Choose`, `ChooseFails`, `Update`, `UpdateFails` and `RangeDone` are the
  loop of `OnStartedLeading`; `Acquire`, `TakeOver`, `Lose`, `Exit` and `Crash` are
  the election. `chooseGatewayNode` is a relation between object and result: in
  `readyNodes = append(readyNodes, &node)` every element is the address of the one
  loop variable, so the elected node is the one listed last, if any node is ready.
* **NodeKernel** – the configuration of a node, the effect of each command of
  ipset, iptables and ip on it, when a command fails, and the checks after which
  the code passes over the next command. `Shown`, `AddrShown` and `TunnelShown` say
  which texts occur in which, since the code looks for substrings of command output.
* **EgressDirector**, **EgressGateway** – the operations of both packages as
  sequences of commands.
* **RuleProcessing** – what the controller decides about one rule of one object:
  the role of a node, what a change asks to be cleaned up and, for each kind of job,
  its calls. A call is a sequence of commands whose error is logged or returned. The
  dereference of an endpoint's `NodeName` (controller.go:329) is a command of its own,
  which panics when there is none.
* **Naming** – tunnel names, printed addresses and the name that `generateRuleId`
  hashes, as sequences of characters. It gives the instances of NodeKernel and
  RuleProcessing their `Shown`, `TunnelShown` and `FullName` where a run is about names.
* **EgressController** – RuleProcessing with the informers, the handlers, the queue
  and the workers of one node. Each goroutine has a job: the key, the object it has
  read, the rule it is at and the calls it has left; `Exec` runs one command.
  `LoadRule` reads the endpoints of a rule and unfolds its calls; `Panic` is the
  dereference of endpoints that were not found, of the missing name of an endpoint's
  node, or of the director before `Run` has made it. Three history variables:
  `seen` is what the last sync of an object has read, reset by whatever obliges the
  controller to sync again; `disturbed` holds the objects of which a handler's cleanup
  and a sync overlapped, or a job was cut off; `gone` the rules whose deletion has been
  handled and that no later sync may have configured again.
* **NodeSetup** – the life of the process: the steps of `NewEgressIPController`, `Run`
  and both `Setup`s (`Steps`), with a fatal error, a signal, a crash or a reboot
  between any two, the CNI plugin's jump, the workers, and the end. Chains and rules
  outlive the process; `/etc/iproute2/rt_tables` outlives the node's boot.
* **IpsetRefresh** and **AtomicSet** – `pkg/ipset` command by command, and the promise
  that a packet filter sees the old content or the new one.
* **GatewayAssignment** – what the manager promises: the current object is changed in
  one step, specs by users only, the two status fields together and only where there
  is no gateway or it has been failing. GatewayManager implements it
  (`ImplementsAssignment`, with the current version of each object as `object`).
* **DataPlane** – what the kernels of the nodes do to a packet: mark, policy route,
  tunnel, forward, bypass, SNAT, masquerade. The Linux network stack is external; the
  order of the chains in POSTROUTING is the one `SetUpWhenServing` establishes.
* **EgressCluster** – the composition: users and the manager as GatewayAssignment, a
  controller on every node, DataPlane on top. On each node the informer follows the log
  of an object (`Observe`, which may skip versions), the handler takes a notification
  (`HandlerTake`), runs its commands one by one (`HandlerExec`) and enqueues
  (`HandlerDone`); a sync reads the cache (`syncHandler`) and then runs its commands one
  by one (`SyncExec`), from what it has read, whatever the informer and the handler do
  meanwhile. A restart or reboot may come between any two commands. There is one sync of
  an object at a time (`OneSyncPerKey`) and a worker for each object. `RunJob`, which only
  `SyncsSucceed` uses, runs a sync that nothing disturbs to its end. `role` is a
  history variable that the properties' provisos speak of.
* **MC...** – instances of the modules for TLC.
* **GatewayManagerProofs**, **EgressControllerProofs**, **NodeSetupProofs**,
  **IpsetRefreshProofs**, **EgressClusterProofs** – theorems and proofs about the
  module each is named after.
* **NodeKernelProofs**, **RuleProcessingProofs**, **EgressJobProofs** – lemmas for them:
  what one command does to a configuration, which command may follow which in the
  calls of a job, and what a sequence of commands, a call and a whole job do.

`GatewayIP` is a field of its own in GatewayManager; theorem `StatusCorrect` shows
that it is always the address of `GatewayNode`, and EgressController uses one field
for both.

Abstractions in NodeKernel and EgressController:

* `iptables -C` and the insert of a SNAT rule, whose place in the chain matters, are two
  commands (`insertRule`). For a mark, bypass or forward rule the check and the append are
  one: two goroutines that add the same rule would have to sync the same object
  (`OneSyncPerKey`), and a delete between the two takes away what is not there, so it has
  the outcome of one of the two orders. With set names that collide this is not so
  (see `NamesApart` below).
* A return-mark rule is a member of a set: a second copy of it does what the first does,
  and nothing removes one.
* A set is named by the pair of `FullName` and rule number. The code hashes their
  concatenation, so names that end in digits could collide with higher numbers as well.
* An address that is configured on the node is routed over `lo`, where
  `getInterfaceForNetwork` finds no network it is in; a route is never deleted by `via`,
  since all routes lead to a device.
* `Observe` of EgressController takes the current object into the cache: a change that is
  observed before the next one gives the watch's events, one that is not gives those of
  a relist.

## Runs

| Run | Instance | Result |
|---|---|---|
| `gm_safety` | 2 replicas, 1 object, 3 nodes (one master, one without address), 3 changes, 1 fault | `StatusNamesOneNode`, `NoLostEdit`, `StickyGateway`, `ImplementsAssignment` and the type hold |
| `gm_failover` | 2 replicas, 1 object, 2 nodes, 2 changes, 1 fault, fair | `FailoverHappens` holds |
| `gm_detects` | 1 replica, 2 nodes, 2 changes, fair | `DetectsNodeFailures` is violated |
| `ctl_safety` | 1 object, 2 nodes, 2 workers, 2 changes, 1 fault | `NoLostUpdate`, `OneSyncPerKey`, `SnatOnce`, `DeletionReleases`, `BypassRedirects` and the type hold |
| `ctl_converges` | 1 object, 2 nodes, 1 worker, endpoints with and without a node that replace each other, 1 change, 1 fault, fair | `Converges` holds |
| `ctl_route` | 3 nodes, 1 change, fair | `RouteFollowsGateway` is violated |
| `ctl_tunnel` | 2 objects, 2 workers, no change | `TunnelEnsured` is violated |
| `setup` | 2 workers, 4 crashes, signals, reboots and failing steps, fair | `SetUpWhenServing`, `Serves` and the type hold |
| `ipset_refresh` | 3 entries, a set that holds 2, any number of failures and crashes | `ImplementsAtomicSet` and the type hold |
| `cluster_works` | 2 nodes, 1 object that does not exist, waits for a gateway or has one, two specs (another egress IP), 1 change, 1 fault | `SyncsSucceed`, `EgressWorks` and the type hold |
| `cluster_restart` | 2 nodes, 1 object in use, 1 change, 1 fault | `AlwaysSnated` is violated |
| `cluster_single` | 2 nodes, 1 object in use, a failover | `SingleGateway` is violated |

Further configurations, for questions one would ask next to those:

| Configuration | Question | Result |
|---|---|---|
| `EgressCluster_twice.cfg` | `SyncsSucceed` and `EgressWorks` with two changes and no fault | hold (3 to 4 min) |
| `EgressCluster_three.cfg` | the same with three nodes and one change | hold (90 s) |
| `EgressCluster_race.cfg` | `AlwaysSnated` when a failover meets a sync in flight, without any fault | violated |
| `EgressCluster_two.cfg` | `CleanlySnated` for 2 objects with one destination and one gateway | holds |
| `EgressCluster_names.cfg` | the same, with names that `generateRuleId` joins to one text | violated |
| `EgressCluster_shared.cfg` | `CleanlySnated` for 2 objects with one destination and two gateways | violated |
| `EgressCluster_back.cfg` | `CleanlySnated` when an egress IP is changed and changed back | violated |
| `EgressCluster_cidr.cfg` | `OnlySelectedTraffic` after an edit of the destination | violated |
| `EgressController_names.cfg` | `TunnelEnsured` with nodes 10.0.0.11 and 10.0.0.1 | violated |
| `EgressController_return.cfg` | `ReturnRouteMade` with pods 10.9.0.10 and 10.9.0.1 | violated |
| `EgressController_delete.cfg` | `DeleteRemovesRoute` | violated |
| `EgressController_synced.cfg` | `WorkersStartSynced` | violated |
| `EgressController_flush.cfg` | `AlwaysCaught` | violated |
| `NodeSetup_shutdown.cfg` | `WaitsForWorkers` | violated |
| `GatewayManager_lease.cfg` | `LoopEndsBeforeLease` | violated |

*Bounds.* `MaxChanges` bounds what users, services, nodes and (for the controller)
the manager do, `MaxFaults` crashes, takeovers, failed requests and failed
commands. In `gm_safety` three changes allow creation, an edit or deletion during a
write, and a node failure, with two leaders at once; two replicas are the fewest
that overlap. In `ctl_safety` objects and their gateway are arbitrary at the start,
so two changes suffice for a change of role during a sync followed by a deletion or
another change, and one fault for a retry or a restart in the middle. In
`cluster_works` the objects are in any stage of use at the start, one change is a
creation, assignment, edit, failover or deletion, which every node takes up command by
command beside syncs and resyncs, and one fault cuts any of this off;
`EgressCluster_twice.cfg` has a second change instead of the fault, so that a job meets
what is left of the one before. Gateways fail as often as they like. Two nodes suffice
for both roles of the pod's node and for packets that circle; `EgressCluster_three.cfg`
adds a node that is neither the pod's nor the gateway.
The theorems lift the bounds for the properties they prove. `Resync` waits for an
empty notification queue so that the queue stays finite. IpsetRefresh has no bound.

*Turns.* The configurations of EgressCluster check `TurnSpec` of MCEgressCluster: the API
server's steps first, then those of one node to its rest, then those of the next. A step of
a node reads and writes only what belongs to that node, and of the API server it
reads only the log, of which it may see any part; so it is possible with a longer
log too, and steps of different nodes commute. From every behaviour that ends with all
nodes at rest another one to the same state is therefore made by taking the
API server's steps first and the nodes in turn, which keeps each node's own
interleaving of informer, handler and syncs. `EgressWorks` and the other properties of
`Settled` states lose nothing by it, and `SyncsSucceed` and `TypeOK` speak of one node at a
time. The theorems are about `Spec`, without turns.

*Deadlock.* GatewayManager, NodeSetup and IpsetRefresh are checked for deadlock. The
runs of EgressController and EgressCluster turn the check off: a controller without
objects waits for ever, as it should.

*Fairness.* Weak fairness of every goroutine's steps, of watches, of the ticker and
of the delay of rate-limited keys: the Go scheduler runs runnable goroutines, the
timers of client-go fire, the kubelet restarts the process (`restartPolicy` of a
DaemonSet or Deployment). `Resync` is strongly fair because the queue is empty only
now and then, and the guard is the model's bound: the timer of 30 seconds fires
whatever the queue holds. `Get` is strongly fair for each key, because the work queue
is first in, first out and the model's is a set. In NodeSetup the process's own
steps, the list and the CNI plugin are weakly fair. EgressCluster needs none: its
properties are about states in which all nodes have caught up, and that they do catch up
is `NoLostUpdate` and `Converges` for one node. Nothing is assumed of users, nodes and
faults; that faults end is the bound, and stands for a network and a kernel that do not
fail for ever.

### What the violated properties show

* `DetectsNodeFailures`: with a ready node listed first and an unready one listed last,
  the manager writes the unready node (gateway_manager.go:223). `FailoverHappens` states
  what is left of the promise: failover happens if the node listed last is electable.
* `RouteFollowsGateway`: a director never replaces a route (director.go:182), so after
  a failover between two remote nodes its traffic keeps going to the old gateway.
* `TunnelEnsured`: a director's sync looks for the tunnel (director.go:155), another worker
  makes it for another object, as a director or as that object's gateway, and
  the `ip tunnel add` of the first fails (director.go:161). Its error is only logged, and
  the route is missing until the next resync. When the sync that comes second is a
  gateway's (controller.go:346), its error is returned and it is tried again. Also, names
  are looked for as substrings: the tunnel to 10.0.0.1 counts as there when the one to
  10.0.0.11 is (`EgressController_names.cfg`, one worker).
* `AlwaysSnated`: a restart makes a node miss the transition that its cleanup hangs on
  (controller.go:386). On a new gateway the mark and bypass of its time as a director stay.
  If the tunnel and route were made too, the marked packets are sent to the former gateway
  and circle; if the restart cut the director's sync before the route, as in the
  trace of `cluster_restart`, they reach POSTROUTING, where the bypass wins over SNAT. No
  restart is needed: in `EgressCluster_race.cfg` a director's sync that has read the object
  before the failover writes mark, bypass and route after the promotion has cleared
  them (controller.go:439), and nobody clears them again.
* `CleanlySnated`, which leaves both aside: an egress IP that comes back stays behind the
  one that replaced it (gateway.go:112), a director has one route to a destination for all
  objects (director.go:182), and the names of sets are not unique (controller.go:381;
  `EgressCluster_two.cfg` is the control).
* `SingleGateway`: a former gateway keeps the egress IP (staticIP.go:41).
* `OnlySelectedTraffic`: nothing cleans up after an edit (controller.go:398).
* `ReturnRouteMade`: addresses are looked for as substrings (controller.go:359).
* `DeleteRemovesRoute`: the check before `ip route delete` is inverted (director.go:233).
* `WorkersStartSynced`: workers do not wait for the Endpoints cache (controller.go:148).
  The process panics and starts again, and `Converges` shows that it gets there.
* `AlwaysCaught`: each sync, and so each resync, empties the set of a rule before it
  fills it again (director.go:110); the README's "always SNAT'ed" holds up to that.
* `WaitsForWorkers`: `Run` does not wait for the workers (controller.go:159).
* `LoopEndsBeforeLease`: nothing waits for the loop before the lock is released
  (gateway_manager.go:120). `ImplementsAssignment` shows why this is harmless.

### What EgressWorks and DeletionReleases excuse

`EgressWorks` says that packets leave with the egress IP once all nodes have handled all
changes, except

* where a node is `Unclean` for the object: it took a role without the cleanup of the
  other (`mixed`, `cluster_restart`), or a cleanup and a sync of the object overlapped on it
  (`raced`, `EgressCluster_race.cfg`);
* where the object is `Limited`: it has had two gateways away from the pod's node
  (`ctl_route`), or an egress IP that was replaced and came back (`EgressCluster_back.cfg`).

These name histories, not the resulting states; each is wider than the failure it is
there for, so a second failure that needs one of them would not be found.

The same overlap breaks deletion: a worker that has read the object (controller.go:240)
goes on with `AddRouteToGateway` after `deleteStaticEgressIP` has run, fills the set and adds
the mark again, and nothing removes them, since the sync that follows the deletion finds no object. So
`DeletionReleases` and `BypassRedirects` are about objects whose jobs did not meet
(`disturbed`), with everything else interleaved: other objects' jobs on the same tunnels and
routes, resyncs, failures, restarts.

## Proofs

Nothing but the named assumptions on constants is used: nodes have distinct places
in the node list, `NoIP`, `NoNode`, `NoManager`, `None` are not values, `Key`
and `Node` are finite, the handler is not a worker, the CNI plugin's jump is not one
of the controller's, specs are lists of rules whose services exist (in EgressCluster: have
pods on nodes), and the address of a pod is not that of a node nor an egress IP. There is
no bound on replicas, nodes, objects, workers, rules, endpoints, changes or faults. TLC
evaluates each assumption on the instances of the runs. Four theorems have a
hypothesis besides: `NamesApart` (`generateRuleId` makes no two objects one text,
controller.go:381) and `TextsApart` (no destination or tunnel name is a part of another,
director.go:154 and 182). The instances of the runs satisfy them.

**GatewayManagerProofs** proves `TypeCorrect`, `StatusCorrect`, `NoLostEditHolds`,
`StickyGatewayHolds` and `Implementation`: GatewayManager implements
GatewayAssignment, on which EgressCluster is built. The properties speak of the current version of an object,
but writes come from copies, so the inductive invariant `IInv` adds: every *past*
version is sound (`VersionsSound`: a copy of it is sound too), a gateway that is not
ready is recorded as suspect (`SuspectSound`), the list of the loop holds objects
that existed (`TodoSound`), and a write under way names one node and, if its base is
still current and it moves the gateway, the old gateway is suspect (`CopySound`).
The last is why a stale write is harmless: either the server rejects it, or what it
was decided on still counts. The refinement uses the same invariant: an accepted
write is an `Assign` (or changes nothing), by `CopySound`; a node failure is `Doubt`;
every other step leaves the current objects alone.

**EgressControllerProofs** proves `TypeCorrect`, `NoLostUpdateHolds`,
`OneSyncPerKeyHolds`, `SnatOnceHolds`, `DeletionReleasesHolds` and `BypassRedirectsHolds`.
For the first three `IInv` adds that each goroutine has a record of its job
(`Shape`) and that a worker's key is marked as being processed (`WorkersOwn`), which
is why `Get` never hands out a key twice. `NoLostUpdate` is inductive with these: a
key leaves the notifications into the handler, the handler into the queue, the queue
into a worker, and a worker only by reading the cache or by putting it back. What
the commands do to the kernel plays no part there and is left unexpanded.

The other three are about single commands of all goroutines in any interleaving.
`JobsOK` says that the calls a goroutine has left are what is left of calls of its job
(`CallsOK`; RuleProcessingProofs derives from each job's commands which one follows
which, `NextCommand`, and whose sets they name). `Cases` sorts the steps of the system: a
goroutine's command succeeds or fails, a job starts, loads a rule or ends, or nothing of
this changes.

* `SnatOnce`: a worker that is at the insert has found the rule missing (`SnatOK`), and it
  still is: only another worker at an insert for the same set could have added it, and by
  `OneSyncPerKey` and `NamesApart` there is none. Handlers only take rules away.
* `DeletionReleases`: by `Apart`, while an object is not in `disturbed` its cleanup and its
  sync do not overlap; so nobody but the handler touches the sets of an object that is
  being deleted. `Deleting` says how far it has come: the sets of the rules before this one
  are empty and have no mark or bypass, and of this rule what the commands so far have taken away
  is gone (`DeletesAt`, by the position in the call). A call that fails
  at the inverted route check (director.go:233) has done that part before.
* `BypassRedirects`: a bypass rule of an undisturbed object is in one of three states
  (`Bypasses`): it is redirected, with mark and a route into a tunnel that is up; it is on
  its way, with the rest of `AddRouteToGateway` ahead of some worker, and none of its
  commands can fail for what is configured; or it is about to be taken away by a handler
  that has removed the mark. `Wires` supplies that sets in use and the routes into tunnels
  that are up, which objects share, stay whatever the others do.

**NodeSetupProofs** proves `TypeCorrect` and `SetUpWhenServingHolds`. That the jumps of
POSTROUTING are in order when workers start depends on every earlier life of the
process, so `IInv` speaks of all phases: POSTROUTING has no jump twice, the bypass is
first, the CNI plugin's jump last, and the bypass is there only with the NAT jump
(`PostOK`; without the last part a restart could insert the NAT jump in front of the
bypass); a policy rule refers to a table that has a name (`NetOK`); what each of the 15
steps has made is there from then on, as long as the process lives (`StepsKept`).

**IpsetRefreshProofs** proves `TypeCorrect` and `Implementation`: pkg/ipset implements
AtomicSet. `IInv` says of each call what is true after each of its commands; the part
that matters is `RefreshSound`: whatever an earlier call left in the temporary set, after
the flush it holds the entries added so far and no others, and that is what the swap
hands over.

**EgressClusterProofs** proves `TypeCorrect` and `SyncsSucceedHolds` for the composition.
What a sync that nothing disturbs computes is the value of recursive functions. The
library's induction theorems take an operator as a parameter, so EgressJobProofs takes
the set of numbers with a property for the property: `LeastNatural` (from `WFMin`) and
`SetInduction` in NodeKernelProofs give induction over the length of a sequence. With it,
`RunCmdsTrace` and `RunCallsTrace` show that the recursive functions are well defined, and
`RunConcat` that commands can be run piece by piece.

* `Wired` (the configuration has its shape, tunnels that are up exist, and tunnels lead to
  nodes) is kept by every single command that a handler or a sync runs (`AfterWired`), in
  whatever order and however often they are cut off. `IInv` says it of every node, and that
  what handlers and syncs have left are commands of the code (`Calls`, `LeftCalls`).
* From any configuration that is `Wired`, the calls of a sync whose errors are returned, the
  paths back to the pods, run to their end (`SafeCalls`, `JobKept`): each tunnel is found or
  made, and a route is there or its tunnel is up. That is where `TextsApart` comes in:
  if the tunnel's name occurs in another one, the code takes the other for it, and fails to bring
  up one that is not there.

`SyncsSucceed` follows for every sync that is next, whatever was left behind.

*Only model-checked:* `FailoverHappens`, `Converges` and `Serves` (liveness under fairness
is out of the prover's reach) and `EgressWorks`. The other safety properties of the passing
runs are proved.

## Not modelled

Lease times; the text of rules and the hash of set names; `GetGatewayIP`,
`handleObject`, `deleteChain` and the commented-out methods of the gateway, which
nothing uses; the fallbacks of `GetNodeObject` (it finds the node or fails); the
reverse path filter beyond whether it was turned off; the path of return packets
beyond the routes the gateway makes for it; timeouts of ipset entries; generated
code, version, logging. A node's address never changes, so that the manager keeps
the address recorded for a gateway that stays (gateway_manager.go:201) is not covered.
The CNI plugin of NodeSetup appends its jump to POSTROUTING once; an agent that inserts a
jump at position 1 after the setup would come before the bypass, since the code looks
whether its own jumps are there and not where. EgressCluster has no commands that fail for a
reason of their own, no panics and no change of endpoints; these are in EgressController.

## Plan

1. The control of EgressCluster for `EgressWorks`, as a safety theorem: once nodes agree,
   nothing is pending and no proviso applies, packets have the egress IP. Its inductive
   invariant has to say which configuration each role leaves behind.
2. What EgressController and EgressCluster share: that a behaviour of EgressController
   without faults of commands is one of a node of EgressCluster.
3. The address of a node as a variable of GatewayManager.
