--------------------------- MODULE GatewayManager ---------------------------
(***************************************************************************)
(* The gateway manager (pkg/ha/gateway_manager.go): replicas of one        *)
(* process elect a leader; every 5 seconds the leader walks over the       *)
(* StaticEgressIP objects in its informer cache, chooses a gateway node    *)
(* for each and writes the choice back with an Update of the whole object. *)
(*                                                                         *)
(* The API server is external.  It keeps every version of an object; a     *)
(* version's number is its resourceVersion, and a copy of an object (in a  *)
(* cache, in the list a loop walks over, in a write under way) is known by *)
(* the number of the version it was copied from.                           *)
(***************************************************************************)
EXTENDS Naturals, Sequences, FiniteSets

CONSTANTS
    Manager,      \* replicas of the gateway manager, named by POD_IP
    CR,           \* StaticEgressIP objects, named by namespace/name
    Node,         \* cluster nodes, named by UID
    Master,       \* the nodes that carry nodeRoleMasterLabel
    ListPos,      \* the position of a node in the API server's node list
    NodeIP,       \* utils.GetNodeIP of each node, NoIP where it fails
    IP,           \* the addresses nodes have
    NoIP,         \* the empty GatewayIP, and GetNodeIP's failure
    NoNode,       \* the empty GatewayNode
    NoManager,    \* nobody holds the lock
    MaxChanges,   \* bound on what users and nodes do
    MaxFaults     \* bound on crashes, takeovers and failed requests

ASSUME MasterAssumption == Master \subseteq Node
ASSUME ListAssumption ==
    /\ ListPos \in [Node -> Nat]
    /\ \A n, x \in Node : ListPos[n] = ListPos[x] => n = x
ASSUME AddressAssumption ==
    /\ NoIP \notin IP
    /\ NodeIP \in [Node -> IP \union {NoIP}]
ASSUME NullAssumption == NoNode \notin Node /\ NoManager \notin Manager
ASSUME BoundAssumption == MaxChanges \in Nat /\ MaxFaults \in Nat

VARIABLES
    nodeState,  \* "joining" (not registered yet), "ready", "notReady", "gone"
    versions,   \* versions[c]: every version of object c, oldest first
    holder,     \* the holder in the lock's ConfigMap
    elector,    \* elector[m]: "standby", "leader" or "lost" (ctx cancelled)
    cache,      \* cache[m][c]: the version the informer of m holds
    loop,       \* loop[m]: where the OnStartedLeading loop of m is
    todo,       \* todo[m]: what the range over staticEgressIps has left
    copyObj,    \* copyObj[m]: the object m is about to Update
    suspect,    \* history: the gateway of c has not been ready all the time
    changes,
    faults

api == <<versions, suspect>>
mgr == <<elector, cache, loop, todo, copyObj>>
budget == <<changes, faults>>
vars == <<nodeState, versions, holder, elector, cache, loop, todo, copyObj,
          suspect, changes, faults>>

(***************************************************************************)
(* Objects and nodes.                                                      *)
(***************************************************************************)
\* A StaticEgressIP: its spec (named by the version that wrote it) and status.
Object == [present : BOOLEAN, spec : Nat,
           gw : Node \union {NoNode}, ip : IP \union {NoIP}]

Absent == [present |-> FALSE, spec |-> 0, gw |-> NoNode, ip |-> NoIP]

Latest(c) == versions[c][Len(versions[c])]

\* What an Update or the loop carries: the version copied and the new status.
Copy == [cr : CR, base : Nat, gw : Node, ip : IP]

NoCopy == [cr |-> NoNode, base |-> 0, gw |-> NoNode, ip |-> NoIP]

Listed == {n \in Node : nodeState[n] \in {"ready", "notReady"}}

Ready(n) == nodeState[n] = "ready"

LastListed(n) ==
    /\ n \in Listed
    /\ \A x \in Listed : ListPos[x] <= ListPos[n]

(***************************************************************************)
(* chooseGatewayNode, as the relation between the object it is given and   *)
(* the status it returns.  readyNodes collects the address of the range    *)
(* variable, one variable for the whole loop (the module predates Go       *)
(* 1.22), so its first element is the node listed last.                    *)
(***************************************************************************)
\* Mutant: the node of the current gateway is not looked at.
KeepsGatewayAlways(o) == o.gw # NoNode

KeepsGateway(o) == o.gw \in Listed /\ Ready(o.gw)

readyNodes == {n \in Listed : n \notin Master /\ Ready(n)}

Elects(n) == readyNodes # {} /\ LastListed(n)

chooseGatewayNodeFails(o) ==
    /\ ~KeepsGateway(o)
    /\ \/ readyNodes = {}
       \/ \E n \in Node : Elects(n) /\ NodeIP[n] = NoIP

\* Mutant: a gateway that is kept loses its place to the elected node.
chooseGatewayNodeAfresh(o, gw, ip) ==
    Elects(gw) /\ NodeIP[gw] # NoIP /\ ip = NodeIP[gw]

\* Mutant: the old address is kept when a new node is elected.
chooseGatewayNodeOldIP(o, gw, ip) ==
    \/ KeepsGateway(o) /\ gw = o.gw /\ ip = o.ip
    \/ /\ ~KeepsGateway(o) /\ Elects(gw) /\ NodeIP[gw] # NoIP
       /\ ip = IF o.ip # NoIP THEN o.ip ELSE NodeIP[gw]

\* Mutant: the loop goes on with the empty result of a failure.
chooseGatewayNodeUnchecked(o, gw, ip) ==
    \/ KeepsGateway(o) /\ gw = o.gw /\ ip = o.ip
    \/ ~KeepsGateway(o) /\ chooseGatewayNodeAfresh(o, gw, ip)
    \/ chooseGatewayNodeFails(o) /\ gw = NoNode /\ ip = NoIP

chooseGatewayNode(o, gw, ip) ==
    \/ KeepsGateway(o) /\ gw = o.gw /\ ip = o.ip
    \/ ~KeepsGateway(o) /\ Elects(gw) /\ NodeIP[gw] # NoIP /\ ip = NodeIP[gw]

(***************************************************************************)
(* The environment: nodes, users and the API server.                       *)
(***************************************************************************)
Change == changes < MaxChanges /\ changes' = changes + 1 /\ UNCHANGED faults

Fault == faults < MaxFaults /\ faults' = faults + 1 /\ UNCHANGED changes

\* A node joins, its Ready condition changes, or it leaves for good: a node
\* that registers again has a new UID.
NodeChange(n, s) ==
    /\ Change
    /\ <<nodeState[n], s>> \in
           {<<"joining", "ready">>, <<"ready", "notReady">>,
            <<"notReady", "ready">>, <<"ready", "gone">>, <<"notReady", "gone">>}
    /\ nodeState' = [nodeState EXCEPT ![n] = s]
    /\ suspect' = [c \in CR |-> suspect[c] \/ (Latest(c).gw = n /\ s # "ready")]
    /\ UNCHANGED <<versions, holder, mgr>>

Write(c, o) == versions' = [versions EXCEPT ![c] = Append(@, o)]

\* A user creates the object, without a status.
CreateCR(c) ==
    /\ Change
    /\ ~Latest(c).present
    /\ Write(c, [present |-> TRUE, spec |-> Len(versions[c]) + 1,
                 gw |-> NoNode, ip |-> NoIP])
    /\ suspect' = [suspect EXCEPT ![c] = FALSE]
    /\ UNCHANGED <<nodeState, holder, mgr>>

\* A user changes the spec; the status stays.
EditSpec(c) ==
    /\ Change
    /\ Latest(c).present
    /\ Write(c, [Latest(c) EXCEPT !.spec = Len(versions[c]) + 1])
    /\ UNCHANGED <<nodeState, suspect, holder, mgr>>

DeleteCR(c) ==
    /\ Change
    /\ Latest(c).present
    /\ Write(c, Absent)
    /\ suspect' = [suspect EXCEPT ![c] = FALSE]
    /\ UNCHANGED <<nodeState, holder, mgr>>

\* The informer of m takes in a later version (a relist may skip some).
WatchDeliver(m, c, v) ==
    /\ cache[m][c] < v /\ v <= Len(versions[c])
    /\ cache' = [cache EXCEPT ![m][c] = v]
    /\ UNCHANGED <<nodeState, api, holder, elector, loop, todo, copyObj, budget>>

(***************************************************************************)
(* Leader election (leaderelection.RunOrDie with a ConfigMap lock).        *)
(***************************************************************************)
Lead(m) ==
    /\ elector[m] = "standby"
    /\ holder' = m
    /\ elector' = [elector EXCEPT ![m] = "leader"]
    /\ loop' = [loop EXCEPT ![m] = "select"]
    /\ UNCHANGED <<nodeState, api, cache, todo, copyObj>>

\* The lock is free, is still ours from before a restart, or its holder is
\* no longer renewing it.
Acquire(m) ==
    /\ \/ holder \in {NoManager, m}
       \/ holder \in Manager /\ elector[holder] # "leader"
    /\ Lead(m)
    /\ UNCHANGED budget

\* The holder was too slow to renew: it still believes that it leads.
TakeOver(m) ==
    /\ holder \in Manager \ {m} /\ elector[holder] = "leader"
    /\ Lead(m)
    /\ Fault

\* renew gives up, or a signal cancels its context; it releases the lock if it
\* is still held.  The loop's context is cancelled, the loop not waited for.
Lose(m) ==
    /\ elector[m] = "leader"
    /\ IF holder = m THEN holder' = NoManager /\ Fault
                     ELSE UNCHANGED <<holder, budget>>
    /\ elector' = [elector EXCEPT ![m] = "lost"]
    /\ UNCHANGED <<nodeState, api, cache, loop, todo, copyObj>>

Restart(m) ==
    /\ elector' = [elector EXCEPT ![m] = "standby"]
    /\ cache' = [cache EXCEPT ![m] = [c \in CR |-> 1]]
    /\ loop' = [loop EXCEPT ![m] = "off"]
    /\ todo' = [todo EXCEPT ![m] = {}]
    /\ copyObj' = [copyObj EXCEPT ![m] = NoCopy]
    /\ UNCHANGED <<nodeState, api, holder>>

\* RunOrDie returned: the process ends, and its pod starts a new one.
Exit(m) == elector[m] = "lost" /\ Restart(m) /\ UNCHANGED budget

Crash(m) == elector[m] # "lost" /\ Fault /\ Restart(m)

(***************************************************************************)
(* The OnStartedLeading loop.                                              *)
(***************************************************************************)
\* The ticker fires and the lister lists the cache.  select may take this
\* case although the context is cancelled.
Tick(m) ==
    /\ loop[m] = "select"
    /\ loop' = [loop EXCEPT ![m] = "range"]
    /\ todo' = [todo EXCEPT ![m] =
           {<<c, cache[m][c]>> : c \in {d \in CR : versions[d][cache[m][d]].present}}]
    /\ UNCHANGED <<nodeState, api, holder, elector, cache, copyObj, budget>>

Stop(m) ==
    /\ loop[m] = "select" /\ elector[m] = "lost"
    /\ loop' = [loop EXCEPT ![m] = "off"]
    /\ UNCHANGED <<nodeState, api, holder, elector, cache, todo, copyObj, budget>>

\* The next object of the range gets its gateway ...
Choose(m) ==
    /\ loop[m] = "range"
    /\ \E p \in todo[m], gw \in Node \union {NoNode}, ip \in IP \union {NoIP} :
           /\ chooseGatewayNode(versions[p[1]][p[2]], gw, ip)
           /\ todo' = [todo EXCEPT ![m] = @ \ {p}]
           /\ copyObj' = [copyObj EXCEPT ![m] =
                  [cr |-> p[1], base |-> p[2], gw |-> gw, ip |-> ip]]
    /\ loop' = [loop EXCEPT ![m] = "update"]
    /\ UNCHANGED <<nodeState, api, holder, elector, cache, budget>>

\* ... or is passed over: no node to choose, or the list request failed.
ChooseFails(m) ==
    /\ loop[m] = "range"
    /\ \E p \in todo[m] :
           /\ \/ chooseGatewayNodeFails(versions[p[1]][p[2]]) /\ UNCHANGED budget
              \/ Fault
           /\ todo' = [todo EXCEPT ![m] = @ \ {p}]
    /\ UNCHANGED <<nodeState, api, holder, elector, cache, loop, copyObj>>

\* Mutant: the object is sent without its resourceVersion, so nothing is compared.
AcceptsAlways(c, base) == TRUE

\* The server accepts a write only on top of the version it was copied from.
Accepts(c, base) == base = Len(versions[c])

\* The object m writes: the whole copied object with its new status.
Written(k) == [versions[k.cr][k.base] EXCEPT !.gw = k.gw, !.ip = k.ip]

\* An accepted write that changes nothing makes no new version.
Update(m) ==
    /\ loop[m] = "update"
    /\ LET k == copyObj[m]
       IN  IF Accepts(k.cr, k.base) /\ Written(k) # Latest(k.cr)
           THEN /\ Write(k.cr, Written(k))
                /\ suspect' = [suspect EXCEPT ![k.cr] =
                       ~Ready(k.gw) \/ (@ /\ k.gw = Latest(k.cr).gw)]
           ELSE UNCHANGED api
    /\ loop' = [loop EXCEPT ![m] = "range"]
    /\ copyObj' = [copyObj EXCEPT ![m] = NoCopy]
    /\ UNCHANGED <<nodeState, holder, elector, cache, todo, budget>>

\* The request fails on its way; the error is only logged.
UpdateFails(m) ==
    /\ loop[m] = "update"
    /\ Fault
    /\ loop' = [loop EXCEPT ![m] = "range"]
    /\ copyObj' = [copyObj EXCEPT ![m] = NoCopy]
    /\ UNCHANGED <<nodeState, api, holder, elector, cache, todo>>

RangeDone(m) ==
    /\ loop[m] = "range" /\ todo[m] = {}
    /\ loop' = [loop EXCEPT ![m] = "select"]
    /\ UNCHANGED <<nodeState, api, holder, elector, cache, todo, copyObj, budget>>

-----------------------------------------------------------------------------
Init ==
    /\ nodeState \in [Node -> {"joining", "ready", "notReady"}]
    /\ versions = [c \in CR |-> <<Absent>>]
    /\ holder = NoManager
    /\ elector = [m \in Manager |-> "standby"]
    /\ cache = [m \in Manager |-> [c \in CR |-> 1]]
    /\ loop = [m \in Manager |-> "off"]
    /\ todo = [m \in Manager |-> {}]
    /\ copyObj = [m \in Manager |-> NoCopy]
    /\ suspect = [c \in CR |-> FALSE]
    /\ changes = 0 /\ faults = 0

Environment ==
    \/ \E n \in Node : \E s \in {"ready", "notReady", "gone"} : NodeChange(n, s)
    \/ \E c \in CR : CreateCR(c)
    \/ \E c \in CR : EditSpec(c)
    \/ \E c \in CR : DeleteCR(c)

Election(m) ==
    \/ Acquire(m)
    \/ TakeOver(m)
    \/ Lose(m)
    \/ Exit(m)
    \/ Crash(m)

Leading(m) ==
    \/ Tick(m)
    \/ Stop(m)
    \/ Choose(m)
    \/ ChooseFails(m)
    \/ Update(m)
    \/ UpdateFails(m)
    \/ RangeDone(m)

Deliver(m) == \E c \in CR : \E v \in 1..Len(versions[c]) : WatchDeliver(m, c, v)

Next ==
    \/ Environment
    \/ \E m \in Manager : Election(m) \/ Leading(m) \/ Deliver(m)

Spec == Init /\ [][Next]_vars

\* The scheduler runs every goroutine, the ticker ticks, watches deliver and
\* requests return; faults are bounded, so requests do not fail for ever.
Fairness ==
    \A m \in Manager :
        /\ WF_vars(Acquire(m))
        /\ WF_vars(holder # m /\ Lose(m))
        /\ WF_vars(Exit(m))
        /\ WF_vars(Leading(m))
        /\ WF_vars(Deliver(m))

FairSpec == Spec /\ Fairness

(***************************************************************************)
(* Properties.                                                             *)
(***************************************************************************)
\* The shape of the state.  A write under way always carries a node and an
\* address: an error of chooseGatewayNode never gets as far as Update.
TypeOK ==
    /\ nodeState \in [Node -> {"joining", "ready", "notReady", "gone"}]
    /\ versions \in [CR -> Seq(Object)]
    /\ \A c \in CR : Len(versions[c]) > 0
    /\ holder \in Manager \union {NoManager}
    /\ elector \in [Manager -> {"standby", "leader", "lost"}]
    /\ cache \in [Manager -> [CR -> Nat]]
    /\ \A m \in Manager, c \in CR : cache[m][c] \in 1..Len(versions[c])
    /\ loop \in [Manager -> {"off", "select", "range", "update"}]
    /\ todo \in [Manager -> SUBSET (CR \X Nat)]
    /\ \A m \in Manager : \A p \in todo[m] : p[2] \in 1..Len(versions[p[1]])
    /\ copyObj \in [Manager -> Copy \union {NoCopy}]
    /\ \A m \in Manager : loop[m] = "update" =>
           /\ copyObj[m] \in Copy
           /\ copyObj[m].base \in 1..Len(versions[copyObj[m].cr])
    /\ suspect \in [CR -> BOOLEAN]
    /\ changes \in Nat /\ faults \in Nat

NamesOneNode(o) == o.gw # NoNode => o.ip = NodeIP[o.gw] /\ o.ip # NoIP

\* GatewayNode and GatewayIP, which the directors and the gateway read apart
\* from each other, always name the same node, whichever leaders, stale
\* copies and restarts produced the object.
StatusNamesOneNode == \A c \in CR : NamesOneNode(Latest(c))

\* The manager writes whole objects from a cache that may be stale, and two
\* leaders may do so at once: a user's spec never goes back to an earlier one,
\* and a deleted object never comes back with a status.
SpecNeverReverts ==
    \A c \in CR :
        /\ Latest(c).present /\ Latest(c)'.present
              => Latest(c)'.spec >= Latest(c).spec
        /\ ~Latest(c).present /\ Latest(c)'.present => Latest(c)'.gw = NoNode

NoLostEdit == [][SpecNeverReverts]_vars

\* "Current gateway node is ready so keeping same node as gateway": as long as
\* the object exists its gateway is taken away only if the node has been
\* unready or gone at some moment since it was assigned, also across a change
\* of leader.
GatewayMovesOnlyIfSuspect ==
    \A c \in CR :
        Latest(c).present /\ Latest(c)'.present /\ Latest(c).gw # NoNode
            /\ Latest(c)'.gw # Latest(c).gw => suspect[c]

StickyGateway == [][GatewayMovesOnlyIfSuspect]_vars

\* A StaticEgressIP that exists for good ends up with a gateway that is ready,
\* provided the node listed last ends up a ready, non-master node with an
\* address: detection of the failure, election of a new leader and the write
\* through stale caches all get done.
ElectableLast == \E n \in readyNodes : LastListed(n) /\ NodeIP[n] # NoIP

HasReadyGateway(c) == Latest(c).gw \in Listed /\ Ready(Latest(c).gw)

FailoverHappens ==
    \A c \in CR :
        <>[](Latest(c).present /\ ElectableLast) => <>[]HasReadyGateway(c)

\* "automatically detects node failures and elects new node gateway node": one
\* ready non-master node is enough, whatever its place in the list.
DetectsNodeFailures ==
    \A c \in CR :
        <>[](Latest(c).present /\ \E n \in readyNodes : NodeIP[n] # NoIP)
            => <>[]HasReadyGateway(c)

\* Overlapping leaders that write whole objects from stale copies implement an
\* assignment in which every write is one step on top of the current object.
Assignment ==
    INSTANCE GatewayAssignment WITH object <- [c \in CR |-> Latest(c)]

ImplementsAssignment == Assignment!Spec

\* "any code you have that is protected by the lease must terminate **before**
\* you call cancel": as long as the loop of a replica whose context is cancelled
\* is in the middle of a round, nobody else is elected.
LoopEndsBeforeLease ==
    \A m \in Manager :
        elector[m] = "lost" /\ loop[m] \in {"range", "update"}
            => holder \in {m, NoManager}
=============================================================================
