-------------------------- MODULE EgressController --------------------------
(***************************************************************************)
(* The static egress IP controller of one node (pkg/controller, with       *)
(* pkg/director and pkg/gateway): informer caches, the event handlers that *)
(* one goroutine runs in turn, the rate-limited work queue, the workers,   *)
(* and the node's network configuration, which outlives the process.       *)
(*                                                                         *)
(* GatewayIP of an object is the address of its GatewayNode (theorem       *)
(* StatusCorrect of GatewayManagerProofs), so the two are one field here.  *)
(***************************************************************************)
EXTENDS RuleProcessing, FiniteSets

CONSTANTS
    Key,          \* StaticEgressIP objects, named by namespace/name
    Node,
    Self,         \* the node this controller runs on
    Pod,          \* endpoint addresses
    Service,
    Specs,        \* specs users write: sequences of [svc, dst, eip] rules
    Endpoints,    \* the addresses a service may have: sequences of pods, or
    NoEndpoints,  \* none, as there is no Endpoints object
    Worker,       \* the goroutines of runWorker
    Handler,      \* the goroutine that runs the event handlers
    MaxChanges,   \* bound on what users, the manager and services do
    MaxFaults     \* bound on crashes and failing commands and requests

ASSUME KeyAssumption == IsFiniteSet(Key) /\ None \notin Key
ASSUME NodeAssumption == Self \in Node /\ NoNode \notin Node
ASSUME HostAssumption == Host \in [Pod -> Node \union {NoNode}]
ASSUME EndpointsAssumption ==
    Endpoints \subseteq Seq(Pod) \union {NoEndpoints} /\ NoEndpoints \notin Seq(Pod)
ASSUME SpecsAssumption ==
    \A spec \in Specs : Len(spec) \in Nat /\ \A i \in 1..Len(spec) : spec[i].svc \in Service
ASSUME ThreadAssumption == Handler \notin Worker
ASSUME BoundAssumption == MaxChanges \in Nat /\ MaxFaults \in Nat

VARIABLES
    object,      \* object[k] in the API server
    endpoints,   \* endpoints[s] in the API server
    cache,       \* the informer's store of StaticEgressIPs
    epCache,     \* the informer's store of Endpoints
    listed,      \* egressIPsSynced
    up,          \* Run has set up the node and started the workers
    notify,      \* the notifications the handler goroutine has not taken yet
    delayed,     \* keys AddRateLimited has not put into the queue yet
    dirty,       \* keys that need a sync, in the queue unless being processed
    processing,  \* keys a worker has taken and not marked Done
    thread,      \* what the handler and each worker are doing
    K,           \* the network configuration of the node
    seen,        \* history: the object last read by a sync that still counts
    disturbed,   \* history: keys of which a job met another job or was broken off
    gone,        \* history: gone[k], the rules whose deletion is done and holds
    changes,
    faults

api == <<object, endpoints>>
informer == <<cache, epCache, listed, notify>>
queue == <<delayed, dirty, processing>>
history == <<seen, disturbed, gone>>
budget == <<changes, faults>>
vars == <<object, endpoints, cache, epCache, listed, up, notify, delayed, dirty,
          processing, thread, K, seen, disturbed, gone, changes, faults>>

Thread == Worker \union {Handler}

Absent == [present |-> FALSE, rules |-> <<>>, gw |-> NoNode]

Present == [present : {TRUE}, rules : Specs, gw : Node \union {NoNode}]

Object == Present \union {Absent}

\* The record of a goroutine that has not read an object: with no work, or with
\* the key it has got from the queue.
Blank(stage, key) == [stage |-> stage, key |-> key, kind |-> "none", obj |-> Absent,
                      rule |-> 0, calls |-> <<>>]

Idle == Blank("idle", None)

Change == changes < MaxChanges /\ changes' = changes + 1 /\ UNCHANGED faults

Fault == faults < MaxFaults /\ faults' = faults + 1 /\ UNCHANGED changes

(***************************************************************************)
(* The environment: users, the gateway manager and services.               *)
(***************************************************************************)
ChangeObject(k, o) ==
    /\ Change
    /\ \/ ~object[k].present /\ o.present /\ o.gw = NoNode      \* created
       \/ object[k].present /\ o.present /\ o.gw = object[k].gw \* edited
       \/ object[k].present /\ o.present /\ o.gw # NoNode       \* assigned
              /\ o.rules = object[k].rules
       \/ object[k].present /\ ~o.present                       \* deleted
    /\ o # object[k]
    /\ object' = [object EXCEPT ![k] = o]
    /\ UNCHANGED <<endpoints, informer, up, queue, thread, K, history>>

ChangeEndpoints(s, e) ==
    /\ Change
    /\ e # endpoints[s]
    /\ endpoints' = [endpoints EXCEPT ![s] = e]
    /\ UNCHANGED <<object, informer, up, queue, thread, K, history>>

(***************************************************************************)
(* Informers.  The store is updated before the handlers are notified.      *)
(***************************************************************************)
Notification(k, old, new) == [key |-> k, old |-> old, new |-> new]

\* The orders in which a list may give the elements of S.
Orders(S) == {f \in [1..Cardinality(S) -> S] : \A x \in S : \E i \in DOMAIN f : f[i] = x}

List ==
    /\ ~listed
    /\ listed' = TRUE
    /\ cache' = object
    /\ \E order \in Orders({k \in Key : object[k].present}) :
           notify' = [i \in DOMAIN order |->
                          Notification(order[i], Absent, object[order[i]])]
    /\ UNCHANGED <<api, epCache, up, queue, thread, K, history, budget>>

Observe(k) ==
    /\ listed /\ cache[k] # object[k]
    /\ cache' = [cache EXCEPT ![k] = object[k]]
    /\ notify' = Append(notify, Notification(k, cache[k], object[k]))
    /\ UNCHANGED <<api, epCache, listed, up, queue, thread, K, history, budget>>

\* Mutant: the informer factory is made with a resync period of zero.
ResyncNever(k) == FALSE /\ k \in Key /\ UNCHANGED vars

\* Every 30 seconds the handlers are told of every object again.
Resync(k) ==
    /\ listed /\ cache[k].present
    /\ notify = <<>>
    /\ notify' = <<Notification(k, cache[k], cache[k])>>
    /\ UNCHANGED <<api, cache, epCache, listed, up, queue, thread, K, history, budget>>

\* Nobody handles events of Endpoints.
ObserveEndpoints(s) ==
    /\ epCache[s] # endpoints[s]
    /\ epCache' = [epCache EXCEPT ![s] = endpoints[s]]
    /\ UNCHANGED <<api, cache, listed, up, notify, queue, thread, K, history, budget>>

(***************************************************************************)
(* The process.                                                            *)
(***************************************************************************)
\* Run waits for the StaticEgressIPs to be listed, not for the Endpoints.
Start ==
    /\ ~up /\ listed
    /\ up' = TRUE
    /\ UNCHANGED <<api, informer, queue, thread, K, history, budget>>

\* Goroutine t runs the commands of a sync or a cleanup of k.
Busy(t, k) == thread[t].key = k /\ thread[t].kind \notin {"none", "other"}

\* The process ends, by a crash or a panic, and is started again.
Restart ==
    /\ cache' = [k \in Key |-> Absent]
    /\ epCache' = [s \in Service |-> NoEndpoints]
    /\ listed' = FALSE /\ up' = FALSE
    /\ notify' = <<>>
    /\ delayed' = {} /\ dirty' = {} /\ processing' = {}
    /\ thread' = [t \in Thread |-> Idle]
    /\ seen' = [k \in Key |-> Absent]
    /\ disturbed' = disturbed \union {k \in Key : \E t \in Thread : Busy(t, k)}
    /\ UNCHANGED <<api, gone>>

Crash == Fault /\ Restart /\ UNCHANGED K

(***************************************************************************)
(* Steps the handler and the workers share.                                *)
(***************************************************************************)
RulesLeft(t) == thread[t].stage = "rules" /\ thread[t].calls = <<>>
                    /\ thread[t].rule <= Len(thread[t].obj.rules)

RulesDone(t) == thread[t].stage = "rules" /\ thread[t].calls = <<>>
                    /\ thread[t].rule > Len(thread[t].obj.rules)

\* The jobs that ask for the endpoints of each rule's service.
Addresses(t) ==
    IF thread[t].kind = "delete" THEN <<>>
    ELSE epCache[thread[t].obj.rules[thread[t].rule].svc]

\* Before Run has made them, the director and the gateway are nil pointers.
NilPointer(t) == ~up /\ thread[t].kind \in {"demote", "promote", "delete"}

LoadRule(t) ==
    /\ RulesLeft(t) /\ ~NilPointer(t) /\ Addresses(t) # NoEndpoints
    /\ \E lost \in SUBSET (IF thread[t].kind = "gateway" THEN ToSet(Addresses(t))
                                                         ELSE {}) :
           /\ IF lost = {} THEN UNCHANGED budget ELSE Fault
           /\ thread' = [thread EXCEPT
                  ![t].calls = RuleCalls(Self, thread[t], Addresses(t), lost),
                  ![t].rule = @ + 1]
    /\ UNCHANGED <<api, informer, up, queue, K, history>>

\* The command a goroutine runs next.
Ahead(t) == IF thread[t].calls = <<>> THEN Cmd("none", None, None, None)
            ELSE Head(Head(thread[t].calls).cmds)

\* A nil pointer is dereferenced: the endpoints that were not found, the name of
\* an endpoint's node, or the director or gateway (a delete has created its set
\* by then).
Panic(t) ==
    /\ \/ RulesLeft(t) /\ (NilPointer(t) \/ Addresses(t) = NoEndpoints)
       \/ Ahead(t).op = "nodeName"
    /\ K' = IF thread[t].kind # "delete" THEN K
            ELSE LET new == NewSet(generateRuleId(thread[t].key, thread[t].rule))
                 IN  Effect(Effect(K, new[1]), new[2])
    /\ Restart
    /\ UNCHANGED budget

\* One command; its failure ends the call, or the whole sync.
CallFails(t) ==
    thread' = [thread EXCEPT
        ![t].calls = IF Head(@).fatal THEN <<>> ELSE Tail(@),
        ![t].stage = IF Head(thread[t].calls).fatal THEN "failed" ELSE @]

\* A director's call that ends early, or any command that fails for a reason of
\* its own, leaves a job half done.
Exec(t) ==
    /\ thread[t].calls # <<>> /\ Ahead(t).op # "nodeName"
    /\ \/ /\ Fails(K, Ahead(t))
          /\ CallFails(t)
          /\ disturbed' = IF thread[t].kind = "director"
                          THEN disturbed \union {thread[t].key} ELSE disturbed
          /\ UNCHANGED K
       \/ /\ ~Fails(K, Ahead(t))
          /\ K' = Effect(K, Ahead(t))
          /\ thread' = [thread EXCEPT ![t].calls =
                 Rest(@, IF Skips(K, Ahead(t)) THEN 2 ELSE 1)]
          /\ UNCHANGED disturbed
    /\ UNCHANGED <<api, informer, up, queue, seen, gone, budget>>

ExecFault(t) ==
    /\ thread[t].calls # <<>> /\ Ahead(t).op # "nodeName"
    /\ Fault
    /\ CallFails(t)
    /\ disturbed' = disturbed \union {thread[t].key}
    /\ UNCHANGED <<api, informer, up, queue, K, seen, gone>>

(***************************************************************************)
(* addStaticEgressIP, updateStaticEgressIP, deleteStaticEgressIP.          *)
(***************************************************************************)
\* The node lookups of an update may fail, and then count as "not this node".
HandlerTake ==
    /\ thread[Handler] = Idle /\ notify # <<>>
    /\ notify' = Tail(notify)
    /\ LET ev == Head(notify)
           kind == Cleanup(Self, ev.old, ev.new)
       IN  \E did \in {kind, "other"} :
               /\ IF did = kind THEN UNCHANGED budget
                  ELSE kind \in {"demote", "promote"} /\ Fault
               /\ thread' = [thread EXCEPT ![Handler] =
                      [stage |-> "rules", key |-> ev.key, kind |-> did,
                       obj |-> ev.old, calls |-> <<>>,
                       rule |-> IF did = "none" THEN Len(ev.old.rules) + 1 ELSE 1]]
               /\ disturbed' = IF did \notin {"none", "other"}
                                  /\ \E w \in Worker : Busy(w, ev.key)
                               THEN disturbed \union {ev.key} ELSE disturbed
    /\ UNCHANGED <<api, cache, epCache, listed, up, queue, K, seen, gone>>

\* Mutant: the object is put into the queue, not its key.
EnqueueObject(k) == delayed' = delayed \union {cache[k]}

\* AddRateLimited.
Enqueue(k) == delayed' = delayed \union {k}

\* The last statement of every handler.  What a cleanup took away has to be
\* put back by a sync that starts later.
HandlerDone ==
    /\ RulesDone(Handler)
    /\ Enqueue(thread[Handler].key)
    /\ seen' = IF thread[Handler].kind = "none" THEN seen
               ELSE [seen EXCEPT ![thread[Handler].key] = Absent]
    /\ gone' = IF thread[Handler].kind = "delete" /\ thread[Handler].key \notin disturbed
               THEN [gone EXCEPT ![thread[Handler].key] = thread[Handler].obj.rules]
               ELSE gone
    /\ thread' = [thread EXCEPT ![Handler] = Idle]
    /\ UNCHANGED <<api, informer, up, dirty, processing, K, disturbed, budget>>

(***************************************************************************)
(* The queue and processNextWorkItem.                                      *)
(***************************************************************************)
Ripen(k) ==
    /\ k \in delayed
    /\ delayed' = delayed \ {k} /\ dirty' = dirty \union {k}
    /\ UNCHANGED <<api, informer, up, processing, thread, K, history, budget>>

\* Mutant: a key that is being processed is handed out again.
QueuedOrProcessing == dirty

Queued == dirty \ processing

Get(w, k) ==
    /\ up /\ thread[w] = Idle /\ k \in Queued
    /\ dirty' = dirty \ {k} /\ processing' = processing \union {k}
    /\ thread' = [thread EXCEPT ![w] = Blank("got", k)]
    /\ UNCHANGED <<api, informer, up, delayed, K, history, budget>>

syncHandler(w) ==
    /\ thread[w].stage = "got"
    /\ LET k == thread[w].key
           o == cache[k]
           kind == SyncKind(Self, o)
       IN  /\ thread' = [thread EXCEPT ![w] =
                  [stage |-> "rules", key |-> k, kind |-> kind, obj |-> o, calls |-> <<>>,
                   rule |-> IF kind = "none" THEN Len(o.rules) + 1 ELSE 1]]
           /\ seen' = [seen EXCEPT ![k] = o]
           /\ disturbed' = IF kind # "none" /\ Busy(Handler, k)
                           THEN disturbed \union {k} ELSE disturbed
           /\ gone' = IF kind = "none" THEN gone ELSE [gone EXCEPT ![k] = <<>>]
    /\ UNCHANGED <<api, informer, up, queue, K, budget>>

\* isEgressGateway fails.
LookupFails(w) ==
    /\ thread[w].stage = "got" /\ cache[thread[w].key].gw # NoNode
    /\ Fault
    /\ thread' = [thread EXCEPT ![w].stage = "failed"]
    /\ UNCHANGED <<api, informer, up, queue, K, history>>

\* Mutant: a failed sync is forgotten.
DoneForget(w) ==
    /\ delayed' = delayed
    /\ seen' = IF thread[w].stage = "failed"
               THEN [seen EXCEPT ![thread[w].key] = Absent] ELSE seen

\* A failed sync is put back, any other one is forgotten.
ForgetOrRetry(w) ==
    IF thread[w].stage = "failed"
    THEN /\ delayed' = delayed \union {thread[w].key}
         /\ seen' = [seen EXCEPT ![thread[w].key] = Absent]
    ELSE UNCHANGED <<delayed, seen>>

Done(w) ==
    /\ RulesDone(w) \/ thread[w].stage = "failed"
    /\ ForgetOrRetry(w)
    /\ processing' = processing \ {thread[w].key}
    /\ thread' = [thread EXCEPT ![w] = Idle]
    /\ UNCHANGED <<api, informer, up, dirty, K, disturbed, gone, budget>>

-----------------------------------------------------------------------------
\* The controller starts on a node of a cluster that is already in use.
Init ==
    /\ object \in [Key -> Object]
    /\ endpoints \in [Service -> Endpoints]
    /\ cache = [k \in Key |-> Absent]
    /\ epCache = [s \in Service |-> NoEndpoints]
    /\ listed = FALSE /\ up = FALSE
    /\ notify = <<>>
    /\ delayed = {} /\ dirty = {} /\ processing = {}
    /\ thread = [t \in Thread |-> Idle]
    /\ K = EmptyKernel
    /\ seen = [k \in Key |-> Absent]
    /\ disturbed = {} /\ gone = [k \in Key |-> <<>>]
    /\ changes = 0 /\ faults = 0

Environment ==
    \/ \E k \in Key : \E o \in Object : ChangeObject(k, o)
    \/ \E s \in Service : \E e \in Endpoints : ChangeEndpoints(s, e)

Informers ==
    \/ List
    \/ \E k \in Key : Observe(k)
    \/ \E k \in Key : Resync(k)
    \/ \E s \in Service : ObserveEndpoints(s)

Running(t) ==
    \/ LoadRule(t)
    \/ Panic(t)
    \/ Exec(t)
    \/ ExecFault(t)

Handling == Running(Handler) \/ HandlerTake \/ HandlerDone

Working(w) ==
    \/ Running(w)
    \/ \E k \in Key : Get(w, k)
    \/ syncHandler(w)
    \/ LookupFails(w)
    \/ Done(w)

Next ==
    \/ Environment
    \/ Informers
    \/ Start
    \/ Crash
    \/ Handling
    \/ \E k \in Key : Ripen(k)
    \/ \E w \in Worker : Working(w)

Spec == Init /\ [][Next]_vars

\* Watches deliver, the resync timer fires, rate-limited keys become due, the
\* queue is first in, first out, the scheduler runs every goroutine and the
\* process is started again.
Fairness ==
    /\ WF_vars(List) /\ WF_vars(Start) /\ WF_vars(Handling)
    /\ \A k \in Key : /\ WF_vars(Observe(k)) /\ WF_vars(Ripen(k))
                      /\ SF_vars(Resync(k)) /\ SF_vars(\E w \in Worker : Get(w, k))
    /\ \A s \in Service : WF_vars(ObserveEndpoints(s))
    /\ \A w \in Worker : WF_vars(Working(w))

FairSpec == Spec /\ Fairness

(***************************************************************************)
(* Properties.                                                             *)
(***************************************************************************)
\* The shape of the control state.
ThreadsOK ==
    \A t \in Thread : /\ thread[t].stage \in {"idle", "got", "rules", "failed"}
                      /\ thread[t].stage = "idle" => thread[t] = Idle
                      /\ thread[t].stage # "idle" => thread[t].key \in Key
                      /\ thread[t].obj \in Object

TypeOK ==
    /\ object \in [Key -> Object] /\ cache \in [Key -> Object]
    /\ seen \in [Key -> Object]
    /\ endpoints \in [Service -> Endpoints]
    /\ epCache \in [Service -> Endpoints \union {NoEndpoints}]
    /\ listed \in BOOLEAN /\ up \in BOOLEAN
    /\ notify \in Seq([key : Key, old : Object, new : Object])
    /\ delayed \subseteq Key /\ dirty \subseteq Key /\ processing \subseteq Key
    /\ ThreadsOK
    /\ disturbed \subseteq Key /\ gone \in [Key -> Specs \union {<<>>}]
    /\ changes \in Nat /\ faults \in Nat

\* The keys that are on their way to a sync that will read the store.
Pending ==
    delayed \union dirty \union {notify[i].key : i \in 1..Len(notify)}
        \union {thread[t].key : t \in {Handler} \union
                                      {w \in Worker : thread[w].stage \in {"got", "failed"}}}

\* No change is forgotten: an object whose current state has not been read by
\* a sync since its last change, its last cleanup or its last failed sync is on
\* its way to one.
NoLostUpdate ==
    \A k \in Key : cache[k].present /\ cache[k] # seen[k] => k \in Pending

\* Two workers never process the same object at once, although it may be
\* enqueued again while it is processed: one would flush the set the other fills.
OneSyncPerKey ==
    \A v, w \in Worker :
        v # w /\ thread[v].stage # "idle" => thread[v].key # thread[w].key

\* No two objects are one text to generateRuleId.
NamesApart == \A j, k \in Key : FullName[j] = FullName[k] => j = k

\* No destination or tunnel name is a part of another: what strings.Contains
\* finds in a list of routes or links is what is meant.
TextsApart == \A x \in Shown \union AddrShown \union TunnelShown : x[1] = x[2]

\* However often objects are synced again, and although insertRule looks for the
\* rule and inserts it in two commands, the NAT chain holds each rule once: while
\* a worker is between the two, no other one comes to insert the same rule.
SnatOnce ==
    \A i, j \in 1..Len(K.snat) : i # j => K.snat[i] # K.snat[j]

\* When the deletion of an object has been handled, and no sync in flight met it
\* and no command failed for a reason of its own, the node has let go of its pods:
\* the sets of its rules are empty, whatever SNAT and forward rules still name
\* them, and nothing marks or bypasses for its destinations; until an object of
\* that name is synced again.
Released(s, r) ==
    /\ \A m \in K.member : m[1] # s
    /\ <<s, r.dst>> \notin K.mark \union K.bypass

DeletionReleases ==
    \A k \in Key : \A i \in 1..Len(gone[k]) : Released(generateRuleId(k, i), gone[k][i])

\* A bypass lets packets out with the pod's address unless they are redirected
\* before.  AddRouteToGateway writes it before tunnel and route and
\* ClearStaleRouteToGateway takes it away after the mark, so there are moments of
\* that; but when no goroutine is at work on the object, and none was disturbed,
\* every bypass rule has its mark and a route into a tunnel that is up.
Redirected(b) == b \in K.mark /\ \E r \in K.route : r[1] = b[2] /\ r[2] \in K.up

BypassRedirects ==
    \A k \in Key \ disturbed :
        (\A t \in Thread : ~Busy(t, k))
            => \A b \in K.bypass : b[1][1] = FullName[k] => Redirected(b)

\* What a node has to have for rule i of object k in its role.
GatewayConfigured(s, r) ==
    /\ <<s, r.dst>> \in K.forward
    /\ <<s, r.dst, r.eip>> \in ToSet(K.snat)
    /\ <<r.dst, r.eip>> \in K.retmark /\ r.eip \in K.addr
    /\ \A p \in ToSet(endpoints[r.svc]) : Host[p] # Self => RouteShown(K, p)

DirectorConfigured(s, r) ==
    /\ <<s, r.dst>> \in K.mark /\ <<s, r.dst>> \in K.bypass
    /\ RouteOrAddrShown(K, r.dst)

Configured(k) ==
    \A i \in 1..Len(object[k].rules) :
        LET r == object[k].rules[i]
            s == generateRuleId(k, i)
        IN  /\ {p \in Pod : <<s, p>> \in K.member} = ToSet(endpoints[r.svc])
            /\ IF object[k].gw = Self THEN GatewayConfigured(s, r)
                                      ELSE DirectorConfigured(s, r)

Usable(k) ==
    /\ object[k].present /\ object[k].gw # NoNode
    /\ \A i \in 1..Len(object[k].rules) :
           LET pods == endpoints[object[k].rules[i].svc]
           IN  pods # NoEndpoints /\ \A p \in ToSet(pods) : Host[p] # NoNode

\* Once an object has a gateway and its services have endpoints for good, each on
\* a node, the controller gets to the configuration of its role again and again, after every
\* change of role, endpoints that nobody is notified of, failed commands whose
\* error is only logged, and restarts.  (Not for ever: each resync flushes the
\* sets before it fills them.)
Converges == \A k \in Key : <>[]Usable(k) => []<>Configured(k)

\* "adds a routes on the director node to redirect traffic [...] to be directed
\* to egress gateway node": once the gateway stays, the route of a director
\* leads to it.
RouteLeadsToGateway(k) ==
    \A i \in 1..Len(object[k].rules) :
        object[k].gw # Self => <<object[k].rules[i].dst, object[k].gw>> \in K.route

RouteFollowsGateway == \A k \in Key : <>[]Usable(k) => []<>RouteLeadsToGateway(k)

\* "DeleteRouteToGateway removes the route routes on the director node": when it
\* has come past the route to its last step, the destruction of the set, and no
\* worker syncs the object, there is no route to the rule's destination any more.
DeleteRemovesRoute ==
    LET job == thread[Handler]
    IN  (/\ job.kind = "delete" /\ job.key \notin processing
         /\ job.calls # <<>>
         /\ Head(Head(job.calls).cmds).op = "destroy")
        => \A r \in K.route : r[1] # job.obj.rules[job.rule - 1].dst

\* "Wait for the caches to be synced before starting workers": no worker looks
\* for the endpoints of a service that exists and does not find them.
WorkersStartSynced ==
    \A w \in Worker :
        RulesLeft(w) /\ Addresses(w) = NoEndpoints
            => endpoints[thread[w].obj.rules[thread[w].rule].svc] = NoEndpoints

\* "create a tunnel interface to gateway node if does not exist": when
\* AddRouteToGateway comes to make the tunnel there is none, and when it comes to
\* bring it up there is one.  (Otherwise the command fails, the error is logged,
\* and the rest of the call, the route, is not done before the next resync.)
TunnelEnsured ==
    \A w \in Worker :
        thread[w].kind = "director" /\ Ahead(w).op \in {"tunnelAdd", "linkUp"}
            => ~Fails(K, Ahead(w))

\* "add routing entry in custom routing table": when a worker on the gateway has
\* seen to the paths back to the pods and comes to fill their set, there is a
\* route to each of them that is on another node.
ReturnRouteMade ==
    \A w \in Worker :
        thread[w].kind = "gateway" /\ Ahead(w).op = "create" =>
            \A c \in ToSet(Head(thread[w].calls).cmds) :
                c.op = "add" /\ Host[c.to] # Self => \E r \in K.route : r[1] = c.to

\* "a set of pods whose outbound traffic to a specified destination is always
\* SNAT'ed": a pod that is an endpoint, and whose traffic a rule catches, is
\* not let go.
CaughtStaysCaught ==
    \A k \in Key, p \in Pod :
        \A i \in 1..Len(object[k].rules) :
            LET s == generateRuleId(k, i)
            IN  (/\ object[k]' = object[k]
                 /\ p \in ToSet(endpoints[object[k].rules[i].svc])
                 /\ <<s, p>> \in K.member
                 /\ <<s, object[k].rules[i].dst>> \in K.mark)
                => <<s, p>> \in K'.member

AlwaysCaught == [][CaughtStaysCaught]_vars
=============================================================================
