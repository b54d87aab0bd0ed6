------------------------- MODULE EgressClusterProofs -------------------------
(***************************************************************************)
(* Theorems about the whole system, for any number of nodes, objects, pods *)
(* and rules, any specs and any bounds on changes and faults, and commands *)
(* of handlers and syncs in any order.                                     *)
(***************************************************************************)
EXTENDS EgressJobProofs

Notes == [key : Key, old : Objects, new : Objects]
Kinds == {"none", "demote", "promote", "delete", "other"}
Handlers == [key : Key \union {None}, kind : Kinds, calls : Seq(Calls)]

\* The API server, with what it has held before.
ApiOK ==
    /\ object \in [Key -> Objects] /\ suspect \in [Key -> BOOLEAN]
    /\ log \in [Key -> Seq(Objects)]
    /\ \A k \in Key : log[k] # <<>> /\ log[k][Len(log[k])] = object[k]

\* The informers: they have come to some place in the log, and what they hand to
\* the handlers are objects.
InformerOK ==
    /\ cache \in [Node -> [Key -> Objects]] /\ at \in [Node -> [Key -> Nat \ {0}]]
    /\ notify \in [Node -> Seq(Notes)]

\* Handlers and syncs: what is left of them are calls of the controllers.
ControllerOK ==
    /\ pending \in [Node -> SUBSET Key] /\ handler \in [Node -> Handlers]
    /\ sync \in [Node -> [Key -> Seq(Calls)]] /\ role \in [Node -> [Key -> Roles]]

\* The configuration of every node is one that every command keeps.
ConfigOK == K = [n \in Node |-> K[n]] /\ \A n \in Node : Wired(K[n])

IInv == ApiOK /\ InformerOK /\ ControllerOK /\ ConfigOK

-----------------------------------------------------------------------------
\* The two kinds of objects.
LEMMA ObjectKinds ==
    ASSUME NEW o \in Objects
    PROVE  /\ o.present \in BOOLEAN /\ o.gw \in Node \union {NoNode}
           /\ o.present => o.spec \in DOMAIN Written
           /\ ~o.present => o = Assignment!Absent
<1>1. CASE o = Assignment!Absent
  BY <1>1 DEF Assignment!Absent
<1>2. CASE o # Assignment!Absent
  <2>1. PICK v \in DOMAIN Written, n \in Node \union {NoNode} :
            o = [present |-> TRUE, spec |-> v, gw |-> n, ip |-> IF n = NoNode THEN NoIP ELSE NodeIP[n]]
    BY <1>2 DEF Objects
  <2>2. o.present = TRUE /\ o.spec = v /\ o.gw = n
    BY <2>1
  <2> QED BY <2>2
<1> QED BY <1>1, <1>2

\* An object with another gateway.
LEMMA AssignedObject ==
    ASSUME NEW o \in Objects, o.present, NEW n \in Node
    PROVE  [o EXCEPT !.gw = n, !.ip = NodeIP[n]] \in Objects
<1> DEFINE IP(m) == IF m = NoNode THEN NoIP ELSE NodeIP[m]
           Object(v, m) == [present |-> TRUE, spec |-> v, gw |-> m, ip |-> IP(m)]
<1>1. o # Assignment!Absent
  BY DEF Assignment!Absent
<1>2. PICK v \in DOMAIN Written, m \in Node \union {NoNode} : o = Object(v, m)
  BY <1>1 DEF Objects
<1>3. IP(n) = NodeIP[n]
  BY ClusterNodeAssumption
<1> HIDE DEF IP
<1>4. [o EXCEPT !.gw = n, !.ip = NodeIP[n]] = Object(v, n)
  <2> DEFINE F == {"present", "spec", "gw", "ip"}
             u == [o EXCEPT !.gw = n, !.ip = NodeIP[n]]
  <2>1. o = [f \in F |-> o[f]] /\ o.present = TRUE /\ o.spec = v
    BY <1>2
  <2>2. u = [f \in F |-> u[f]]
    BY <2>1
  <2>3. u.present = TRUE /\ u.spec = v /\ u.gw = n /\ u.ip = NodeIP[n]
    BY <2>1
  <2>4. Object(v, n) = [f \in F |-> Object(v, n)[f]]
    OBVIOUS
  <2> HIDE DEF u
  <2>5. \A f \in F : Object(v, n)[f] = u[f]
    <3>1. Object(v, n).present = u.present
      BY <2>3, Zenon
    <3>2. Object(v, n).spec = u.spec /\ Object(v, n).gw = u.gw /\ Object(v, n).ip = u.ip
      BY <1>3, <2>3
    <3> HIDE DEF Object
    <3> QED BY <3>1, <3>2
  <2> HIDE DEF Object
  <2> QED BY <2>2, <2>4, <2>5 DEF u
<1>5. Object(v, n) \in Objects
  <2>1. Objects = {Assignment!Absent} \union {Object(w, l) : w \in DOMAIN Written, l \in Node \union {NoNode}}
    BY DEF Objects, IP
  <2> HIDE DEF Object
  <2> QED BY <2>1
<1> QED BY <1>4, <1>5

\* The rules that a controller reads.
LEMMA ViewParts ==
    ASSUME NEW o \in Objects
    PROVE  /\ View(o).rules \in Seq(AllRules) /\ View(o).gw = o.gw /\ View(o).present = o.present
           /\ o.present => View(o).rules = Written[o.spec]
<1>1. View(o).gw = o.gw /\ View(o).present = o.present
  BY DEF View
<1>2. View(o).rules = IF o.present THEN Written[o.spec] ELSE <<>>
  BY DEF View
<1>3. <<>> \in Seq(AllRules)
  OBVIOUS
<1> QED BY <1>1, <1>2, <1>3, ObjectKinds, WrittenAssumption

\* A sync and a cleanup can do with that; a director has a gateway.
LEMMA Reads ==
    ASSUME NEW n \in Node, NEW o \in Objects, NEW new
    PROVE  /\ Readable(SyncKind(n, View(o)), View(o))
           /\ Readable(Cleanup(n, View(o), new), View(o))
           /\ Cleanup(n, View(o), new) \in Kinds
<1>1. PICK v : v = View(o)
  OBVIOUS
<1>2. v.rules \in Seq(AllRules) /\ v.gw \in Node \union {NoNode}
  BY <1>1, ViewParts, ObjectKinds
<1>3. SyncKind(n, v) = "director" => v.gw \in Node
  BY <1>2 DEF SyncKind
<1>4. Cleanup(n, v, new) \in Kinds /\ Cleanup(n, v, new) # "director"
  BY DEF Cleanup, RoleChange, Kinds
<1> QED BY <1>1, <1>2, <1>3, <1>4 DEF Readable

\* The calls of both are calls of the controllers.
LEMMA JobsAreCalls ==
    ASSUME NEW n \in Node, NEW k \in Key, NEW o \in Objects, NEW new
    PROVE  /\ JobCalls(n, SyncKind(n, View(o)), k, View(o)) \in Seq(Calls)
           /\ JobCalls(n, Cleanup(n, View(o), new), k, View(o)) \in Seq(Calls)
<1>1. PICK v, sy, cl : v = View(o) /\ sy = SyncKind(n, v) /\ cl = Cleanup(n, v, new)
  OBVIOUS
<1>2. Readable(sy, v) /\ Readable(cl, v)
  BY <1>1, Reads
<1>3. JobCalls(n, sy, k, v) \in Seq(SafeCalls) /\ JobCalls(n, cl, k, v) \in Seq(SafeCalls)
  BY <1>2, JobCallsSafe
<1>4. JobCalls(n, sy, k, v) \in Seq(Calls) /\ JobCalls(n, cl, k, v) \in Seq(Calls)
  BY <1>3, SafeAreCalls
<1> QED BY <1>1, <1>4

\* Waiting is a state of a handler, and no call is a list of calls.
LEMMA NoneLeft == Idle \in Handlers /\ <<>> \in Seq(Calls) /\ Assignment!Absent \in Objects
<1>1. <<>> \in Seq(Calls)
  OBVIOUS
<1>2. Idle \in Handlers
  BY <1>1 DEF Idle, Handlers, Kinds
<1> QED BY <1>1, <1>2 DEF Objects

\* A node without configuration is fine.
LEMMA EmptyWired == Wired(EmptyKernel)
<1>1. EmptyKernel.up = {} /\ EmptyKernel.tunnel = {}
  BY DEF EmptyKernel
<1> QED BY <1>1, EmptyIsKernel DEF Wired

-----------------------------------------------------------------------------
\* The invariant holds at the start.
LEMMA InitIInv == Init => IInv
<1> SUFFICES ASSUME Init PROVE IInv
  OBVIOUS
<1>1. object \in [Key -> Objects]
  BY InitialAssumption DEF Init
<1>2. ApiOK
  <2>1. ASSUME NEW k \in Key
        PROVE  log[k] \in Seq(Objects) /\ log[k] # <<>> /\ log[k][Len(log[k])] = object[k]
    <3>1. PICK o \in Objects : o = object[k]
      BY <1>1
    <3>2. log[k] = <<o>>
      BY <3>1 DEF Init
    <3> QED BY <3>1, <3>2
  <2>2. log \in [Key -> Seq(Objects)]
    <3>1. log = [k \in Key |-> <<object[k]>>]
      BY DEF Init
    <3>2. log = [k \in Key |-> log[k]]
      BY <3>1
    <3> QED BY <2>1, <3>2
  <2>3. suspect \in [Key -> BOOLEAN]
    BY DEF Init
  <2> QED BY <1>1, <2>1, <2>2, <2>3 DEF ApiOK
<1>3. InformerOK
  <2>1. \A n \in Node : notify[n] \in Seq(Notes)
    BY DEF Init
  <2> QED BY <2>1, NoneLeft DEF Init, InformerOK
<1>4. ControllerOK
  BY NoneLeft DEF Init, ControllerOK, Roles
<1>5. ConfigOK
  BY EmptyWired DEF Init, ConfigOK
<1> QED BY <1>2, <1>3, <1>4, <1>5 DEF IInv

\* A change of one object in the API server.
LEMMA PutIInv ==
    ASSUME IInv, NEW k \in Key, NEW o \in Objects, NEW s \in BOOLEAN, Put(k, o, s)
    PROVE  IInv'
<1>1. object' = [object EXCEPT ![k] = o] /\ suspect' = [suspect EXCEPT ![k] = s]
  BY DEF Put
<1>2. PICK l : l = IF o = object[k] THEN log[k] ELSE Append(log[k], o)
  OBVIOUS
<1>3. log' = [log EXCEPT ![k] = l]
  BY <1>2, Zenon DEF Put
<1>4. l \in Seq(Objects) /\ l # <<>> /\ l[Len(l)] = o
  <2>1. log[k] \in Seq(Objects) /\ log[k] # <<>> /\ log[k][Len(log[k])] = object[k]
    BY DEF IInv, ApiOK
  <2>2. CASE o = object[k]
    BY <1>2, <2>1, <2>2
  <2>3. CASE o # object[k]
    <3>1. l = Append(log[k], o)
      BY <1>2, <2>3
    <3>2. l \in Seq(Objects) /\ Len(l) = Len(log[k]) + 1 /\ l[Len(log[k]) + 1] = o
      BY <2>1, <3>1
    <3>3. Len(log[k]) \in Nat /\ Len(<<>>) = 0
      BY <2>1
    <3> QED BY <3>2, <3>3
  <2> QED BY <2>2, <2>3
<1>5. ApiOK'
  BY <1>1, <1>3, <1>4 DEF IInv, ApiOK
<1>6. InformerOK' /\ ControllerOK' /\ ConfigOK'
  BY DEF Put, controller, IInv, InformerOK, ControllerOK, ConfigOK
<1> QED BY <1>5, <1>6 DEF IInv

\* A user creates, edits or deletes an object.
LEMMA UserIInv ==
    ASSUME IInv, NEW k \in Key, NEW o \in Objects, UserChanges(k, o)
    PROVE  IInv'
<1>1. (suspect[k] /\ o.present) \in BOOLEAN
  BY Zenon
<1> QED BY <1>1, PutIInv DEF UserChanges

\* The manager assigns a gateway.
LEMMA ManagerIInv ==
    ASSUME IInv, NEW k \in Key, NEW n \in Node, ManagerAssigns(k, n)
    PROVE  IInv'
<1> DEFINE o == [object[k] EXCEPT !.gw = n, !.ip = NodeIP[n]]
<1>1. o \in Objects
  BY AssignedObject DEF IInv, ApiOK, ManagerAssigns
<1> HIDE DEF o
<1>2. Put(k, o, FALSE)
  BY DEF ManagerAssigns, o
<1> QED BY <1>1, <1>2, PutIInv

\* A gateway becomes unready.
LEMMA FailIInv ==
    ASSUME IInv, NEW k \in Key, GatewayFails(k)
    PROVE  IInv'
<1>1. object[k] \in Objects
  BY DEF IInv, ApiOK
<1>2. Put(k, object[k], TRUE)
  BY DEF GatewayFails
<1> QED BY <1>1, <1>2, PutIInv

-----------------------------------------------------------------------------
\* An informer sees a later state of an object.
LEMMA ObserveIInv ==
    ASSUME IInv, NEW n \in Node, NEW k \in Key, Observe(n, k)
    PROVE  IInv'
<1>1. PICK i \in at[n][k]..Len(log[k]) :
          /\ at' = [at EXCEPT ![n][k] = i]
          /\ cache' = [cache EXCEPT ![n][k] = log[k][i]]
          /\ notify' = [notify EXCEPT ![n] =
                 Append(@, [key |-> k, old |-> cache[n][k], new |-> log[k][i]])]
  BY Zenon DEF Observe
<1>2. i \in Nat \ {0} /\ i \in 1..Len(log[k])
  <2>1. at[n][k] \in Nat \ {0} /\ Len(log[k]) \in Nat
    BY DEF IInv, InformerOK, ApiOK
  <2> QED BY <2>1
<1>3. PICK o \in Objects : o = log[k][i]
  BY <1>2 DEF IInv, ApiOK
<1>4. PICK note : note = [key |-> k, old |-> cache[n][k], new |-> o]
  OBVIOUS
<1>5. note \in Notes
  BY <1>3, <1>4 DEF Notes, IInv, InformerOK
<1>6. PICK q : q = Append(notify[n], note)
  OBVIOUS
<1>7. q \in Seq(Notes)
  BY <1>5, <1>6 DEF IInv, InformerOK
<1>8. notify' = [notify EXCEPT ![n] = q]
  BY <1>1, <1>3, <1>4, <1>6, Zenon
<1>9. InformerOK'
  BY <1>1, <1>2, <1>3, <1>7, <1>8 DEF IInv, InformerOK
<1>10. ApiOK' /\ ControllerOK' /\ ConfigOK'
  BY DEF Observe, api, IInv, ApiOK, ControllerOK, ConfigOK
<1> QED BY <1>9, <1>10 DEF IInv

\* The informer hands an object out again.
LEMMA ResyncIInv ==
    ASSUME IInv, NEW n \in Node, NEW k \in Key, Resync(n, k)
    PROVE  IInv'
  BY DEF Resync, IInv, ApiOK, InformerOK, ControllerOK, ConfigOK, api, informer

\* The handler takes a change.
LEMMA TakeIInv ==
    ASSUME IInv, NEW n \in Node, HandlerTake(n)
    PROVE  IInv'
<1>1. PICK ev : ev = Head(notify[n])
  OBVIOUS
<1>2. ev \in Notes /\ Tail(notify[n]) \in Seq(Notes)
  <2>1. notify[n] \in Seq(Notes) /\ notify[n] # <<>>
    BY DEF HandlerTake, IInv, InformerOK
  <2> HIDE DEF Notes
  <2> QED BY <1>1, <2>1
<1>3. ev.key \in Key /\ ev.old \in Objects
  BY <1>2 DEF Notes
<1>4. PICK kind, calls : /\ kind = Cleanup(n, View(ev.old), View(ev.new))
                         /\ calls = JobCalls(n, kind, ev.key, View(ev.old))
  OBVIOUS
<1>5. kind \in Kinds /\ calls \in Seq(Calls)
  BY <1>3, <1>4, Reads, JobsAreCalls
<1>6. PICK h, v : /\ h = [key |-> ev.key, kind |-> kind, calls |-> calls]
                  /\ v = IF Cleans(kind) /\ sync[n][ev.key] # <<>> THEN "raced"
                         ELSE role[n][ev.key]
  OBVIOUS
<1>7. /\ notify' = [notify EXCEPT ![n] = Tail(notify[n])]
      /\ handler' = [handler EXCEPT ![n] = h]
      /\ role' = [role EXCEPT ![n][ev.key] = v]
  BY <1>1, <1>4, <1>6, Zenon DEF HandlerTake
<1>8. h \in Handlers
  BY <1>3, <1>5, <1>6 DEF Handlers
<1>9. v \in Roles
  BY <1>3, <1>6 DEF Roles, IInv, ControllerOK
<1>10. InformerOK'
  BY <1>2, <1>7 DEF HandlerTake, informer, IInv, InformerOK
<1>11. ControllerOK'
  <2>1. UNCHANGED <<pending, sync>>
    BY Zenon DEF HandlerTake
  <2>2. PICK k \in Key : k = ev.key
    BY <1>3
  <2>3. role' = [role EXCEPT ![n][k] = v]
    BY <1>7, <2>2
  <2>4. role' \in [Node -> [Key -> Roles]]
    BY <1>9, <2>3 DEF IInv, ControllerOK
  <2>5. handler' \in [Node -> Handlers]
    BY <1>7, <1>8 DEF IInv, ControllerOK
  <2> QED BY <2>1, <2>4, <2>5 DEF IInv, ControllerOK
<1>12. ApiOK' /\ ConfigOK'
  BY DEF HandlerTake, api, IInv, ApiOK, ConfigOK
<1> QED BY <1>10, <1>11, <1>12 DEF IInv

\* A new configuration of node n.
LEMMA ConfigStep ==
    ASSUME ConfigOK, NEW n \in Node, NEW L, Wired(L), K' = [K EXCEPT ![n] = L]
    PROVE  ConfigOK'
<1>1. \A m \in Node : K'[m] = IF m = n THEN L ELSE K[m]
  BY DEF ConfigOK
<1>2. \A m \in Node : Wired(K'[m])
  BY <1>1 DEF ConfigOK
<1>3. K' = [m \in Node |-> K'[m]]
  BY DEF ConfigOK
<1> QED BY <1>2, <1>3 DEF ConfigOK

\* The handler runs a command.
LEMMA HandlerExecIInv ==
    ASSUME IInv, NEW n \in Node, HandlerExec(n)
    PROVE  IInv'
<1>1. PICK h : h = handler[n]
  OBVIOUS
<1>2. h \in Handlers /\ h.calls # <<>>
  BY <1>1 DEF HandlerExec, IInv, ControllerOK
<1>3. PICK calls : calls = h.calls
  OBVIOUS
<1>4. calls \in Seq(Calls) /\ calls # <<>>
  BY <1>2, <1>3 DEF Handlers
<1>5. PICK L, left : L = After(K[n], Ahead(calls)) /\ left = Left(K[n], calls)
  OBVIOUS
<1>6. Wired(L) /\ left \in Seq(Calls)
  BY <1>4, <1>5, AfterWired, LeftCalls DEF IInv, ConfigOK
<1>7. K' = [K EXCEPT ![n] = L]
  BY <1>1, <1>3, <1>5, Zenon DEF HandlerExec
<1>8. PICK g : g = [h EXCEPT !.calls = left]
  OBVIOUS
<1>9. g \in Handlers
  BY <1>2, <1>6, <1>8 DEF Handlers
<1>10. handler' = [handler EXCEPT ![n] = g]
  <2>1. handler' = [handler EXCEPT ![n].calls = left]
    BY <1>1, <1>3, <1>5, Zenon DEF HandlerExec
  <2> QED BY <1>1, <1>8, <2>1
<1>11. ConfigOK'
  BY <1>6, <1>7, ConfigStep DEF IInv
<1>12. ControllerOK'
  BY <1>9, <1>10 DEF HandlerExec, IInv, ControllerOK
<1>13. ApiOK' /\ InformerOK'
  BY DEF HandlerExec, api, informer, IInv, ApiOK, InformerOK
<1> QED BY <1>11, <1>12, <1>13 DEF IInv

\* The handler ends.
LEMMA HandlerDoneIInv ==
    ASSUME IInv, NEW n \in Node, HandlerDone(n)
    PROVE  IInv'
<1>1. PICK k : k = handler[n].key
  OBVIOUS
<1>2. k \in Key
  BY <1>1 DEF HandlerDone, IInv, ControllerOK, Handlers
<1>3. PICK v : v = CASE role[n][k] \in {"mixed", "raced"} -> role[n][k]
                     [] /\ role[n][k] \notin {"mixed", "raced"}
                        /\ handler[n].kind = "delete" -> "none"
                     [] /\ role[n][k] \notin {"mixed", "raced"}
                        /\ handler[n].kind \in {"demote", "promote"} -> "cleared"
                     [] OTHER -> role[n][k]
  OBVIOUS
<1>4. v \in Roles
  BY <1>2, <1>3 DEF Roles, IInv, ControllerOK
<1>5. /\ pending' = [pending EXCEPT ![n] = pending[n] \union {k}]
      /\ handler' = [handler EXCEPT ![n] = Idle]
      /\ role' = [role EXCEPT ![n][k] = v]
  BY <1>1, <1>3, Zenon DEF HandlerDone
<1>6. ControllerOK'
  BY <1>2, <1>4, <1>5, NoneLeft DEF HandlerDone, IInv, ControllerOK
<1>7. ApiOK' /\ InformerOK' /\ ConfigOK'
  BY DEF HandlerDone, api, informer, IInv, ApiOK, InformerOK, ConfigOK
<1> QED BY <1>6, <1>7 DEF IInv

\* A worker reads an object.
LEMMA SyncIInv ==
    ASSUME IInv, NEW n \in Node, NEW k \in Key, syncHandler(n, k)
    PROVE  IInv'
<1>1. PICK o, kind, calls, cleaned : /\ o = View(cache[n][k]) /\ kind = SyncKind(n, o)
                                     /\ calls = JobCalls(n, kind, k, o)
                                     /\ cleaned = (handler[n].key = k /\ Cleans(handler[n].kind))
  OBVIOUS
<1>2. calls \in Seq(Calls)
  BY <1>1, JobsAreCalls DEF IInv, InformerOK
<1>3. PICK v : v = CASE kind = "none" -> role[n][k]
                     [] kind # "none" /\ cleaned -> "raced"
                     [] kind # "none" /\ ~cleaned /\ role[n][k] \in {"none", "cleared", kind} ->
                            kind
                     [] kind # "none" /\ ~cleaned /\ role[n][k] = "raced" -> role[n][k]
                     [] OTHER -> "mixed"
  OBVIOUS
<1>4. v \in Roles
  <2>1. role[n][k] \in Roles /\ kind \in {"none", "gateway", "director"}
    BY <1>1 DEF IInv, ControllerOK, SyncKind
  <2> QED BY <1>3, <2>1 DEF Roles
<1>5. /\ pending' = [pending EXCEPT ![n] = pending[n] \ {k}]
      /\ sync' = [sync EXCEPT ![n][k] = calls]
      /\ role' = [role EXCEPT ![n][k] = v]
  BY <1>1, <1>3, Zenon DEF syncHandler
<1>6. ControllerOK'
  BY <1>2, <1>4, <1>5 DEF syncHandler, IInv, ControllerOK
<1>7. ApiOK' /\ InformerOK' /\ ConfigOK'
  BY DEF syncHandler, api, informer, IInv, ApiOK, InformerOK, ConfigOK
<1> QED BY <1>6, <1>7 DEF IInv

\* A worker runs a command.
LEMMA SyncExecIInv ==
    ASSUME IInv, NEW n \in Node, NEW k \in Key, SyncExec(n, k)
    PROVE  IInv'
<1>1. PICK calls : calls = sync[n][k]
  OBVIOUS
<1>2. calls \in Seq(Calls) /\ calls # <<>>
  BY <1>1 DEF SyncExec, IInv, ControllerOK
<1>3. PICK L, left : L = After(K[n], Ahead(calls)) /\ left = Left(K[n], calls)
  OBVIOUS
<1>4. Wired(L) /\ left \in Seq(Calls)
  BY <1>2, <1>3, AfterWired, LeftCalls DEF IInv, ConfigOK
<1>5. K' = [K EXCEPT ![n] = L] /\ sync' = [sync EXCEPT ![n][k] = left]
  BY <1>1, <1>3, Zenon DEF SyncExec
<1>6. pending' \in [Node -> SUBSET Key]
  <2>1. pending' = [pending EXCEPT ![n] = pending[n] \union {k}] \/ pending' = pending
    BY Zenon DEF SyncExec
  <2> QED BY <2>1 DEF IInv, ControllerOK
<1>7. ConfigOK'
  BY <1>4, <1>5, ConfigStep DEF IInv
<1>8. ControllerOK'
  BY <1>4, <1>5, <1>6 DEF SyncExec, IInv, ControllerOK
<1>9. ApiOK' /\ InformerOK'
  BY DEF SyncExec, api, informer, IInv, ApiOK, InformerOK
<1> QED BY <1>7, <1>8, <1>9 DEF IInv

\* A process that starts over has an empty cache and an empty queue.
LEMMA ForgetOK ==
    ASSUME IInv, NEW n \in Node, Forget(n), UNCHANGED at, role' \in [Node -> [Key -> Roles]]
    PROVE  InformerOK' /\ ControllerOK'
<1>1. <<>> \in Seq(Notes)
  OBVIOUS
<1>2. InformerOK'
  BY <1>1, NoneLeft DEF Forget, IInv, InformerOK
<1>3. ControllerOK'
  BY NoneLeft DEF Forget, IInv, ControllerOK
<1> QED BY <1>2, <1>3

\* The process starts over, the configuration of its node stays.
LEMMA RestartIInv ==
    ASSUME IInv, NEW n \in Node, Restart(n)
    PROVE  IInv'
<1>1. role' \in [Node -> [Key -> Roles]]
  BY DEF Restart, IInv, ControllerOK
<1>2. InformerOK' /\ ControllerOK'
  BY <1>1, ForgetOK DEF Restart
<1>3. ApiOK' /\ ConfigOK'
  BY DEF Restart, api, IInv, ApiOK, ConfigOK
<1> QED BY <1>2, <1>3 DEF IInv

\* The node starts over, without configuration.
LEMMA RebootIInv ==
    ASSUME IInv, NEW n \in Node, Reboot(n)
    PROVE  IInv'
<1>1. role' \in [Node -> [Key -> Roles]]
  BY DEF Reboot, Roles, IInv, ControllerOK
<1>2. InformerOK' /\ ControllerOK'
  BY <1>1, ForgetOK DEF Reboot
<1>3. ConfigOK'
  BY EmptyWired, ConfigStep DEF Reboot, IInv
<1>4. ApiOK'
  BY DEF Reboot, api, IInv, ApiOK
<1> QED BY <1>2, <1>3, <1>4 DEF IInv

\* Every step keeps the invariant.
LEMMA NextIInv == IInv /\ [Next]_vars => IInv'
<1> SUFFICES ASSUME IInv, [Next]_vars PROVE IInv'
  OBVIOUS
<1>1. ASSUME ApiServer PROVE IInv'
  BY <1>1, UserIInv, ManagerIInv, FailIInv DEF ApiServer
<1>2. ASSUME NEW n \in Node, HandlerTake(n) \/ HandlerExec(n) \/ HandlerDone(n) PROVE IInv'
  BY <1>2, TakeIInv, HandlerExecIInv, HandlerDoneIInv
<1>3. ASSUME NEW n \in Node, NEW k \in Key, Observe(n, k) \/ Resync(n, k) PROVE IInv'
  BY <1>3, ObserveIInv, ResyncIInv
<1>4. ASSUME NEW n \in Node, NEW k \in Key, syncHandler(n, k) \/ SyncExec(n, k) PROVE IInv'
  BY <1>4, SyncIInv, SyncExecIInv
<1>5. ASSUME NEW n \in Node, Restart(n) \/ Reboot(n) PROVE IInv'
  BY <1>5, RestartIInv, RebootIInv
<1>6. CASE UNCHANGED vars
  BY <1>6 DEF vars, IInv, ApiOK, InformerOK, ControllerOK, ConfigOK
<1> QED BY <1>1, <1>2, <1>3, <1>4, <1>5, <1>6 DEF Next, Controller

\* The inductive invariant.
THEOREM Invariance == Spec => []IInv
<1> QED BY InitIInv, NextIInv, PTL DEF Spec

\* The state keeps its shape: what the API server, its log, the caches and the
\* notifications hold are objects as users and manager write them, a node has a
\* tunnel wherever it has one up, and its tunnels lead to nodes only.
THEOREM TypeCorrect == Spec => []TypeOK
<1>1. IInv => TypeOK
  <2> SUFFICES ASSUME IInv PROVE TypeOK
    OBVIOUS
  <2>1. \A n \in Node : handler[n].key \in Key \union {None}
    BY DEF IInv, ControllerOK, Handlers
  <2>2. \A n \in Node : K[n].up \subseteq K[n].tunnel /\ K[n].tunnel \subseteq Node
    BY DEF IInv, ConfigOK, Wired
  <2>3. \A n \in Node : notify[n] \in Seq([key : Key, old : Objects, new : Objects])
    BY DEF IInv, InformerOK, Notes
  <2> QED BY <2>1, <2>2, <2>3 DEF IInv, ApiOK, InformerOK, ControllerOK, TypeOK
<1> QED BY <1>1, Invariance, PTL

\* Syncs never get stuck on what is configured already, if no address, name or
\* destination occurs in another one: the path back to a pod, the only part of
\* a sync whose error is returned, can be completed on every configuration that
\* the commands before, of whatever role and object, in whatever order and cut
\* off wherever a restart came, may have left.
THEOREM SyncsSucceedHolds == TextsApart => (Spec => []SyncsSucceed)
<1> SUFFICES ASSUME TextsApart PROVE Spec => []SyncsSucceed
  OBVIOUS
<1>1. IInv => SyncsSucceed
  <2> SUFFICES ASSUME IInv, NEW n \in Node, NEW k \in Key,
                      NEW o, o = View(cache[n][k]), NEW kind, kind = SyncKind(n, o)
               PROVE  RunJob(n, K[n], kind, k, o).next # "failed"
    BY DEF SyncsSucceed
  <2>1. cache[n][k] \in Objects /\ Wired(K[n])
    BY DEF IInv, InformerOK, ConfigOK
  <2>2. Readable(kind, o)
    BY <2>1, Reads
  <2>3. Kept(RunJob(n, K[n], kind, k, o))
    BY <2>1, <2>2, JobKept
  <2> QED BY <2>3 DEF Kept
<1> QED BY <1>1, Invariance, PTL
=============================================================================
