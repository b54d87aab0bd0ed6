----------------------- MODULE EgressControllerProofs -----------------------
(***************************************************************************)
(* Proofs, for any number of objects, nodes, workers, rules, endpoints,    *)
(* changes and faults, that the controller forgets no change of an object  *)
(* and syncs an object on one worker at a time, and, if names are kept     *)
(* apart, that it never doubles a NAT rule, that an undisturbed deletion   *)
(* lets go of the pods and that undisturbed jobs leave no bypass that      *)
(* redirects nothing.  The last three are about the commands of all        *)
(* goroutines, in any interleaving.                                        *)
(***************************************************************************)
EXTENDS EgressController, RuleProcessingProofs, FiniteSetTheorems, TLAPS

\* Every goroutine has a record of its job; nothing is said of its calls.
Job(j) ==
    j = [stage |-> j.stage, key |-> j.key, kind |-> j.kind, obj |-> j.obj,
         rule |-> j.rule, calls |-> j.calls]

Shape ==
    /\ thread = [t \in Thread |-> thread[t]]
    /\ \A t \in Thread : Job(thread[t])

\* A worker has marked the key it works on.
WorkersOwn ==
    \A w \in Worker : thread[w].stage # "idle" => thread[w].key \in processing

IInv == TypeOK /\ Shape /\ WorkersOwn /\ OneSyncPerKey /\ NoLostUpdate

-----------------------------------------------------------------------------
\* Absent is an object and Idle is a job.
LEMMA Constants ==
    /\ Absent \in Object
    /\ Idle = [stage |-> "idle", key |-> None, kind |-> "none", obj |-> Absent,
               rule |-> 0, calls |-> <<>>]
    /\ None \notin Key
    /\ Handler \in Thread /\ Worker \subseteq Thread /\ Handler \notin Worker
  BY KeyAssumption, ThreadAssumption DEF Object, Idle, Blank, Thread

\* One goroutine gets another job.
LEMMA SetThread ==
    ASSUME Shape, NEW t \in Thread, NEW j, Job(j), thread' = [thread EXCEPT ![t] = j]
    PROVE  /\ Shape' /\ thread'[t] = j
           /\ \A u \in Thread : u # t => thread'[u] = thread[u]
  BY SMT DEF Shape

\* A job in which the stage, the rule and the calls have been written.
With(j, stage, rule, calls) ==
    [stage |-> stage, key |-> j.key, kind |-> j.kind, obj |-> j.obj,
     rule |-> rule, calls |-> calls]

\* The assignment to a field of a job.
LEMMA SetFields ==
    ASSUME NEW j, Job(j), NEW stage, NEW rule, NEW calls
    PROVE  /\ [j EXCEPT !.calls = calls] = With(j, j.stage, j.rule, calls)
           /\ [j EXCEPT !.stage = stage] = With(j, stage, j.rule, j.calls)
           /\ [j EXCEPT !.rule = rule] = With(j, j.stage, rule, j.calls)
           /\ Job(With(j, stage, rule, calls))
<1>1. ASSUME NEW x, Job(x), NEW s, NEW r, NEW c, x.stage = s, x.rule = r, x.calls = c,
             x.key = j.key, x.kind = j.kind, x.obj = j.obj
      PROVE  x = With(j, s, r, c)
  BY <1>1 DEF Job, With
<1>2. PICK x : x = [j EXCEPT !.calls = calls]
  OBVIOUS
<1>3. PICK y : y = [j EXCEPT !.stage = stage]
  OBVIOUS
<1>4. PICK z : z = [j EXCEPT !.rule = rule]
  OBVIOUS
<1>5. /\ Job(x) /\ x.stage = j.stage /\ x.rule = j.rule /\ x.calls = calls
      /\ x.key = j.key /\ x.kind = j.kind /\ x.obj = j.obj
  BY <1>2, SMT DEF Job
<1>6. /\ Job(y) /\ y.stage = stage /\ y.rule = j.rule /\ y.calls = j.calls
      /\ y.key = j.key /\ y.kind = j.kind /\ y.obj = j.obj
  BY <1>3, SMT DEF Job
<1>7. /\ Job(z) /\ z.stage = j.stage /\ z.rule = rule /\ z.calls = j.calls
      /\ z.key = j.key /\ z.kind = j.kind /\ z.obj = j.obj
  BY <1>4, SMT DEF Job
<1>8. x = With(j, j.stage, j.rule, calls)
  BY <1>1, <1>5
<1>9. y = With(j, stage, j.rule, j.calls)
  BY <1>1, <1>6
<1>10. z = With(j, j.stage, rule, j.calls)
  BY <1>1, <1>7
<1>11. Job(With(j, stage, rule, calls))
  BY DEF Job, With
<1> QED BY <1>2, <1>3, <1>4, <1>8, <1>9, <1>10, <1>11

\* What a step inside a job of t does to the goroutines.
Moves(t, stage, rule, calls) ==
    /\ Shape'
    /\ \A u \in Thread : u # t => thread'[u] = thread[u]
    /\ thread'[t] = With(thread[t], stage, rule, calls)

\* The other fields of the job are left.
LEMMA MovesFields ==
    ASSUME NEW t, NEW stage, NEW rule, NEW calls, Moves(t, stage, rule, calls)
    PROVE  /\ thread'[t].calls = calls /\ thread'[t].stage = stage /\ thread'[t].rule = rule
           /\ thread'[t].key = thread[t].key /\ thread'[t].kind = thread[t].kind
           /\ thread'[t].obj = thread[t].obj
           /\ \A u \in Thread : u # t => thread'[u] = thread[u]
  BY DEF Moves, With

\* LoadRule loads the calls of the next rule.
LEMMA LoadRuleMoves ==
    ASSUME Shape, NEW t \in Thread, LoadRule(t)
    PROVE  \E lost : Moves(t, "rules", thread[t].rule + 1,
                           RuleCalls(Self, thread[t], Addresses(t), lost))
<1>1. Job(thread[t]) /\ thread[t].stage = "rules"
  BY DEF Shape, LoadRule, RulesLeft
<1>2. PICK lost : thread' = [thread EXCEPT
          ![t].calls = RuleCalls(Self, thread[t], Addresses(t), lost), ![t].rule = @ + 1]
  BY DEF LoadRule
<1>3. PICK c, r : /\ c = RuleCalls(Self, thread[t], Addresses(t), lost)
                  /\ r = thread[t].rule + 1
  OBVIOUS
<1>4. thread' = [thread EXCEPT ![t].calls = c, ![t].rule = @ + 1]
  BY <1>2, <1>3
<1>5. thread' = [thread EXCEPT ![t] = [[thread[t] EXCEPT !.calls = c] EXCEPT !.rule = r]]
  BY <1>1, <1>3, <1>4 DEF Shape, Job
<1>6. thread' = [thread EXCEPT ![t] = With(thread[t], "rules", r, c)]
  <2>1. PICK i : i = [thread[t] EXCEPT !.calls = c]
    OBVIOUS
  <2>2. i = With(thread[t], thread[t].stage, thread[t].rule, c) /\ Job(i)
    <3>1. i = With(thread[t], thread[t].stage, thread[t].rule, c)
      BY <1>1, <2>1, SetFields, Zenon
    <3> QED BY <3>1 DEF Job, With
  <2>3. [i EXCEPT !.rule = r] = With(i, i.stage, r, i.calls)
    BY <2>2, SetFields, Zenon
  <2>4. With(i, i.stage, r, i.calls) = With(thread[t], "rules", r, c)
    BY <1>1, <2>2 DEF With
  <2> QED BY <1>5, <2>1, <2>3, <2>4
<1>7. Job(With(thread[t], "rules", r, c))
  BY <1>1, SetFields
<1>8. Moves(t, "rules", r, c)
  BY <1>6, <1>7, SetThread DEF Moves
<1> QED BY <1>3, <1>8

\* A call that fails is dropped, or all of them are.
LEMMA CallFailsMoves ==
    ASSUME Shape, NEW t \in Thread, CallFails(t)
    PROVE  \/ Moves(t, "failed", thread[t].rule, <<>>)
           \/ Moves(t, thread[t].stage, thread[t].rule, Tail(thread[t].calls))
<1>1. Job(thread[t])
  BY DEF Shape
<1>2. PICK c, s : /\ thread' = [thread EXCEPT ![t].calls = c, ![t].stage = s]
                  /\ \/ c = <<>> /\ s = "failed"
                     \/ c = Tail(thread[t].calls) /\ s = thread[t].stage
  BY DEF CallFails
<1>3. thread' = [thread EXCEPT ![t] = [[thread[t] EXCEPT !.calls = c] EXCEPT !.stage = s]]
  BY <1>1, <1>2 DEF Shape, Job
<1>4. thread' = [thread EXCEPT ![t] = With(thread[t], s, thread[t].rule, c)]
  <2>1. PICK i : i = [thread[t] EXCEPT !.calls = c]
    OBVIOUS
  <2>2. i = With(thread[t], thread[t].stage, thread[t].rule, c) /\ Job(i)
    <3>1. i = With(thread[t], thread[t].stage, thread[t].rule, c)
      BY <1>1, <2>1, SetFields, Zenon
    <3> QED BY <3>1 DEF Job, With
  <2>3. [i EXCEPT !.stage = s] = With(i, s, i.rule, i.calls)
    BY <2>2, SetFields, Zenon
  <2>4. With(i, s, i.rule, i.calls) = With(thread[t], s, thread[t].rule, c)
    BY <2>2 DEF With
  <2> QED BY <1>3, <2>1, <2>3, <2>4
<1>5. Job(With(thread[t], s, thread[t].rule, c))
  BY <1>1, SetFields
<1>6. Moves(t, s, thread[t].rule, c)
  BY <1>4, <1>5, SetThread DEF Moves
<1> QED BY <1>2, <1>6

\* A command that does not fail is taken from the calls, and the one it makes the
\* code skip with it.
LEMMA ExecMoves ==
    ASSUME Shape, NEW t \in Thread, NEW n,
           thread' = [thread EXCEPT ![t].calls = Rest(@, n)]
    PROVE  Moves(t, thread[t].stage, thread[t].rule, Rest(thread[t].calls, n))
<1>1. Job(thread[t])
  BY DEF Shape
<1>2. PICK c : c = Rest(thread[t].calls, n)
  OBVIOUS
<1>3. thread' = [thread EXCEPT ![t] = [thread[t] EXCEPT !.calls = c]]
  BY <1>2 DEF Shape
<1>4. thread' = [thread EXCEPT ![t] = With(thread[t], thread[t].stage, thread[t].rule, c)]
  <2>1. [thread[t] EXCEPT !.calls = c] = With(thread[t], thread[t].stage, thread[t].rule, c)
    BY <1>1, SetFields, Zenon
  <2> QED BY <1>3, <2>1
<1>5. Job(With(thread[t], thread[t].stage, thread[t].rule, c))
  BY <1>1, SetFields
<1> QED BY <1>2, <1>4, <1>5, SetThread DEF Moves

\* The key, the object and the other jobs stay as they are, and the job is not
\* idle before or after the step.
Runs(t) ==
    /\ Shape'
    /\ \A u \in Thread : u # t => thread'[u] = thread[u]
    /\ thread'[t].key = thread[t].key /\ thread'[t].obj = thread[t].obj
    /\ thread'[t].kind = thread[t].kind
    /\ thread[t].stage # "idle"
    /\ thread'[t].stage \in {thread[t].stage, "failed"}

\* LoadRule, Exec and ExecFault are steps inside a job.
LEMMA RunningThread ==
    ASSUME TypeOK, Shape, NEW t \in Thread, LoadRule(t) \/ Exec(t) \/ ExecFault(t)
    PROVE  Runs(t)
<1>1. thread[t].calls # <<>> => thread[t].stage # "idle"
  BY DEF TypeOK, ThreadsOK, Idle, Blank
<1>2. ASSUME NEW s, NEW r, NEW c, Moves(t, s, r, c), thread[t].stage # "idle",
             s \in {thread[t].stage, "failed"}
      PROVE  Runs(t)
  BY <1>2 DEF Moves, Runs, With
<1>3. CASE LoadRule(t)
  <2>1. thread[t].stage = "rules"
    BY <1>3 DEF LoadRule, RulesLeft
  <2> QED BY <1>2, <1>3, <2>1, LoadRuleMoves
<1>4. CASE CallFails(t) /\ thread[t].calls # <<>>
  BY <1>1, <1>2, <1>4, CallFailsMoves
<1>5. CASE /\ \E n : thread' = [thread EXCEPT ![t].calls = Rest(@, n)]
           /\ thread[t].calls # <<>>
  BY <1>1, <1>2, <1>5, ExecMoves
<1>6. Exec(t) \/ ExecFault(t) => thread[t].calls # <<>>
  BY DEF Exec, ExecFault
<1>7. Exec(t) \/ ExecFault(t) =>
          CallFails(t) \/ \E n : thread' = [thread EXCEPT ![t].calls = Rest(@, n)]
  BY DEF Exec, ExecFault
<1> QED BY <1>3, <1>4, <1>5, <1>6, <1>7

\* The ways a key can be pending, in a state and in the next one.
LEMMA PendingLemma ==
    ASSUME NEW k
    PROVE  /\ k \in Pending <=>
                  \/ k \in delayed \/ k \in dirty \/ k = thread[Handler].key
                  \/ \E i \in 1..Len(notify) : notify[i].key = k
                  \/ \E w \in Worker : /\ thread[w].stage \in {"got", "failed"}
                                       /\ thread[w].key = k
           /\ k \in Pending' <=>
                  \/ k \in delayed' \/ k \in dirty' \/ k = thread'[Handler].key
                  \/ \E i \in 1..Len(notify') : notify'[i].key = k
                  \/ \E w \in Worker : /\ thread'[w].stage \in {"got", "failed"}
                                       /\ thread'[w].key = k
  BY DEF Pending

\* A step inside a job.
LEMMA RunsIInv ==
    ASSUME IInv, NEW t \in Thread, Runs(t),
           UNCHANGED <<api, informer, up, queue, seen, gone>>,
           disturbed' \subseteq Key, changes' \in Nat, faults' \in Nat
    PROVE  IInv'
<1> USE DEF IInv
<1>1. TypeOK'
  <2>1. ThreadsOK'
    BY DEF TypeOK, ThreadsOK, Runs
  <2> QED BY <2>1 DEF TypeOK, api, informer, queue
<1>2. Shape'
  BY DEF Runs
<1>3. WorkersOwn' /\ OneSyncPerKey'
  BY Constants DEF WorkersOwn, OneSyncPerKey, Runs, queue
<1>4. NoLostUpdate'
  <2> SUFFICES ASSUME NEW k \in Key, cache[k].present, cache[k] # seen[k]
               PROVE  k \in Pending'
    BY DEF NoLostUpdate, informer
  <2>1. k \in Pending
    BY DEF NoLostUpdate
  <2>2. UNCHANGED <<delayed, dirty, notify>>
    BY DEF informer, queue
  <2> QED BY <2>1, <2>2, PendingLemma, Constants DEF Runs
<1> QED BY <1>1, <1>2, <1>3, <1>4

\* So they keep the inductive invariant.
LEMMA RunningIInv ==
    ASSUME IInv, NEW t \in Thread, LoadRule(t) \/ Exec(t) \/ ExecFault(t)
    PROVE  IInv'
<1>1. Runs(t)
  BY RunningThread DEF IInv
<1>2. UNCHANGED <<api, informer, up, queue, seen, gone>>
  BY DEF LoadRule, Exec, ExecFault, history
<1>3. changes' \in Nat /\ faults' \in Nat
  <2>1. changes \in Nat /\ faults \in Nat
    BY DEF IInv, TypeOK
  <2>2. UNCHANGED budget \/ Fault
    BY DEF LoadRule, Exec, ExecFault
  <2> QED BY <2>1, <2>2 DEF Fault, budget
<1>4. disturbed' \subseteq Key
  <2>1. disturbed \subseteq Key /\ (thread[t].stage # "idle" => thread[t].key \in Key)
    BY DEF IInv, TypeOK, ThreadsOK
  <2>2. disturbed' \in {disturbed, disturbed \union {thread[t].key}}
    BY DEF LoadRule, Exec, ExecFault, history
  <2> QED BY <1>1, <2>1, <2>2 DEF Runs
<1> QED BY <1>1, <1>2, <1>3, <1>4, RunsIInv

\* The process starts again: nothing is cached, so nothing has to be pending.
LEMMA RestartIInv ==
    ASSUME IInv, Restart, changes' \in Nat, faults' \in Nat
    PROVE  IInv'
<1> USE DEF IInv
<1>1. \A t \in Thread : thread'[t] = Idle
  BY DEF Restart
<1>2. TypeOK'
  <2>1. cache' \in [Key -> Object] /\ seen' \in [Key -> Object]
    BY Constants DEF Restart
  <2>2. epCache' \in [Service -> Endpoints \union {NoEndpoints}]
    BY DEF Restart
  <2>3. ThreadsOK'
    BY <1>1, Constants DEF ThreadsOK
  <2>4. UNCHANGED <<object, endpoints>> /\ notify' = <<>>
    BY DEF Restart, api
  <2>5. /\ listed' \in BOOLEAN /\ up' \in BOOLEAN
        /\ delayed' \subseteq Key /\ dirty' \subseteq Key /\ processing' \subseteq Key
    BY DEF Restart
  <2>6. disturbed' \subseteq Key /\ gone' = gone
    BY DEF Restart, TypeOK
  <2> QED BY <2>1, <2>2, <2>3, <2>4, <2>5, <2>6 DEF TypeOK
<1>3. Shape'
  <2>1. Job(Idle)
    BY Constants DEF Job
  <2>2. thread' = [t \in Thread |-> Idle]
    BY DEF Restart
  <2>3. thread' = [t \in Thread |-> thread'[t]]
    BY <2>2
  <2> QED BY <1>1, <2>1, <2>3 DEF Shape
<1>4. WorkersOwn' /\ OneSyncPerKey'
  BY <1>1, Constants DEF WorkersOwn, OneSyncPerKey
<1>5. NoLostUpdate'
  BY DEF NoLostUpdate, Restart, Absent
<1> QED BY <1>2, <1>3, <1>4, <1>5

\* The steps that leave the goroutines alone.
LEMMA IdleThreads ==
    ASSUME IInv, UNCHANGED <<thread, processing>>
    PROVE  Shape' /\ ThreadsOK' /\ WorkersOwn' /\ OneSyncPerKey'
<1>1. Shape'
  BY DEF IInv, Shape
<1>2. ThreadsOK'
  BY DEF IInv, TypeOK, ThreadsOK
<1> QED BY <1>1, <1>2 DEF IInv, WorkersOwn, OneSyncPerKey

\* Pending keys stay pending when the goroutines and the queue stay as they are
\* and no notification is dropped.
LEMMA PendingKept ==
    ASSUME NEW k, k \in Pending, UNCHANGED <<thread, dirty, delayed>>,
           \A i \in 1..Len(notify) : \E j \in 1..Len(notify') :
               notify'[j].key = notify[i].key
    PROVE  k \in Pending'
  BY PendingLemma

\* Users, the manager and services write to the API server only.
LEMMA EnvironmentIInv ==
    ASSUME IInv, Environment
    PROVE  IInv'
<1> USE DEF IInv
<1>1. /\ UNCHANGED <<informer, up, queue, thread, K, seen, disturbed, gone>>
      /\ object' \in [Key -> Object] /\ endpoints' \in [Service -> Endpoints]
      /\ changes' \in Nat /\ faults' \in Nat
  <2>1. CASE \E k \in Key : \E o \in Object : ChangeObject(k, o)
    BY <2>1 DEF ChangeObject, Change, TypeOK, history
  <2>2. CASE \E s \in Service : \E e \in Endpoints : ChangeEndpoints(s, e)
    BY <2>2 DEF ChangeEndpoints, Change, TypeOK, history
  <2> QED BY <2>1, <2>2 DEF Environment
<1>2. UNCHANGED <<cache, epCache, listed, notify, delayed, dirty, processing>>
  BY <1>1 DEF informer, queue
<1>3. Shape' /\ ThreadsOK' /\ WorkersOwn' /\ OneSyncPerKey'
  BY <1>1, <1>2, IdleThreads
<1>4. TypeOK'
  BY <1>1, <1>2, <1>3 DEF TypeOK
<1>5. NoLostUpdate'
  BY <1>1, <1>2, PendingKept DEF NoLostUpdate
<1> QED BY <1>3, <1>4, <1>5

\* A function on 1..n is a sequence of length n.
LEMMA FunctionIsSeq ==
    ASSUME NEW T, NEW n \in Nat, NEW f \in [1..n -> T]
    PROVE  f \in Seq(T) /\ Len(f) = n
  OBVIOUS

\* A list fills an empty cache and notifies of every object in it.
LEMMA ListIInv ==
    ASSUME IInv, List
    PROVE  IInv'
<1> USE DEF IInv
<1>1. UNCHANGED <<object, endpoints, epCache, up, delayed, dirty, processing, thread, seen,
                  disturbed, gone, changes, faults>>
  BY DEF List, api, queue, history, budget
<1>2. Shape' /\ ThreadsOK' /\ WorkersOwn' /\ OneSyncPerKey'
  BY <1>1, IdleThreads
<1> DEFINE S == {k \in Key : object[k].present}
<1>3. Cardinality(S) \in Nat
  <2>1. IsFiniteSet(S)
    BY KeyAssumption, FS_Subset
  <2> QED BY <2>1, FS_CardinalityType
<1>4. PICK order \in Orders(S) :
          notify' = [i \in DOMAIN order |->
                         Notification(order[i], Absent, object[order[i]])]
  BY DEF List
<1>5. /\ order \in [1..Cardinality(S) -> S]
      /\ \A x \in S : \E i \in 1..Cardinality(S) : order[i] = x
  BY DEF Orders
<1>6. /\ notify' \in Seq([key : Key, old : Object, new : Object])
      /\ Len(notify') = Cardinality(S)
      /\ \A i \in 1..Cardinality(S) : notify'[i].key = order[i]
  <2>1. \A i \in 1..Cardinality(S) :
            Notification(order[i], Absent, object[order[i]])
                \in [key : Key, old : Object, new : Object]
    BY <1>5, Constants DEF Notification, TypeOK
  <2>2. notify' = [i \in 1..Cardinality(S) |->
                       Notification(order[i], Absent, object[order[i]])]
    BY <1>4, <1>5
  <2> HIDE DEF S
  <2>3. notify' \in [1..Cardinality(S) -> [key : Key, old : Object, new : Object]]
    BY <2>1, <2>2
  <2>4. /\ notify' \in Seq([key : Key, old : Object, new : Object])
        /\ Len(notify') = Cardinality(S)
    BY <1>3, <2>3, FunctionIsSeq
  <2>5. \A i \in 1..Cardinality(S) : notify'[i].key = order[i]
    BY <2>2 DEF Notification
  <2> QED BY <2>4, <2>5
<1>7. TypeOK'
  <2>1. cache' \in [Key -> Object] /\ listed' \in BOOLEAN
    BY DEF List, TypeOK
  <2> QED BY <1>1, <1>2, <1>6, <2>1 DEF TypeOK
<1>8. NoLostUpdate'
  <2> SUFFICES ASSUME NEW k \in Key, cache'[k].present
               PROVE  k \in Pending'
    BY DEF NoLostUpdate
  <2>1. k \in S
    BY DEF List
  <2>2. \E i \in 1..Len(notify') : notify'[i].key = k
    BY <1>5, <1>6, <2>1
  <2> QED BY <2>2, PendingLemma
<1> QED BY <1>2, <1>7, <1>8

\* An event of a watch, or a resync: the object is pending by its notification.
LEMMA NotifyIInv ==
    ASSUME IInv, NEW n \in [key : Key, old : Object, new : Object],
           notify' = Append(notify, n),
           cache' \in [Key -> Object],
           \A k \in Key : k # n.key => cache'[k] = cache[k],
           UNCHANGED <<api, epCache, listed, up, queue, thread, K, history, budget>>
    PROVE  IInv'
<1> USE DEF IInv
<1>1. UNCHANGED <<object, endpoints, delayed, dirty, processing, seen, disturbed, gone,
                  changes, faults>>
  BY DEF api, queue, history, budget
<1>2. Shape' /\ ThreadsOK' /\ WorkersOwn' /\ OneSyncPerKey'
  BY <1>1, IdleThreads
<1>3. notify \in Seq([key : Key, old : Object, new : Object])
  BY DEF TypeOK
<1>4. /\ notify' \in Seq([key : Key, old : Object, new : Object])
      /\ Len(notify) \in Nat /\ Len(notify') = Len(notify) + 1
      /\ notify'[Len(notify')] = n
      /\ \A i \in 1..Len(notify) : notify'[i] = notify[i]
  BY <1>3
<1>5. TypeOK'
  BY <1>1, <1>2, <1>4 DEF TypeOK
<1>6. NoLostUpdate'
  <2> SUFFICES ASSUME NEW k \in Key, cache'[k].present, cache'[k] # seen[k]
               PROVE  k \in Pending'
    BY <1>1 DEF NoLostUpdate
  <2>1. CASE k = n.key
    <3>1. Len(notify') \in 1..Len(notify')
      BY <1>4
    <3> QED BY <1>4, <2>1, <3>1, PendingLemma
  <2>2. CASE k # n.key
    <3>1. k \in Pending
      BY <2>2 DEF NoLostUpdate
    <3>2. \A i \in 1..Len(notify) : i \in 1..Len(notify')
      BY <1>4
    <3> QED BY <1>1, <1>4, <3>1, <3>2, PendingKept
  <2> QED BY <2>1, <2>2
<1> QED BY <1>2, <1>5, <1>6

\* What informers do: list, watch and resync.
LEMMA InformersIInv ==
    ASSUME IInv, Informers
    PROVE  IInv'
<1> USE DEF IInv
<1>1. CASE List
  BY <1>1, ListIInv
<1>2. ASSUME NEW k \in Key, Observe(k)
      PROVE  IInv'
  <2>1. Notification(k, cache[k], object[k]) \in [key : Key, old : Object, new : Object]
    BY DEF Notification, TypeOK
  <2>2. /\ cache' \in [Key -> Object]
        /\ \A j \in Key : j # k => cache'[j] = cache[j]
    BY <1>2 DEF Observe, TypeOK
  <2>3. Notification(k, cache[k], object[k]).key = k
    BY DEF Notification
  <2> QED BY <1>2, <2>1, <2>2, <2>3, NotifyIInv DEF Observe
<1>3. ASSUME NEW k \in Key, Resync(k)
      PROVE  IInv'
  <2>1. Notification(k, cache[k], cache[k]) \in [key : Key, old : Object, new : Object]
    BY DEF Notification, TypeOK
  <2>2. notify' = Append(notify, Notification(k, cache[k], cache[k]))
    BY <1>3 DEF Resync
  <2>3. cache' = cache /\ cache' \in [Key -> Object]
    BY <1>3 DEF Resync, TypeOK
  <2> QED BY <1>3, <2>1, <2>2, <2>3, NotifyIInv DEF Resync
<1>4. ASSUME NEW s \in Service, ObserveEndpoints(s)
      PROVE  IInv'
  <2>1. UNCHANGED <<object, endpoints, cache, listed, up, notify, delayed, dirty, processing,
                    thread, seen, disturbed, gone, changes, faults>>
    BY <1>4 DEF ObserveEndpoints, api, queue, history, budget
  <2>2. Shape' /\ ThreadsOK' /\ WorkersOwn' /\ OneSyncPerKey'
    BY <2>1, IdleThreads
  <2>3. epCache' \in [Service -> Endpoints \union {NoEndpoints}]
    BY <1>4 DEF ObserveEndpoints, TypeOK
  <2>4. TypeOK'
    BY <2>1, <2>2, <2>3 DEF TypeOK
  <2>5. NoLostUpdate'
    BY <2>1, PendingKept DEF NoLostUpdate
  <2> QED BY <2>2, <2>4, <2>5
<1> QED BY <1>1, <1>2, <1>3, <1>4 DEF Informers

\* Run starts the workers.
LEMMA StartIInv ==
    ASSUME IInv, Start
    PROVE  IInv'
<1> USE DEF IInv
<1>1. UNCHANGED <<object, endpoints, cache, epCache, listed, notify, delayed, dirty,
                  processing, thread, seen, disturbed, gone, changes, faults>>
  BY DEF Start, api, informer, queue, history, budget
<1>2. Shape' /\ ThreadsOK' /\ WorkersOwn' /\ OneSyncPerKey'
  BY <1>1, IdleThreads
<1>3. TypeOK'
  BY <1>1, <1>2 DEF TypeOK, Start
<1>4. NoLostUpdate'
  BY <1>1, PendingKept DEF NoLostUpdate
<1> QED BY <1>2, <1>3, <1>4

\* A delayed key becomes due and stays pending in the queue.
LEMMA RipenIInv ==
    ASSUME IInv, NEW k \in Key, Ripen(k)
    PROVE  IInv'
<1> USE DEF IInv
<1>1. UNCHANGED <<object, endpoints, cache, epCache, listed, up, notify,
                  processing, thread, seen, disturbed, gone, changes, faults>>
  BY DEF Ripen, api, informer, history, budget
<1>2. Shape' /\ ThreadsOK' /\ WorkersOwn' /\ OneSyncPerKey'
  BY <1>1, IdleThreads
<1>3. delayed' = delayed \ {k} /\ dirty' = dirty \union {k}
  BY DEF Ripen
<1>4. TypeOK'
  BY <1>1, <1>2, <1>3 DEF TypeOK
<1>5. NoLostUpdate'
  BY <1>1, <1>3, PendingLemma DEF NoLostUpdate
<1> QED BY <1>2, <1>4, <1>5

\* The head and the tail of a sequence that is not empty.
LEMMA HeadTail ==
    ASSUME NEW T, NEW s \in Seq(T), s # <<>>
    PROVE  /\ Len(s) \in Nat /\ Head(s) = s[1] /\ s[1] \in T
           /\ Tail(s) \in Seq(T) /\ Len(Tail(s)) = Len(s) - 1
           /\ \A i \in 1..Len(Tail(s)) : Tail(s)[i] = s[i + 1]
  OBVIOUS

\* The handler takes a notification: its key stays pending in the handler.
LEMMA HandlerTakeIInv ==
    ASSUME IInv, HandlerTake
    PROVE  IInv'
<1> USE DEF IInv
<1>1. UNCHANGED <<object, endpoints, cache, epCache, listed, up, delayed, dirty, processing,
                  seen, gone>>
  BY DEF HandlerTake, api, queue
<1>2. /\ notify \in Seq([key : Key, old : Object, new : Object]) /\ notify # <<>>
      /\ notify' = Tail(notify) /\ thread[Handler] = Idle
  BY DEF HandlerTake, TypeOK
<1>3. /\ Len(notify) \in Nat /\ Head(notify) = notify[1]
      /\ notify[1] \in [key : Key, old : Object, new : Object]
      /\ notify' \in Seq([key : Key, old : Object, new : Object])
      /\ Len(notify') = Len(notify) - 1
      /\ \A i \in 1..Len(notify') : notify'[i] = notify[i + 1]
  BY <1>2, HeadTail
<1> DEFINE J(kind, rule) ==
               [stage |-> "rules", key |-> notify[1].key, kind |-> kind,
                obj |-> notify[1].old, calls |-> <<>>, rule |-> rule]
<1>4. PICK did : thread' = [thread EXCEPT ![Handler] =
          J(did, IF did = "none" THEN Len(notify[1].old.rules) + 1 ELSE 1)]
  BY <1>3, Zenon DEF HandlerTake
<1> DEFINE j == J(did, IF did = "none" THEN Len(notify[1].old.rules) + 1 ELSE 1)
<1>5. /\ Job(j) /\ j.stage = "rules" /\ j.key = notify[1].key /\ j.key \in Key
      /\ j.obj \in Object
  BY <1>3 DEF Job
<1>6. thread' = [thread EXCEPT ![Handler] = j]
  BY <1>4
<1> HIDE DEF j
<1>7. /\ Shape' /\ thread'[Handler] = j
      /\ \A u \in Thread : u # Handler => thread'[u] = thread[u]
  BY <1>5, <1>6, SetThread, Constants
<1>8. TypeOK'
  <2>1. ThreadsOK'
    BY <1>5, <1>7 DEF TypeOK, ThreadsOK
  <2>2. UNCHANGED budget \/ Fault
    BY DEF HandlerTake
  <2>3. changes' \in Nat /\ faults' \in Nat
    BY <2>2 DEF TypeOK, Fault, budget
  <2>4. disturbed' \subseteq Key
    <3>1. disturbed' \in {disturbed, disturbed \union {notify[1].key}}
      BY <1>3 DEF HandlerTake
    <3> QED BY <1>3, <3>1 DEF TypeOK
  <2> QED BY <1>1, <1>3, <2>1, <2>3, <2>4 DEF TypeOK
<1>9. WorkersOwn' /\ OneSyncPerKey'
  BY <1>1, <1>7, Constants DEF WorkersOwn, OneSyncPerKey
<1>10. NoLostUpdate'
  <2> SUFFICES ASSUME NEW k \in Key, k \in Pending
               PROVE  k \in Pending'
    BY <1>1 DEF NoLostUpdate
  <2>1. k # thread[Handler].key
    BY <1>2, Constants
  <2>2. ASSUME NEW i \in 1..Len(notify), notify[i].key = k
        PROVE  k \in Pending'
    <3>1. CASE i = 1
      BY <1>5, <1>7, <2>2, <3>1, PendingLemma
    <3>2. CASE i # 1
      <4>1. i - 1 \in 1..Len(notify')
        BY <1>3, <3>2
      <4>2. notify'[i - 1] = notify[i]
        BY <1>3, <4>1
      <4> QED BY <2>2, <4>1, <4>2, PendingLemma
    <3> QED BY <3>1, <3>2
  <2>3. \A w \in Worker : thread'[w] = thread[w]
    BY <1>7, Constants
  <2> QED BY <1>1, <2>1, <2>2, <2>3, PendingLemma
<1> QED BY <1>7, <1>8, <1>9, <1>10

\* A goroutine drops its job.
LEMMA JobEnds ==
    ASSUME TypeOK, Shape, NEW t \in Thread, thread' = [thread EXCEPT ![t] = Idle]
    PROVE  /\ Shape' /\ ThreadsOK' /\ thread'[t] = Idle
           /\ \A u \in Thread : u # t => thread'[u] = thread[u]
<1>1. Job(Idle)
  BY Constants DEF Job
<1>2. /\ Shape' /\ thread'[t] = Idle
      /\ \A u \in Thread : u # t => thread'[u] = thread[u]
  BY <1>1, SetThread
<1> QED BY <1>2, Constants DEF TypeOK, ThreadsOK

\* The handler ends: its key stays pending, it is put into the queue.
LEMMA HandlerDoneIInv ==
    ASSUME IInv, HandlerDone
    PROVE  IInv'
<1> USE DEF IInv
<1>1. UNCHANGED <<object, endpoints, cache, epCache, listed, up, notify, dirty, processing,
                  disturbed, changes, faults>>
  BY DEF HandlerDone, api, informer, budget
<1>2. thread[Handler].key \in Key
  BY Constants DEF HandlerDone, RulesDone, TypeOK, ThreadsOK
<1>3. delayed' = delayed \union {thread[Handler].key}
  BY DEF HandlerDone, Enqueue
<1>4. /\ Shape' /\ ThreadsOK' /\ thread'[Handler] = Idle
      /\ \A u \in Thread : u # Handler => thread'[u] = thread[u]
  BY JobEnds, Constants DEF HandlerDone
<1>5. /\ seen' \in [Key -> Object]
      /\ \A k \in Key : k # thread[Handler].key => seen'[k] = seen[k]
  BY Constants DEF HandlerDone, TypeOK
<1>6. TypeOK'
  <2>1. thread[Handler].obj.rules \in Specs \union {<<>>}
    <3>1. thread[Handler].obj \in Object
      BY Constants DEF TypeOK, ThreadsOK
    <3>2. \A o \in Object : o.rules \in Specs \union {<<>>}
      <4> SUFFICES ASSUME NEW o \in Object PROVE o.rules \in Specs \union {<<>>}
        OBVIOUS
      <4>1. CASE o \in Present
        BY <4>1 DEF Present
      <4>2. CASE o = Absent
        BY <4>2 DEF Absent
      <4> QED BY <4>1, <4>2 DEF Object
    <3> QED BY <3>1, <3>2
  <2>2. gone' \in [Key -> Specs \union {<<>>}]
    BY <2>1 DEF HandlerDone, TypeOK
  <2> QED BY <1>1, <1>2, <1>3, <1>4, <1>5, <2>2 DEF TypeOK
<1>7. WorkersOwn' /\ OneSyncPerKey'
  BY <1>1, <1>4, Constants DEF WorkersOwn, OneSyncPerKey
<1>8. NoLostUpdate'
  <2> SUFFICES ASSUME NEW k \in Key, cache[k].present, cache[k] # seen'[k]
               PROVE  k \in Pending'
    BY <1>1 DEF NoLostUpdate
  <2>1. CASE k = thread[Handler].key
    BY <1>3, <2>1, PendingLemma
  <2>2. CASE k # thread[Handler].key
    <3>1. k \in Pending
      BY <1>5, <2>2 DEF NoLostUpdate
    <3>2. \A w \in Worker : thread'[w] = thread[w]
      BY <1>4, Constants
    <3> QED BY <1>1, <1>3, <2>2, <3>1, <3>2, PendingLemma
  <2> QED BY <2>1, <2>2
<1> QED BY <1>4, <1>6, <1>7, <1>8

\* The process ends.
LEMMA CrashIInv ==
    ASSUME IInv, Crash \/ \E t \in Thread : Panic(t)
    PROVE  IInv'
<1>1. Restart /\ (Fault \/ UNCHANGED budget)
  BY DEF Crash, Panic
<1>2. changes' \in Nat /\ faults' \in Nat
  BY <1>1 DEF IInv, TypeOK, Fault, budget
<1> QED BY <1>1, <1>2, RestartIInv

\* A worker takes a key that no worker has: it stays pending until it is read.
LEMMA GetIInv ==
    ASSUME IInv, NEW w \in Worker, NEW k \in Key, Get(w, k)
    PROVE  IInv'
<1> USE DEF IInv
<1>1. UNCHANGED <<object, endpoints, cache, epCache, listed, up, notify, delayed, seen,
                  disturbed, gone, changes, faults>>
  BY DEF Get, api, informer, history, budget
<1>2. /\ thread[w] = Idle /\ k \in dirty /\ k \notin processing
      /\ dirty' = dirty \ {k} /\ processing' = processing \union {k}
  BY DEF Get, Queued
<1> DEFINE j == Blank("got", k)
<1>3. Job(j) /\ j.stage = "got" /\ j.key = k /\ j.obj = Absent
  BY DEF Job, Blank
<1>4. thread' = [thread EXCEPT ![w] = j]
  BY DEF Get
<1> HIDE DEF j
<1>5. /\ Shape' /\ thread'[w] = j
      /\ \A u \in Thread : u # w => thread'[u] = thread[u]
  BY <1>3, <1>4, SetThread, Constants
<1>6. TypeOK'
  <2>1. ThreadsOK'
    BY <1>3, <1>5, Constants DEF TypeOK, ThreadsOK
  <2> QED BY <1>1, <1>2, <2>1 DEF TypeOK
<1>7. WorkersOwn'
  BY <1>2, <1>3, <1>5, Constants DEF WorkersOwn
<1>8. OneSyncPerKey'
  <2> SUFFICES ASSUME NEW u \in Worker, NEW v \in Worker, u # v,
                      thread'[u].stage # "idle"
               PROVE  thread'[u].key # thread'[v].key
    BY DEF OneSyncPerKey
  <2>1. \A x \in Worker : x # w => thread[x].key # k
    BY <1>2, Constants DEF WorkersOwn, TypeOK, ThreadsOK
  <2> QED BY <1>3, <1>5, <2>1, Constants DEF OneSyncPerKey
<1>9. NoLostUpdate'
  <2> SUFFICES ASSUME NEW c \in Key, c \in Pending
               PROVE  c \in Pending'
    BY <1>1 DEF NoLostUpdate
  <2>1. thread'[Handler] = thread[Handler]
    BY <1>5, Constants
  <2>2. CASE c = k
    BY <1>3, <1>5, <2>2, PendingLemma
  <2>3. CASE c # k
    <3>1. \A v \in Worker : thread[v].stage \in {"got", "failed"} => thread'[v] = thread[v]
      BY <1>2, <1>5, Constants
    <3> QED BY <1>1, <1>2, <2>1, <2>3, <3>1, PendingLemma
  <2> QED BY <2>2, <2>3
<1> QED BY <1>5, <1>6, <1>7, <1>8, <1>9

\* A sync reads the cache, which is then what has been seen.
LEMMA syncHandlerIInv ==
    ASSUME IInv, NEW w \in Worker, syncHandler(w)
    PROVE  IInv'
<1> USE DEF IInv
<1>1. UNCHANGED <<object, endpoints, cache, epCache, listed, up, notify, delayed, dirty,
                  processing, changes, faults>>
  BY DEF syncHandler, api, informer, queue, budget
<1>2. /\ w \in Thread /\ thread[w].stage = "got" /\ thread[w].key \in Key
      /\ cache[thread[w].key] \in Object /\ Job(thread[w])
  BY Constants DEF syncHandler, TypeOK, ThreadsOK, Shape
<1> DEFINE o == cache[thread[w].key]
           j == [stage |-> "rules", key |-> thread[w].key, kind |-> SyncKind(Self, o),
                 obj |-> o, calls |-> <<>>,
                 rule |-> IF SyncKind(Self, o) = "none" THEN Len(o.rules) + 1 ELSE 1]
<1>3. thread' = [thread EXCEPT ![w] = j]
  BY DEF syncHandler
<1>4. Job(j) /\ j.stage = "rules" /\ j.key = thread[w].key /\ j.obj \in Object
  BY <1>2 DEF Job
<1> HIDE DEF j
<1>5. /\ Shape' /\ thread'[w] = j
      /\ \A u \in Thread : u # w => thread'[u] = thread[u]
  BY <1>2, <1>3, <1>4, SetThread
<1>6. /\ seen' \in [Key -> Object] /\ seen'[thread[w].key] = cache[thread[w].key]
      /\ \A k \in Key : k # thread[w].key => seen'[k] = seen[k]
  BY <1>2 DEF syncHandler, TypeOK
<1>7. TypeOK'
  <2>1. ThreadsOK'
    BY <1>2, <1>4, <1>5 DEF TypeOK, ThreadsOK
  <2>2. gone' \in [Key -> Specs \union {<<>>}]
    BY DEF syncHandler, TypeOK
  <2>3. disturbed' \in {disturbed, disturbed \union {thread[w].key}}
    BY DEF syncHandler
  <2> QED BY <1>1, <1>2, <1>6, <2>1, <2>2, <2>3 DEF TypeOK
<1>8. WorkersOwn' /\ OneSyncPerKey'
  BY <1>1, <1>2, <1>4, <1>5, Constants DEF WorkersOwn, OneSyncPerKey
<1>9. NoLostUpdate'
  <2> SUFFICES ASSUME NEW k \in Key, cache[k].present, cache[k] # seen'[k]
               PROVE  k \in Pending'
    BY <1>1 DEF NoLostUpdate
  <2>1. k # thread[w].key /\ k \in Pending
    BY <1>6 DEF NoLostUpdate
  <2>2. thread'[Handler] = thread[Handler]
    BY <1>5, Constants
  <2>3. \A v \in Worker : thread[v].key = k => thread'[v] = thread[v]
    BY <1>5, <2>1, Constants
  <2> QED BY <1>1, <2>1, <2>2, <2>3, PendingLemma
<1> QED BY <1>5, <1>7, <1>8, <1>9

\* A sync that fails before it begins is a step inside the job.
LEMMA LookupFailsIInv ==
    ASSUME IInv, NEW w \in Worker, LookupFails(w)
    PROVE  IInv'
<1> USE DEF IInv
<1>1. w \in Thread /\ Job(thread[w]) /\ thread[w].stage = "got"
  BY Constants DEF Shape, LookupFails
<1>2. thread' = [thread EXCEPT ![w] = [thread[w] EXCEPT !.stage = "failed"]]
  BY DEF LookupFails
<1>3. Moves(w, "failed", thread[w].rule, thread[w].calls)
  <2>1. PICK j : j = With(thread[w], "failed", thread[w].rule, thread[w].calls)
    OBVIOUS
  <2>2. [thread[w] EXCEPT !.stage = "failed"] = j /\ Job(j)
    BY <1>1, <2>1, SetFields, Zenon
  <2>3. thread' = [thread EXCEPT ![w] = j]
    BY <1>2, <2>2
  <2> QED BY <1>1, <2>1, <2>2, <2>3, SetThread DEF Moves
<1>4. Runs(w)
  BY <1>1, <1>3 DEF Moves, Runs, With
<1>5. UNCHANGED <<api, informer, up, queue, seen, gone, disturbed>> /\ Fault
  BY DEF LookupFails, history
<1>6. disturbed' \subseteq Key /\ changes' \in Nat /\ faults' \in Nat
  BY <1>5 DEF Fault, TypeOK
<1> QED BY <1>1, <1>4, <1>5, <1>6, RunsIInv

\* A sync ends: if it failed, its key goes back into the queue.
LEMMA DoneIInv ==
    ASSUME IInv, NEW w \in Worker, Done(w)
    PROVE  IInv'
<1> USE DEF IInv
<1>1. UNCHANGED <<object, endpoints, cache, epCache, listed, up, notify, dirty,
                  disturbed, gone, changes, faults>>
  BY DEF Done, api, informer, budget
<1>2. /\ w \in Thread /\ thread[w].stage \in {"rules", "failed"} /\ thread[w].key \in Key
      /\ processing' = processing \ {thread[w].key}
  BY Constants DEF Done, RulesDone, TypeOK, ThreadsOK
<1>3. /\ Shape' /\ ThreadsOK' /\ thread'[w] = Idle
      /\ \A u \in Thread : u # w => thread'[u] = thread[u]
  BY <1>2, JobEnds DEF Done
<1>4. /\ thread[w].stage = "failed" => thread[w].key \in delayed'
      /\ delayed \subseteq delayed' /\ delayed' \subseteq Key
      /\ seen' \in [Key -> Object]
      /\ \A k \in Key : seen'[k] # seen[k] => k \in delayed'
  BY <1>2, Constants DEF Done, ForgetOrRetry, TypeOK
<1>5. TypeOK'
  BY <1>1, <1>2, <1>3, <1>4 DEF TypeOK
<1>6. WorkersOwn' /\ OneSyncPerKey'
  BY <1>2, <1>3, Constants DEF WorkersOwn, OneSyncPerKey, TypeOK, ThreadsOK
<1>7. NoLostUpdate'
  <2> SUFFICES ASSUME NEW k \in Key, cache[k].present, cache[k] # seen'[k],
                      k \notin delayed'
               PROVE  k \in Pending'
    BY <1>1, PendingLemma DEF NoLostUpdate
  <2>1. k \in Pending
    BY <1>4 DEF NoLostUpdate
  <2>2. thread'[Handler] = thread[Handler]
    BY <1>3, Constants
  <2>3. \A v \in Worker : thread[v].stage \in {"got", "failed"} /\ thread[v].key = k
                             => thread'[v] = thread[v]
    BY <1>2, <1>3, <1>4, Constants
  <2> QED BY <1>1, <1>4, <2>1, <2>2, <2>3, PendingLemma
<1> QED BY <1>3, <1>5, <1>6, <1>7

-----------------------------------------------------------------------------
\* Init establishes the inductive invariant.
LEMMA InitIInv == Init => IInv
<1> SUFFICES ASSUME Init PROVE IInv
  OBVIOUS
<1>1. thread = [t \in Thread |-> Idle] /\ \A t \in Thread : thread[t] = Idle
  BY DEF Init
<1>2. ThreadsOK
  BY <1>1, Constants DEF ThreadsOK
<1>3. TypeOK
  <2>1. cache \in [Key -> Object] /\ seen \in [Key -> Object]
    BY Constants DEF Init
  <2>2. epCache \in [Service -> Endpoints \union {NoEndpoints}]
    BY DEF Init
  <2>3. /\ object \in [Key -> Object] /\ endpoints \in [Service -> Endpoints]
        /\ listed \in BOOLEAN /\ up \in BOOLEAN /\ notify = <<>>
        /\ delayed \subseteq Key /\ dirty \subseteq Key /\ processing \subseteq Key
        /\ changes \in Nat /\ faults \in Nat
    BY DEF Init
  <2>4. disturbed = {} /\ gone \in [Key -> Specs \union {<<>>}]
    BY DEF Init
  <2> QED BY <1>2, <2>1, <2>2, <2>3, <2>4 DEF TypeOK
<1>4. Shape
  <2>1. Job(Idle)
    BY Constants DEF Job
  <2>2. thread = [t \in Thread |-> thread[t]]
    BY <1>1
  <2> QED BY <1>1, <2>1, <2>2 DEF Shape
<1>5. WorkersOwn /\ OneSyncPerKey
  BY <1>1, Constants DEF WorkersOwn, OneSyncPerKey
<1>6. NoLostUpdate
  BY DEF Init, NoLostUpdate, Absent
<1> QED BY <1>3, <1>4, <1>5, <1>6 DEF IInv

\* Steps that change nothing keep it.
LEMMA StutterIInv == IInv /\ UNCHANGED vars => IInv'
<1> SUFFICES ASSUME IInv, UNCHANGED vars PROVE IInv'
  OBVIOUS
<1> USE DEF IInv
<1>1. Shape' /\ ThreadsOK' /\ WorkersOwn' /\ OneSyncPerKey'
  BY IdleThreads DEF vars
<1>2. TypeOK'
  BY <1>1 DEF TypeOK, vars
<1>3. NoLostUpdate'
  BY PendingKept DEF NoLostUpdate, vars
<1> QED BY <1>1, <1>2, <1>3

\* Every step of the controller and its environment keeps it.
LEMMA NextIInv == IInv /\ [Next]_vars => IInv'
<1> SUFFICES ASSUME IInv, [Next]_vars PROVE IInv'
  OBVIOUS
<1>1. CASE Environment
  BY <1>1, EnvironmentIInv
<1>2. CASE Informers
  BY <1>2, InformersIInv
<1>3. CASE Start
  BY <1>3, StartIInv
<1>4. CASE Crash
  BY <1>4, CrashIInv
<1>5. ASSUME NEW t \in Thread, Running(t)
      PROVE  IInv'
  BY <1>5, RunningIInv, CrashIInv DEF Running
<1>6. CASE Handling
  BY <1>5, <1>6, HandlerTakeIInv, HandlerDoneIInv, Constants DEF Handling
<1>7. CASE \E k \in Key : Ripen(k)
  BY <1>7, RipenIInv
<1>8. ASSUME NEW w \in Worker, Working(w)
      PROVE  IInv'
  BY <1>5, <1>8, GetIInv, syncHandlerIInv, LookupFailsIInv, DoneIInv, Constants DEF Working
<1>9. CASE UNCHANGED vars
  BY <1>9, StutterIInv
<1> QED BY <1>1, <1>2, <1>3, <1>4, <1>6, <1>7, <1>8, <1>9 DEF Next

\* The inductive invariant always holds.
LEMMA Inductive == Spec => []IInv
  BY InitIInv, NextIInv, PTL DEF Spec

\* The control state of the controller (caches, notifications, queue, jobs) keeps
\* its shape.
THEOREM TypeCorrect == Spec => []TypeOK
<1>1. IInv => TypeOK
  BY DEF IInv
<1> QED BY <1>1, Inductive, PTL

\* No change of an object is forgotten: the handlers, AddRateLimited, Get, Done
\* and the retry of a failed sync never drop a key whose object no sync has read
\* since it last had to.
THEOREM NoLostUpdateHolds == Spec => []NoLostUpdate
<1>1. IInv => NoLostUpdate
  BY DEF IInv
<1> QED BY <1>1, Inductive, PTL

\* Two workers never sync the same object at once, however often it is enqueued.
THEOREM OneSyncPerKeyHolds == Spec => []OneSyncPerKey
<1>1. IInv => OneSyncPerKey
  BY DEF IInv
<1> QED BY <1>1, Inductive, PTL

-----------------------------------------------------------------------------
\* What a goroutine does with its calls: it has them only in its stage "rules",
\* and the kinds of its jobs are its own.
JobOK(t, j) ==
    /\ CallsOK(j.kind, j.key, j.calls)
    /\ j.calls # <<>> => j.stage = "rules"
    /\ j.rule \in Nat /\ (j.stage = "rules" => j.rule # 0)
    /\ j.stage \in {"idle", "got"} => j.kind = "none"
    /\ t \in Worker => j.kind \in {"none", "gateway", "director"}
    /\ t = Handler => j.kind \in {"none", "other", "demote", "promote", "delete"}

JobsOK == \A t \in Thread : JobOK(t, thread[t])

\* The rules of an object.
LEMMA ObjectRules ==
    ASSUME NEW o \in Object
    PROVE  /\ o.rules \in Specs \union {<<>>} /\ Len(o.rules) \in Nat
           /\ \A i \in 1..Len(o.rules) : o.rules[i].svc \in Service
<1>1. CASE o \in Present
  BY <1>1, SpecsAssumption DEF Present
<1>2. CASE o = Absent
  BY <1>2 DEF Absent
<1> QED BY <1>1, <1>2 DEF Object

\* The endpoints of a rule, if they were found.
LEMMA AddressesSeq ==
    ASSUME TypeOK, NEW t \in Thread, JobOK(t, thread[t]), RulesLeft(t),
           Addresses(t) # NoEndpoints
    PROVE  Len(Addresses(t)) \in Nat
<1>1. PICK o, i : o = thread[t].obj /\ i = thread[t].rule
  OBVIOUS
<1>2. o \in Object /\ i \in Nat \ {0} /\ i <= Len(o.rules)
  BY <1>1 DEF TypeOK, ThreadsOK, JobOK, RulesLeft
<1>3. o.rules[i].svc \in Service
  BY <1>2, ObjectRules
<1>4. CASE thread[t].kind = "delete"
  BY <1>4 DEF Addresses
<1>5. CASE thread[t].kind # "delete"
  <2>1. Addresses(t) = epCache[o.rules[i].svc]
    BY <1>1, <1>5 DEF Addresses
  <2>2. epCache[o.rules[i].svc] \in Endpoints \union {NoEndpoints}
    BY <1>3 DEF TypeOK
  <2>3. Addresses(t) \in Seq(Pod)
    BY <2>1, <2>2, EndpointsAssumption
  <2> QED BY <2>3
<1> QED BY <1>4, <1>5

\* A goroutine without calls.
LEMMA NoCalls ==
    ASSUME NEW kind, NEW key
    PROVE  CallsOK(kind, key, <<>>)
<1>1. <<>> \in Seq({}) /\ Len(<<>>) = 0
  OBVIOUS
<1>2. IsSeq(<<>>)
  BY <1>1 DEF IsSeq
<1> QED BY <1>1, <1>2 DEF CallsOK

\* What a step does to the calls of a goroutine that runs them.
LEMMA ExecSteps ==
    ASSUME Shape, JobsOK, NEW t \in Thread, Exec(t) \/ ExecFault(t)
    PROVE  /\ thread[t].calls # <<>> /\ thread[t].stage = "rules"
           /\ Ahead(t) = First(thread[t].calls)
           /\ \/ /\ Moves(t, "failed", thread[t].rule, <<>>) \/
                    Moves(t, "rules", thread[t].rule, Tail(thread[t].calls))
                 /\ K' = K
                 /\ Fails(K, Ahead(t)) \/ ExecFault(t)
              \/ /\ ~Fails(K, Ahead(t)) /\ K' = Effect(K, Ahead(t))
                 /\ \E n \in {1, 2} :
                        /\ n = 2 => Skips(K, Ahead(t)) /\ Ahead(t).op \in Check
                        /\ n = 1 => ~Skips(K, Ahead(t))
                        /\ Moves(t, "rules", thread[t].rule, Rest(thread[t].calls, n))
<1>1. thread[t].calls # <<>> /\ thread[t].stage = "rules"
  BY DEF Exec, ExecFault, JobsOK, JobOK
<1>2. Ahead(t) = First(thread[t].calls)
  BY <1>1 DEF Ahead, First
<1>3. CASE CallFails(t) /\ K' = K /\ (Fails(K, Ahead(t)) \/ ExecFault(t))
  BY <1>1, <1>2, <1>3, CallFailsMoves
<1>4. CASE /\ ~Fails(K, Ahead(t)) /\ K' = Effect(K, Ahead(t))
           /\ thread' = [thread EXCEPT ![t].calls = Rest(@, IF Skips(K, Ahead(t)) THEN 2 ELSE 1)]
  <2>1. PICK n : n = IF Skips(K, Ahead(t)) THEN 2 ELSE 1
    OBVIOUS
  <2>2. thread' = [thread EXCEPT ![t].calls = Rest(@, n)]
    BY <1>4, <2>1
  <2>3. Moves(t, thread[t].stage, thread[t].rule, Rest(thread[t].calls, n))
    BY <2>2, ExecMoves
  <2>4. Skips(K, Ahead(t)) => Ahead(t).op \in Check
    BY DEF Skips, Check
  <2> QED BY <1>1, <1>2, <1>4, <2>1, <2>3, <2>4
<1> QED BY <1>3, <1>4 DEF Exec, ExecFault

\* The jobs stay so while one goroutine takes a step.
LEMMA OneJob ==
    ASSUME JobsOK, NEW t \in Thread, \A u \in Thread : u # t => thread'[u] = thread[u],
           JobOK(t, thread'[t])
    PROVE  JobsOK'
  BY DEF JobsOK

\* An idle goroutine, or one that has got a key.
LEMMA BlankOK ==
    ASSUME NEW t \in Thread, NEW stage \in {"idle", "got"}, NEW key
    PROVE  JobOK(t, Blank(stage, key))
<1>1. CallsOK("none", key, <<>>)
  BY NoCalls
<1> QED BY <1>1, Constants DEF JobOK, Blank

\* Every step keeps the jobs so.
LEMMA NextJobsOK == IInv /\ JobsOK /\ [Next]_vars => JobsOK'
<1> SUFFICES ASSUME IInv, JobsOK, [Next]_vars PROVE JobsOK'
  OBVIOUS
<1> USE DEF IInv
<1>1. CASE UNCHANGED thread
  BY <1>1 DEF JobsOK
<1>2. CASE Restart
  <2>1. \A t \in Thread : thread'[t] = Blank("idle", None)
    BY <1>2 DEF Restart, Idle
  <2> QED BY <2>1, BlankOK DEF JobsOK
<1>3. ASSUME NEW t \in Thread, LoadRule(t)
      PROVE  JobsOK'
  <2>1. PICK lost : Moves(t, "rules", thread[t].rule + 1,
                          RuleCalls(Self, thread[t], Addresses(t), lost))
    BY <1>3, LoadRuleMoves
  <2>2. RulesLeft(t) /\ Addresses(t) # NoEndpoints /\ JobOK(t, thread[t])
    BY <1>3 DEF LoadRule, JobsOK
  <2>3. PICK calls : calls = RuleCalls(Self, thread[t], Addresses(t), lost)
    OBVIOUS
  <2>4. Len(Addresses(t)) \in Nat
    BY <2>2, AddressesSeq
  <2>5. CallsOK(thread[t].kind, thread[t].key, calls)
    BY <2>3, <2>4, RuleCallsOK
  <2>6. JobOK(t, With(thread[t], "rules", thread[t].rule + 1, calls))
    BY <2>2, <2>5 DEF JobOK, With, RulesLeft
  <2> QED BY <2>1, <2>3, <2>6, OneJob DEF Moves
<1>4. ASSUME NEW t \in Thread, Exec(t) \/ ExecFault(t)
      PROVE  JobsOK'
  <2>1. /\ thread[t].calls # <<>> /\ thread[t].stage = "rules" /\ JobOK(t, thread[t])
    BY <1>4, ExecSteps DEF JobsOK
  <2>2. ASSUME NEW stage \in {"rules", "failed"}, NEW calls,
               CallsOK(thread[t].kind, thread[t].key, calls),
               calls # <<>> => stage = "rules",
               Moves(t, stage, thread[t].rule, calls)
        PROVE  JobsOK'
    <3>1. JobOK(t, With(thread[t], stage, thread[t].rule, calls))
      BY <2>1, <2>2 DEF JobOK, With
    <3> QED BY <2>2, <3>1, OneJob DEF Moves
  <2>3. CASE Moves(t, "failed", thread[t].rule, <<>>)
    BY <2>2, <2>3, NoCalls
  <2>4. CASE Moves(t, "rules", thread[t].rule, Tail(thread[t].calls))
    <3>1. CallsOK(thread[t].kind, thread[t].key, Tail(thread[t].calls))
      BY <2>1, Begun DEF JobOK
    <3> QED BY <2>2, <2>4, <3>1
  <2>5. ASSUME NEW n \in {1, 2}, Moves(t, "rules", thread[t].rule, Rest(thread[t].calls, n))
        PROVE  JobsOK'
    <3>1. PICK rest : rest = Rest(thread[t].calls, n)
      OBVIOUS
    <3>2. CallsOK(thread[t].kind, thread[t].key, rest)
      <4>1. n \in Nat
        OBVIOUS
      <4> QED BY <2>1, <3>1, <4>1, RestShape DEF JobOK
    <3> QED BY <2>2, <2>5, <3>1, <3>2
  <2> QED BY <1>4, <2>3, <2>4, <2>5, ExecSteps
<1>5. CASE HandlerTake
  <2>1. PICK did, r, k, o : /\ thread' = [thread EXCEPT ![Handler] =
                                  [stage |-> "rules", key |-> k, kind |-> did,
                                   obj |-> o, calls |-> <<>>, rule |-> r]]
                            /\ r = IF did = "none" THEN Len(o.rules) + 1 ELSE 1
                            /\ did \in {Cleanup(Self, Head(notify).old, Head(notify).new), "other"}
                            /\ o = Head(notify).old
    BY <1>5, Zenon DEF HandlerTake
  <2>2. PICK j : j = [stage |-> "rules", key |-> k, kind |-> did,
                      obj |-> o, calls |-> <<>>, rule |-> r]
    OBVIOUS
  <2>3. thread' = [thread EXCEPT ![Handler] = j] /\ Job(j)
    BY <2>1, <2>2 DEF Job
  <2>4. did \in {"none", "other", "demote", "promote", "delete"}
    BY <2>1 DEF Cleanup, RoleChange
  <2>5. r \in Nat \ {0}
    <3>1. o \in Object
      <4>1. notify \in Seq([key : Key, old : Object, new : Object]) /\ notify # <<>>
        BY <1>5 DEF HandlerTake, TypeOK
      <4>2. Head(notify) \in [key : Key, old : Object, new : Object]
        BY <4>1, HeadTail
      <4> QED BY <2>1, <4>2
    <3>2. Len(o.rules) \in Nat
      BY <3>1, ObjectRules
    <3> QED BY <2>1, <3>2
  <2>6. JobOK(Handler, j)
    BY <2>2, <2>4, <2>5, NoCalls, Constants DEF JobOK
  <2> QED BY <2>3, <2>6, SetThread, OneJob, Constants
<1>6. ASSUME NEW t \in Thread, thread' = [thread EXCEPT ![t] = Idle]
      PROVE  JobsOK'
  <2>1. Job(Idle) /\ JobOK(t, Idle)
    BY BlankOK DEF Idle, Job, Blank
  <2> QED BY <1>6, <2>1, SetThread, OneJob
<1>7. ASSUME NEW w \in Worker, NEW k \in Key, Get(w, k)
      PROVE  JobsOK'
  <2>1. PICK j : j = Blank("got", k)
    OBVIOUS
  <2>2. w \in Thread /\ Shape /\ Job(j) /\ JobOK(w, j)
    BY <2>1, BlankOK, Constants DEF Job, Blank
  <2>3. thread'[w] = j /\ \A u \in Thread : u # w => thread'[u] = thread[u]
    BY <1>7, <2>1, <2>2, SetThread DEF Get
  <2> QED BY <2>2, <2>3, OneJob
<1>8. ASSUME NEW w \in Worker, syncHandler(w)
      PROVE  JobsOK'
  <2>1. PICK k, o, kind, r :
            /\ k = thread[w].key /\ o = cache[k] /\ kind = SyncKind(Self, o)
            /\ r = IF kind = "none" THEN Len(o.rules) + 1 ELSE 1
    OBVIOUS
  <2>2. PICK j : j = [stage |-> "rules", key |-> k, kind |-> kind,
                      obj |-> o, calls |-> <<>>, rule |-> r]
    OBVIOUS
  <2>3. thread' = [thread EXCEPT ![w] = j]
    BY <1>8, <2>1, <2>2, Zenon DEF syncHandler
  <2>4. kind \in {"none", "gateway", "director"}
    BY <2>1 DEF SyncKind
  <2>5. r \in Nat \ {0}
    <3>1. o \in Object
      BY <1>8, <2>1, Constants DEF TypeOK, ThreadsOK, syncHandler
    <3> QED BY <2>1, <3>1, ObjectRules
  <2>6. JobOK(w, j) /\ Job(j)
    BY <2>2, <2>4, <2>5, NoCalls, Constants DEF JobOK, Job
  <2>7. w \in Thread /\ Shape
    BY Constants
  <2>8. thread'[w] = j /\ \A u \in Thread : u # w => thread'[u] = thread[u]
    BY <2>3, <2>6, <2>7, SetThread
  <2> QED BY <2>6, <2>7, <2>8, OneJob
<1>9. ASSUME NEW w \in Worker, LookupFails(w)
      PROVE  JobsOK'
  <2>1. /\ thread' = [thread EXCEPT ![w] = [thread[w] EXCEPT !.stage = "failed"]]
        /\ w \in Thread /\ Job(thread[w]) /\ JobOK(w, thread[w]) /\ thread[w].stage = "got"
    BY <1>9, Constants DEF LookupFails, Shape, JobsOK
  <2>2. PICK j : j = With(thread[w], "failed", thread[w].rule, thread[w].calls)
    OBVIOUS
  <2>3. [thread[w] EXCEPT !.stage = "failed"] = j /\ Job(j)
    BY <2>1, <2>2, SetFields, Zenon
  <2>4. JobOK(w, j)
    BY <2>1, <2>2, NoCalls DEF JobOK, With
  <2> QED BY <2>1, <2>3, <2>4, SetThread, OneJob
<1>10. CASE Environment \/ Informers \/ Start \/ (\E k \in Key : Ripen(k)) \/ UNCHANGED vars
  BY <1>1, <1>10 DEF Environment, ChangeObject, ChangeEndpoints, Informers, List, Observe,
                     Resync, ObserveEndpoints, Start, Ripen, vars
<1>11. ASSUME NEW t \in Thread, Running(t)
       PROVE  JobsOK'
  BY <1>2, <1>3, <1>4, <1>11 DEF Running, Panic
<1>12. CASE Handling
  BY <1>5, <1>6, <1>11, <1>12, Constants DEF Handling, HandlerDone
<1>13. CASE \E w \in Worker : Working(w)
  BY <1>6, <1>7, <1>8, <1>9, <1>11, <1>13, Constants DEF Working, Done
<1> QED BY <1>2, <1>10, <1>12, <1>13 DEF Next, Crash
-----------------------------------------------------------------------------
\* The steps, by what they do to the goroutines and the configuration.
\* The rest of the system:
StandsStill == UNCHANGED <<thread, K, disturbed, gone>>

\* The end of the process, after which a set that a panicking deletion had
\* begun to make may be there:
Ends ==
    /\ \A t \in Thread : thread'[t] = Idle
    /\ disturbed' = disturbed \union {k \in Key : \E t \in Thread : Busy(t, k)}
    /\ gone' = gone
    /\ \/ K' = K
       \/ \E s : K' = Effect(Effect(K, Cmd("create", s, None, None)),
                             Cmd("flush", s, None, None))

\* A step of one goroutine between its calls:
Between(t) ==
    /\ K' = K /\ disturbed \subseteq disturbed'
    /\ thread[t].calls = <<>>
    /\ \A u \in Thread : u # t => thread'[u] = thread[u]
    /\ thread'[t].calls # <<>> => First(thread'[t].calls).op \notin {"snat", "bypass"}

\* A worker that is left without a job for an object:
Rests(w) ==
    /\ UNCHANGED <<K, disturbed, gone>>
    /\ thread[w].calls = <<>>
    /\ \A u \in Thread : u # w => thread'[u] = thread[u]
    /\ thread'[w].kind = "none" /\ thread'[w].calls = <<>>

\* A command that fails, with the rest of its call or of the job:
Failing(t) ==
    /\ K' = K
    /\ \/ Moves(t, "failed", thread[t].rule, <<>>)
       \/ Moves(t, "rules", thread[t].rule, Tail(thread[t].calls))
    /\ \/ disturbed' = disturbed \union {thread[t].key}
       \/ /\ Fails(K, First(thread[t].calls)) /\ disturbed' = disturbed
          /\ thread[t].kind # "director"

\* A command that does not, and n commands are done:
Going(t, n) ==
    LET c == First(thread[t].calls)
    IN  /\ ~Fails(K, c) /\ K' = Effect(K, c) /\ disturbed' = disturbed
        /\ Moves(t, "rules", thread[t].rule, Rest(thread[t].calls, n))
        /\ n \in {1, 2}
        /\ n = 2 => Skips(K, c) /\ c.op \in Check
        /\ n = 1 => ~Skips(K, c)

\* A step inside a call:
Inside(t) ==
    /\ thread[t].calls # <<>> /\ gone' = gone
    /\ Failing(t) \/ \E n \in {1, 2} : Going(t, n)

\* A goroutine that runs commands is one or the other of these.
LEMMA Insides ==
    ASSUME Shape, JobsOK, NEW t \in Thread, Exec(t) \/ ExecFault(t)
    PROVE  Inside(t)
<1>1. PICK c : c = Ahead(t)
  OBVIOUS
<1>2. /\ thread[t].calls # <<>> /\ c = First(thread[t].calls) /\ gone' = gone
  BY <1>1, ExecSteps DEF Exec, ExecFault
<1>3. CASE ExecFault(t)
  <2>1. CallFails(t) /\ K' = K /\ disturbed' = disturbed \union {thread[t].key}
    BY <1>3 DEF ExecFault
  <2>2. thread[t].stage = "rules"
    BY ExecSteps
  <2> QED BY <1>2, <2>1, <2>2, CallFailsMoves DEF Inside, Failing
<1>4. CASE Exec(t) /\ Fails(K, c)
  <2>1. /\ CallFails(t) /\ K' = K
        /\ disturbed' = IF thread[t].kind = "director"
                        THEN disturbed \union {thread[t].key} ELSE disturbed
    BY <1>1, <1>4 DEF Exec
  <2>2. thread[t].stage = "rules"
    BY ExecSteps
  <2> QED BY <1>2, <1>4, <2>1, <2>2, CallFailsMoves DEF Inside, Failing
<1>5. CASE Exec(t) /\ ~Fails(K, c)
  <2>1. PICK n : n = IF Skips(K, c) THEN 2 ELSE 1
    OBVIOUS
  <2>2. /\ K' = Effect(K, c) /\ disturbed' = disturbed
        /\ thread' = [thread EXCEPT ![t].calls = Rest(@, n)]
    BY <1>1, <1>5, <2>1 DEF Exec
  <2>3. Moves(t, thread[t].stage, thread[t].rule, Rest(thread[t].calls, n))
    BY <2>2, ExecMoves
  <2>4. Skips(K, c) => c.op \in Check
    BY DEF Skips, Check
  <2>5. thread[t].stage = "rules"
    BY ExecSteps
  <2>6. Going(t, n)
    BY <1>2, <1>5, <2>1, <2>2, <2>3, <2>4, <2>5 DEF Going
  <2>7. n \in {1, 2}
    BY <2>1
  <2> QED BY <1>2, <2>6, <2>7 DEF Inside
<1> QED BY <1>3, <1>4, <1>5

\* The step that loads the calls of a rule.
LEMMA LoadsBetween ==
    ASSUME IInv, JobsOK, NEW t \in Thread, LoadRule(t)
    PROVE  Between(t)
<1>1. PICK lost : Moves(t, "rules", thread[t].rule + 1,
                        RuleCalls(Self, thread[t], Addresses(t), lost))
  BY LoadRuleMoves DEF IInv
<1>2. K' = K /\ disturbed' = disturbed /\ RulesLeft(t) /\ Addresses(t) # NoEndpoints
  BY DEF LoadRule, history
<1>3. PICK calls : calls = RuleCalls(Self, thread[t], Addresses(t), lost)
  OBVIOUS
<1>4. Len(Addresses(t)) \in Nat
  BY <1>2, AddressesSeq DEF IInv, JobsOK
<1>5. thread'[t].calls = calls
  BY <1>1, <1>3 DEF Moves, With
<1>6. calls # <<>> => First(calls).op \notin {"snat", "bypass"}
  BY <1>3, <1>4, RuleCallsFresh
<1> QED BY <1>1, <1>2, <1>5, <1>6 DEF Between, Moves, RulesLeft

\* A goroutine that is given a job without calls.
LEMMA NewBetween ==
    ASSUME IInv, NEW t \in Thread, thread[t].calls = <<>>, NEW j, Job(j), j.calls = <<>>,
           thread' = [thread EXCEPT ![t] = j], K' = K, disturbed \subseteq disturbed'
    PROVE  Between(t)
<1>1. /\ thread'[t] = j
      /\ \A u \in Thread : u # t => thread'[u] = thread[u]
  BY SetThread DEF IInv
<1> QED BY <1>1 DEF Between

\* Every step is one of these.
LEMMA Cases ==
    ASSUME IInv, JobsOK, [Next]_vars
    PROVE  \/ StandsStill
           \/ Ends
           \/ \E t \in Thread : LoadRule(t) \/ Inside(t)
           \/ HandlerTake
           \/ HandlerDone
           \/ \E w \in Worker : syncHandler(w) \/ Rests(w)
<1> USE DEF IInv
<1>1. /\ Job(Idle) /\ Idle.calls = <<>> /\ Idle.kind = "none" /\ Idle.stage = "idle"
      /\ \A k : Job(Blank("got", k)) /\ Blank("got", k).calls = <<>>
                 /\ Blank("got", k).kind = "none"
  BY DEF Job, Idle, Blank
<1>2. \A t \in Thread :
          /\ thread[t].stage # "rules" => thread[t].calls = <<>>
          /\ thread[t].stage = "got" => thread[t].kind = "none"
  BY DEF JobsOK, JobOK
<1>3. ASSUME NEW w \in Worker, thread[w].calls = <<>>, NEW j, Job(j), j.calls = <<>>,
             j.kind = "none", thread' = [thread EXCEPT ![w] = j],
             UNCHANGED <<K, disturbed, gone>>
      PROVE  Rests(w)
  <2>1. w \in Thread
    BY Constants
  <2>2. thread'[w] = j /\ \A u \in Thread : u # w => thread'[u] = thread[u]
    BY <1>3, <2>1, SetThread
  <2> QED BY <1>3, <2>2 DEF Rests
<1>4. ASSUME Restart, NEW s, K' = K \/ K' = Effect(Effect(K, Cmd("create", s, None, None)),
                                                   Cmd("flush", s, None, None))
      PROVE  Ends
  BY <1>4 DEF Restart, Ends
<1>5. ASSUME NEW t \in Thread, Running(t)
      PROVE  Ends \/ LoadRule(t) \/ Inside(t)
  <2>1. CASE LoadRule(t)
    BY <2>1
  <2>2. CASE Exec(t) \/ ExecFault(t)
    BY <2>2, Insides
  <2>3. CASE Panic(t)
    <3>1. PICK s : s = generateRuleId(thread[t].key, thread[t].rule)
      OBVIOUS
    <3>2. PICK a, b : a = Cmd("create", s, None, None) /\ b = Cmd("flush", s, None, None)
      OBVIOUS
    <3>3. NewSet(s)[1] = a /\ NewSet(s)[2] = b
      BY <3>2 DEF NewSet
    <3>4. K' = K \/ K' = Effect(Effect(K, NewSet(s)[1]), NewSet(s)[2])
      BY <2>3, <3>1, Zenon DEF Panic
    <3>5. Restart
      BY <2>3 DEF Panic
    <3> QED BY <1>4, <3>2, <3>3, <3>4, <3>5
  <2> QED BY <1>5, <2>1, <2>2, <2>3 DEF Running
<1>6. ASSUME NEW w \in Worker, NEW k \in Key, Get(w, k)
      PROVE  Rests(w)
  <2>1. /\ thread' = [thread EXCEPT ![w] = Blank("got", k)]
        /\ thread[w].calls = <<>> /\ UNCHANGED <<K, disturbed, gone>>
    BY <1>1, <1>6 DEF Get, history
  <2> QED BY <1>1, <1>3, <2>1
<1>7. ASSUME NEW w \in Worker, LookupFails(w)
      PROVE  Rests(w)
  <2>1. /\ thread' = [thread EXCEPT ![w] = [thread[w] EXCEPT !.stage = "failed"]]
        /\ Job(thread[w]) /\ thread[w].calls = <<>> /\ thread[w].kind = "none"
        /\ UNCHANGED <<K, disturbed, gone>>
    BY <1>2, <1>7, Constants DEF LookupFails, Shape, history
  <2>2. PICK j : j = With(thread[w], "failed", thread[w].rule, thread[w].calls)
    OBVIOUS
  <2>3. [thread[w] EXCEPT !.stage = "failed"] = j /\ Job(j)
    BY <2>1, <2>2, SetFields, Zenon
  <2>4. j.calls = <<>> /\ j.kind = "none"
    BY <2>1, <2>2 DEF With
  <2> QED BY <1>3, <2>1, <2>3, <2>4
<1>8. ASSUME NEW w \in Worker, Done(w)
      PROVE  Rests(w)
  <2>1. /\ thread' = [thread EXCEPT ![w] = Idle]
        /\ thread[w].calls = <<>> /\ UNCHANGED <<K, disturbed, gone>>
    BY <1>2, <1>8, Constants DEF Done, RulesDone
  <2> QED BY <1>1, <1>3, <2>1
<1>9. CASE Environment \/ Informers \/ Start \/ (\E k \in Key : Ripen(k)) \/ UNCHANGED vars
  BY <1>9 DEF Environment, ChangeObject, ChangeEndpoints, Informers, List, Observe, Resync,
              ObserveEndpoints, Start, Ripen, vars, StandsStill, history
<1>10. CASE Crash
  BY <1>4, <1>10 DEF Crash
<1>11. CASE Handling
  BY <1>5, <1>11, Constants DEF Handling
<1>12. CASE \E w \in Worker : Working(w)
  BY <1>5, <1>6, <1>7, <1>8, <1>12, Constants DEF Working
<1> QED BY <1>9, <1>10, <1>11, <1>12 DEF Next

\* All but the first, the second and the ones inside a call are between calls.
LEMMA Steps ==
    ASSUME IInv, JobsOK, [Next]_vars
    PROVE  \/ StandsStill
           \/ Ends
           \/ \E t \in Thread : Between(t) \/ Inside(t)
<1> USE DEF IInv
<1>1. CASE HandlerTake
  <2>1. PICK did, r, j :
            /\ thread' = [thread EXCEPT ![Handler] = j]
            /\ j = [stage |-> "rules", key |-> Head(notify).key, kind |-> did,
                    obj |-> Head(notify).old, calls |-> <<>>, rule |-> r]
    BY <1>1, Zenon DEF HandlerTake
  <2>2. Job(j) /\ j.calls = <<>>
    BY <2>1 DEF Job
  <2>3. /\ K' = K /\ disturbed \subseteq disturbed' /\ Handler \in Thread
        /\ thread[Handler].calls = <<>>
    BY <1>1, Constants DEF HandlerTake, Idle, Blank
  <2> QED BY <2>1, <2>2, <2>3, NewBetween
<1>2. CASE HandlerDone
  <2>1. /\ thread' = [thread EXCEPT ![Handler] = Idle]
        /\ thread[Handler].calls = <<>> /\ K' = K /\ disturbed' = disturbed
    BY <1>2 DEF HandlerDone, RulesDone
  <2>2. Job(Idle) /\ Idle.calls = <<>>
    BY DEF Job, Idle, Blank
  <2> QED BY <2>1, <2>2, NewBetween, Constants
<1>3. ASSUME NEW w \in Worker, syncHandler(w)
      PROVE  Between(w)
  <2>1. PICK kind, r, j :
            /\ thread' = [thread EXCEPT ![w] = j]
            /\ j = [stage |-> "rules", key |-> thread[w].key, kind |-> kind,
                    obj |-> cache[thread[w].key], calls |-> <<>>, rule |-> r]
    BY <1>3, Zenon DEF syncHandler
  <2>2. Job(j) /\ j.calls = <<>>
    BY <2>1 DEF Job
  <2>3. K' = K /\ disturbed \subseteq disturbed' /\ thread[w].stage = "got"
    BY <1>3 DEF syncHandler
  <2>4. thread[w].calls = <<>> /\ w \in Thread
    BY <2>3, Constants DEF JobsOK, JobOK
  <2> QED BY <2>1, <2>2, <2>3, <2>4, NewBetween
<1>4. ASSUME NEW w \in Worker, Rests(w)
      PROVE  Between(w)
  BY <1>4 DEF Rests, Between
<1> QED BY <1>1, <1>2, <1>3, <1>4, Cases, LoadsBetween, Constants

\* The jobs are as they should be at first.
LEMMA InitJobsOK == Init => JobsOK
  BY BlankOK DEF Init, JobsOK, Idle

-----------------------------------------------------------------------------
\* The NAT rule of a command.
RuleOf(c) == <<c.set, c.dst, c.to>>

\* The NAT chain holds each rule once, and one that a worker is about to insert
\* not at all.
SnatOK ==
    /\ Kernel(K) /\ Once(K.snat)
    /\ \A t \in Thread :
           thread[t].calls # <<>> /\ First(thread[t].calls).op = "snat"
               => RuleOf(First(thread[t].calls)) \notin ToSet(K.snat)

\* No rule is made by a deletion.
LEMMA DeleteSubset ==
    ASSUME NEW chain, Once(chain), NEW r
    PROVE  ToSet(deleteRule(chain, r)) \subseteq ToSet(chain)
<1>1. PICK S : chain \in Seq(S)
  BY DEF Once
<1>2. PICK new : new = deleteRule(chain, r)
  OBVIOUS
<1>3. CASE new = chain
  BY <1>2, <1>3
<1>4. CASE \E k \in 1..Len(chain) :
                  /\ new \in Seq(S)
                  /\ Len(new) = Len(chain) - 1
                  /\ \A i \in 1..(Len(chain) - 1) :
                         new[i] = IF i < k THEN chain[i] ELSE chain[i + 1]
  <2>1. PICK k \in 1..Len(chain) :
                  /\ new \in Seq(S)
                  /\ Len(new) = Len(chain) - 1
                  /\ \A i \in 1..(Len(chain) - 1) :
                         new[i] = IF i < k THEN chain[i] ELSE chain[i + 1]
    BY <1>4
  <2>2. ASSUME NEW i \in 1..Len(new)
        PROVE  \E j \in 1..Len(chain) : new[i] = chain[j]
    BY <1>1, <2>1
  <2>3. /\ ToSet(new) = {new[i] : i \in 1..Len(new)}
        /\ ToSet(chain) = {chain[i] : i \in 1..Len(chain)}
    BY <1>1, <2>1 DEF ToSet
  <2> QED BY <1>2, <2>2, <2>3
<1> QED BY <1>1, <1>2, <1>3, <1>4, DeleteShape

\* The command a goroutine is about to run is one its job may have.
LEMMA AheadProper ==
    ASSUME JobsOK, NEW t \in Thread, thread[t].calls # <<>>
    PROVE  \E dst : Proper(thread[t].kind, thread[t].key, dst, First(thread[t].calls))
<1>1. CallsOK(thread[t].kind, thread[t].key, thread[t].calls)
  BY DEF JobsOK, JobOK
<1> QED BY <1>1, Begun

\* Two goroutines are not about to insert the same rule.
LEMMA SnatsDiffer ==
    ASSUME NamesApart, IInv, JobsOK, NEW t \in Thread, NEW u \in Thread, t # u,
           thread[t].calls # <<>>, First(thread[t].calls).op = "snat",
           thread[u].calls # <<>>, First(thread[u].calls).op = "snat"
    PROVE  RuleOf(First(thread[t].calls)) # RuleOf(First(thread[u].calls))
<1>1. ASSUME NEW v \in Thread, thread[v].calls # <<>>, First(thread[v].calls).op = "snat"
      PROVE  /\ v \in Worker /\ thread[v].stage # "idle" /\ thread[v].key \in Key
             /\ First(thread[v].calls).set[1] = FullName[thread[v].key]
  <2>1. /\ thread[v].kind = "gateway"
        /\ First(thread[v].calls).set[1] = FullName[thread[v].key]
    BY <1>1, AheadProper DEF Proper
  <2>2. v # Handler /\ thread[v].stage = "rules"
    BY <1>1, <2>1 DEF JobsOK, JobOK
  <2>3. thread[v].key \in Key
    BY <2>2 DEF IInv, TypeOK, ThreadsOK
  <2> QED BY <2>1, <2>2, <2>3 DEF Thread
<1>2. thread[t].key # thread[u].key
  BY <1>1 DEF IInv, OneSyncPerKey
<1>3. FullName[thread[t].key] # FullName[thread[u].key]
  BY <1>1, <1>2 DEF NamesApart
<1> QED BY <1>1, <1>3 DEF RuleOf

\* Every step keeps the NAT chain so.
LEMMA NextSnatOK ==
    ASSUME NamesApart, IInv, JobsOK, SnatOK, [Next]_vars
    PROVE  SnatOK'
<1>1. CASE StandsStill
  BY <1>1 DEF StandsStill, SnatOK
<1>2. CASE Ends
  <2>1. Kernel(K') /\ Once(K'.snat)
    <3>1. CASE K' = K
      BY <3>1 DEF SnatOK
    <3>2. ASSUME NEW s, K' = Effect(Effect(K, Cmd("create", s, None, None)),
                                    Cmd("flush", s, None, None))
          PROVE  Kernel(K') /\ Once(K'.snat)
      <4>1. PICK a, b, L : /\ a = Cmd("create", s, None, None)
                           /\ b = Cmd("flush", s, None, None) /\ L = Effect(K, a)
        OBVIOUS
      <4>2. a.op # "snat" /\ b.op # "snat" /\ K' = Effect(L, b)
        BY <3>2, <4>1 DEF Cmd
      <4>3. Kernel(L) /\ Once(L.snat)
        BY <4>1, <4>2, EffectOnce DEF SnatOK
      <4> QED BY <4>2, <4>3, EffectOnce
    <3> QED BY <1>2, <3>1, <3>2 DEF Ends
  <2>2. \A t \in Thread : thread'[t].calls = <<>>
    BY <1>2 DEF Ends, Idle, Blank
  <2> QED BY <2>1, <2>2 DEF SnatOK
<1>3. ASSUME NEW t \in Thread, Between(t)
      PROVE  SnatOK'
  BY <1>3 DEF Between, SnatOK
<1>4. ASSUME NEW t \in Thread, thread[t].calls # <<>>, Failing(t)
      PROVE  SnatOK'
  <2>1. K' = K /\ \A u \in Thread : u # t => thread'[u] = thread[u]
    BY <1>4 DEF Failing, Moves
  <2>2. thread'[t].calls = <<>> \/ thread'[t].calls = Tail(thread[t].calls)
    BY <1>4, MovesFields DEF Failing
  <2>3. CallsOK(thread[t].kind, thread[t].key, thread[t].calls)
    BY DEF JobsOK, JobOK
  <2>4. Tail(thread[t].calls) # <<>> => First(Tail(thread[t].calls)).op # "snat"
    BY <1>4, <2>3, Begun
  <2> QED BY <2>1, <2>2, <2>4 DEF SnatOK
<1>5. ASSUME NEW t \in Thread, thread[t].calls # <<>>, NEW n \in {1, 2}, Going(t, n)
      PROVE  SnatOK'
  <2>1. PICK c, calls, rest : /\ calls = thread[t].calls /\ c = First(calls)
                              /\ rest = Rest(calls, n)
    OBVIOUS
  <2>2. /\ ~Fails(K, c) /\ K' = Effect(K, c)
        /\ thread'[t].calls = rest
        /\ \A u \in Thread : u # t => thread'[u] = thread[u]
        /\ n = 2 => Skips(K, c) /\ c.op \in Check
        /\ n = 1 => ~Skips(K, c)
    BY <1>5, <2>1 DEF Going, Moves, With
  <2>3. Kernel(K) /\ Once(K.snat)
    BY DEF SnatOK
  <2>4. Kernel(K') /\ NatWritten(K, c, K')
    BY <2>2, <2>3, EffectFields
  <2>5. Once(K'.snat)
    BY <1>5, <2>1, <2>2, <2>3, EffectOnce DEF SnatOK, RuleOf
  <2>6. ASSUME NEW r, r \notin ToSet(K.snat), c.op = "snat" => r # RuleOf(c)
        PROVE  r \notin ToSet(K'.snat)
    <3>1. CASE c.op = "snat"
      <4>1. PICK S : K.snat \in Seq(S)
        BY <2>3 DEF Once
      <4>2. ToSet(Insert(K.snat, RuleOf(c))) = ToSet(K.snat) \union {RuleOf(c)}
        BY <4>1, InsertShape
      <4>3. K'.snat = Insert(K.snat, RuleOf(c))
        BY <2>4, <3>1 DEF NatWritten, RuleOf
      <4> QED BY <2>6, <3>1, <4>2, <4>3
    <3>2. CASE c.op = "unsnat"
      <4>1. K'.snat = deleteRule(K.snat, RuleOf(c))
        BY <2>4, <3>2 DEF NatWritten, RuleOf
      <4> QED BY <2>3, <2>6, <4>1, DeleteSubset
    <3>3. CASE c.op \notin {"snat", "unsnat"}
      BY <2>4, <2>6, <3>3 DEF NatWritten
    <3> QED BY <3>1, <3>2, <3>3
  <2>7. ASSUME NEW u \in Thread, u # t, thread[u].calls # <<>>,
               First(thread[u].calls).op = "snat"
        PROVE  RuleOf(First(thread[u].calls)) \notin ToSet(K'.snat)
    <3>1. RuleOf(First(thread[u].calls)) \notin ToSet(K.snat)
      BY <2>7 DEF SnatOK
    <3>2. c.op = "snat" => RuleOf(First(thread[u].calls)) # RuleOf(c)
      BY <1>5, <2>1, <2>7, SnatsDiffer
    <3> QED BY <2>6, <3>1, <3>2
  <2>8. ASSUME rest # <<>>, First(rest).op = "snat"
        PROVE  RuleOf(First(rest)) \notin ToSet(K'.snat)
    <3>1. PICK d : d = First(rest)
      OBVIOUS
    <3>2. CallsOK(thread[t].kind, thread[t].key, calls)
      BY <2>1 DEF JobsOK, JobOK
    <3>3. n = 1 /\ c.op = "snatList" /\ Alike(c, d) /\ c.to = d.to
      <4>1. calls # <<>> /\ (n = 2 => First(calls).op \in Check)
        BY <1>5, <2>1, <2>2
      <4> QED BY <2>1, <2>8, <3>1, <3>2, <4>1, NextCommand
    <3>4. RuleOf(c) \notin ToSet(K.snat)
      BY <2>2, <3>3 DEF Skips, RuleOf
    <3>5. RuleOf(c) = RuleOf(d)
      BY <3>3 DEF Alike, RuleOf
    <3> QED BY <2>6, <3>1, <3>3, <3>4, <3>5
  <2> QED BY <2>2, <2>4, <2>5, <2>7, <2>8 DEF SnatOK
<1> QED BY <1>1, <1>2, <1>3, <1>4, <1>5, Steps DEF Inside

\* No retry, resync, restart or interleaving of workers and handler brings the
\* same SNAT rule into the chain twice, although insertRule looks for it and
\* inserts it in two commands; if no two objects have one name for their sets.
THEOREM SnatOnceHolds == NamesApart => (Spec => []SnatOnce)
<1> SUFFICES ASSUME NamesApart PROVE Spec => []SnatOnce
  OBVIOUS
<1>1. Init => JobsOK /\ SnatOK
  <2>1. Init => \A t \in Thread : thread[t].calls = <<>>
    BY DEF Init, Idle, Blank
  <2> QED BY <2>1, EmptyOnce, InitJobsOK DEF Init, SnatOK
<1>2. IInv /\ JobsOK /\ SnatOK /\ [Next]_vars => IInv' /\ JobsOK' /\ SnatOK'
  BY NextIInv, NextJobsOK, NextSnatOK
<1>3. SnatOK => SnatOnce
  BY DEF SnatOK, Once, SnatOnce
<1> QED BY <1>1, <1>2, <1>3, InitIInv, PTL DEF Spec

-----------------------------------------------------------------------------
\* A configuration without pods of a set, and without a director's rules for it.
Free(L, s, d) ==
    /\ \A m \in L.member : m[1] # s
    /\ <<s, d>> \notin L.mark \union L.bypass

\* The commands that end this.
Takes == {"add", "mark", "bypass"}

\* A deletion in the middle of the rule with set s and destination d: of its
\* seven commands the last ones are left.
Deletes(L, calls, s, d) ==
    LET left == Len(Head(calls).cmds)
    IN  /\ DeleteLeft(calls, s, d)
        /\ left <= 6 => s \in L.sets
        /\ left <= 5 => \A m \in L.member : m[1] # s
        /\ left <= 4 => <<s, d>> \notin L.mark
        /\ left <= 3 => <<s, d>> \notin L.bypass

\* Commands for other sets change nothing of that.
LEMMA FreeKept ==
    ASSUME NEW M, Kernel(M), NEW c, NEW L, L = Effect(M, c), NEW s, NEW d,
           c.op \in Takes => c.set # s
    PROVE  /\ Kernel(L)
           /\ Free(M, s, d) => Free(L, s, d)
           /\ c.op # "destroy" =>
                  \A calls : Deletes(M, calls, s, d) => Deletes(L, calls, s, d)
<1>1. Kernel(L) /\ SetsWritten(M, c, L) /\ RulesWritten(M, c, L)
  BY EffectFields
<1>2. ASSUME \A m \in M.member : m[1] # s
      PROVE  \A m \in L.member : m[1] # s
  <2>1. c.op = "add" => <<c.set, c.to>>[1] # s
    BY DEF Takes
  <2> QED BY <1>1, <1>2, <2>1 DEF SetsWritten
<1>3. ASSUME c.op \in Takes PROVE <<c.set, c.dst>> # <<s, d>>
  BY <1>3
<1>4. /\ <<s, d>> \notin M.mark => <<s, d>> \notin L.mark
      /\ <<s, d>> \notin M.bypass => <<s, d>> \notin L.bypass
  BY <1>1, <1>3 DEF RulesWritten, Takes
<1>5. c.op # "destroy" => (s \in M.sets => s \in L.sets)
  BY <1>1 DEF SetsWritten
<1> QED BY <1>1, <1>2, <1>4, <1>5 DEF Free, Deletes

\* A command of the deletion itself.  It fails only when nothing is left to take
\* away, and at the end nothing is.
LEMMA DeleteGoesOn ==
    ASSUME NEW M, Kernel(M), NEW kind, NEW key, NEW calls, CallsOK(kind, key, calls),
           NEW s, NEW d, Deletes(M, calls, s, d), NEW c, c = First(calls)
    PROVE  /\ c.op \notin Takes
           /\ Tail(calls) = <<>>
           /\ Fails(M, c) => Free(M, s, d)
           /\ ~Fails(M, c) =>
                  \A n \in {1, 2} : \A L, rest :
                      /\ n = 2 => Skips(M, c)
                      /\ L = Effect(M, c) /\ rest = Rest(calls, n)
                      => \/ rest = <<>> /\ Free(L, s, d)
                         \/ rest # <<>> /\ Deletes(L, rest, s, d)
<1>1. PICK cmds, left : cmds = Head(calls).cmds /\ left = Len(cmds)
  OBVIOUS
<1>2. /\ calls # <<>> /\ Tail(calls) = <<>> /\ LastSteps(cmds, s, d)
      /\ left \in Nat \ {0} /\ left <= 7 /\ DeleteLeft(calls, s, d)
  BY <1>1 DEF Deletes, DeleteLeft, LastSteps
<1>3. c = cmds[1]
  BY <1>1, <1>2, Begun
<1>4. c = DeleteSteps(s, d)[1 + (7 - left)]
  <2>1. \A i \in 1..left : cmds[i] = DeleteSteps(s, d)[i + (7 - left)]
    BY <1>1, <1>2, Zenon DEF LastSteps
  <2>2. 1 \in 1..left
    BY <1>2
  <2> QED BY <1>3, <2>1, <2>2
<1>5. /\ left <= 6 => s \in M.sets
      /\ left <= 5 => \A m \in M.member : m[1] # s
      /\ left <= 4 => <<s, d>> \notin M.mark
      /\ left <= 3 => <<s, d>> \notin M.bypass
  BY <1>1 DEF Deletes
<1>6. left \in {1, 2, 3, 4, 5, 6, 7}
  BY <1>2
<1>7. /\ left = 7 => c = Cmd("create", s, None, None)
      /\ left = 6 => c = Cmd("flush", s, None, None)
      /\ left = 5 => c = Cmd("unmark", s, d, None)
      /\ left = 4 => c = Cmd("unbypass", s, d, None)
      /\ left = 3 => c = Cmd("routeList", None, d, None)
      /\ left = 2 => c = Cmd("routeDeleteVia", None, d, None)
      /\ left = 1 => c = Cmd("destroy", s, None, None)
  BY <1>4, <1>6, DeleteStep
<1>8. /\ left = 7 => c.op = "create" /\ c.set = s
      /\ left = 6 => c.op = "flush" /\ c.set = s
      /\ left = 5 => c.op = "unmark" /\ c.set = s /\ c.dst = d
      /\ left = 4 => c.op = "unbypass" /\ c.set = s /\ c.dst = d
      /\ left = 3 => c.op = "routeList"
      /\ left = 2 => c.op = "routeDeleteVia"
      /\ left = 1 => c.op = "destroy" /\ c.set = s
  BY <1>7 DEF Cmd
<1>9. c.op \notin Takes
  BY <1>6, <1>8 DEF Takes
<1>10. ASSUME Fails(M, c) PROVE Free(M, s, d)
  <2>1. left # 7
    BY <1>8, <1>10, RuleChains DEF Fails
  <2>2. left # 6 /\ left # 5 /\ left # 4
    BY <1>5, <1>8, <1>10, RuleChains DEF Fails
  <2> QED BY <1>5, <1>6, <2>1, <2>2 DEF Free
<1>11. ASSUME NEW n \in {1, 2}, n = 2 => Skips(M, c), NEW L, L = Effect(M, c),
              NEW rest, rest = Rest(calls, n), ~Fails(M, c)
       PROVE  \/ rest = <<>> /\ Free(L, s, d)
              \/ rest # <<>> /\ Deletes(L, rest, s, d)
  <2>1. Kernel(L) /\ SetsWritten(M, c, L) /\ RulesWritten(M, c, L)
    BY <1>11, EffectFields
  <2>2. n = 2 => left = 3
    BY <1>6, <1>8, <1>11 DEF Skips
  <2>3. left # 2
    BY <1>8, <1>11 DEF Fails
  <2>4. \/ left <= n /\ rest = <<>>
        \/ DeleteLeft(rest, s, d) /\ Len(Head(rest).cmds) = left - n
    <3>1. n \in Nat /\ DeleteLeft(calls, s, d) /\ rest = Rest(calls, n)
      BY <1>2, <1>11
    <3>2. \/ Len(Head(calls).cmds) <= n /\ rest = <<>>
          \/ DeleteLeft(rest, s, d) /\ Len(Head(rest).cmds) = Len(Head(calls).cmds) - n
      BY <3>1, DeleteRest
    <3> QED BY <1>1, <3>2
  <2>5. left - n <= 6 => s \in L.sets \/ left = 1
    BY <1>5, <1>6, <1>8, <2>1 DEF SetsWritten
  <2>6. left - n <= 5 => \A m \in L.member : m[1] # s
    <3>1. CASE left = 6
      BY <1>8, <2>1, <3>1 DEF SetsWritten
    <3>2. CASE left <= 5
      BY <1>5, <1>6, <1>8, <2>1, <3>2 DEF SetsWritten
    <3>3. CASE left = 7
      BY <2>2, <3>3
    <3> QED BY <1>6, <3>1, <3>2, <3>3
  <2>7. left - n <= 4 => <<s, d>> \notin L.mark
    <3>1. CASE left = 5
      BY <1>8, <2>1, <3>1 DEF RulesWritten
    <3>2. CASE left <= 4
      BY <1>5, <1>6, <1>8, <2>1, <3>2 DEF RulesWritten
    <3>3. CASE left \in {6, 7}
      BY <2>2, <3>3
    <3> QED BY <1>6, <3>1, <3>2, <3>3
  <2>8. left - n <= 3 => <<s, d>> \notin L.bypass
    <3>1. CASE left = 4
      BY <1>8, <2>1, <3>1 DEF RulesWritten
    <3>2. CASE left <= 3
      BY <1>5, <1>6, <1>8, <2>1, <3>2 DEF RulesWritten
    <3>3. CASE left \in {5, 6, 7}
      BY <2>2, <3>3
    <3> QED BY <1>6, <3>1, <3>2, <3>3
  <2>9. CASE left <= n /\ rest = <<>>
    <3>1. left - n <= 3 /\ left - n <= 4 /\ left - n <= 5
      BY <1>6, <2>9
    <3> QED BY <2>6, <2>7, <2>8, <2>9, <3>1 DEF Free
  <2>10. CASE DeleteLeft(rest, s, d) /\ Len(Head(rest).cmds) = left - n
    <3>1. left # 1
      BY <2>10 DEF DeleteLeft, LastSteps
    <3> QED BY <2>5, <2>6, <2>7, <2>8, <2>10, <3>1 DEF Deletes, DeleteLeft
  <2> QED BY <2>4, <2>9, <2>10
<1> QED BY <1>2, <1>9, <1>10, <1>11

-----------------------------------------------------------------------------
\* The handler's cleanup and a worker's sync of an object that has not been
\* disturbed are not under way at once, and no worker syncs one whose deletion
\* is done.
Apart ==
    /\ \A k \in Key \ disturbed : Busy(Handler, k) => \A w \in Worker : ~Busy(w, k)
    /\ \A k \in Key : gone[k] # <<>> => \A w \in Worker : ~Busy(w, k)

\* The rules of the handler's object before n are let go of.
FreeBefore(n) ==
    \A i \in 1..Len(thread[Handler].obj.rules) :
        i < n => Free(K, generateRuleId(thread[Handler].key, i),
                      thread[Handler].obj.rules[i].dst)

\* The handler is at the rule before n.
DeletesAt(n) ==
    \E i \in 1..Len(thread[Handler].obj.rules) :
        /\ n = i + 1
        /\ FreeBefore(i)
        /\ Deletes(K, thread[Handler].calls, generateRuleId(thread[Handler].key, i),
                   thread[Handler].obj.rules[i].dst)

\* How far a deletion that has not been disturbed has come.
Deleting ==
    LET j == thread[Handler]
    IN  j.kind = "delete" /\ j.stage = "rules" /\ j.key \notin disturbed =>
            /\ j.calls = <<>> => FreeBefore(j.rule)
            /\ j.calls # <<>> => DeletesAt(j.rule)

DeletionOK == Kernel(K) /\ Apart /\ Deleting /\ DeletionReleases

\* Released is said of the node's configuration.
LEMMA ReleasedIsFree ==
    ASSUME NEW s, NEW r
    PROVE  /\ Released(s, r) <=> Free(K, s, r.dst)
           /\ Released(s, r)' <=> Free(K', s, r.dst)
  BY DEF Released, Free

\* A goroutine in a call goes on with its object.
LEMMA InsideFields ==
    ASSUME NEW t \in Thread, Inside(t)
    PROVE  /\ \A u \in Thread : /\ thread'[u].key = thread[u].key
                                /\ thread'[u].kind = thread[u].kind
                                /\ thread'[u].obj = thread[u].obj
                                /\ thread'[u].rule = thread[u].rule
           /\ \A u \in Thread : u # t => thread'[u] = thread[u]
           /\ disturbed \subseteq disturbed' /\ gone' = gone
<1>1. ASSUME NEW s, NEW c, Moves(t, s, thread[t].rule, c)
      PROVE  /\ \A u \in Thread : /\ thread'[u].key = thread[u].key
                                  /\ thread'[u].kind = thread[u].kind
                                  /\ thread'[u].obj = thread[u].obj
                                  /\ thread'[u].rule = thread[u].rule
             /\ \A u \in Thread : u # t => thread'[u] = thread[u]
  BY <1>1, MovesFields
<1>2. CASE Failing(t)
  BY <1>1, <1>2 DEF Failing, Inside
<1>3. ASSUME NEW n \in {1, 2}, Going(t, n)
      PROVE  /\ disturbed \subseteq disturbed'
             /\ Moves(t, "rules", thread[t].rule, Rest(thread[t].calls, n))
  BY <1>3 DEF Going
<1> QED BY <1>1, <1>2, <1>3 DEF Inside

\* The handler and the workers stay apart.
LEMMA NextApart ==
    ASSUME IInv, JobsOK, Apart, [Next]_vars
    PROVE  Apart'
<1>1. \A t \in Thread : /\ Busy(t, thread[t].key) <=> thread[t].kind \notin {"none", "other"}
                        /\ \A k : Busy(t, k) => thread[t].key = k
  BY DEF Busy
<1>2. CASE StandsStill
  BY <1>2 DEF StandsStill, Apart, Busy
<1>3. CASE Ends
  <2>1. \A t \in Thread : thread'[t].kind = "none"
    BY <1>3 DEF Ends, Idle, Blank
  <2> QED BY <2>1, Constants DEF Apart, Busy
<1>4. ASSUME NEW t \in Thread, Inside(t)
      PROVE  Apart'
  <2>1. \A u \in Thread : thread'[u].key = thread[u].key /\ thread'[u].kind = thread[u].kind
    BY <1>4, InsideFields
  <2>2. disturbed \subseteq disturbed' /\ gone' = gone
    BY <1>4, InsideFields
  <2> QED BY <2>1, <2>2, Constants DEF Apart, Busy
<1>5. ASSUME NEW t \in Thread, LoadRule(t)
      PROVE  Apart'
  <2>1. PICK lost : Moves(t, "rules", thread[t].rule + 1,
                          RuleCalls(Self, thread[t], Addresses(t), lost))
    BY <1>5, LoadRuleMoves DEF IInv
  <2>2. \A u \in Thread : thread'[u].key = thread[u].key /\ thread'[u].kind = thread[u].kind
    BY <2>1, MovesFields
  <2>3. disturbed' = disturbed /\ gone' = gone
    BY <1>5 DEF LoadRule, history
  <2> QED BY <2>2, <2>3, Constants DEF Apart, Busy
<1>6. CASE HandlerTake
  <2>1. PICK did, k, o, r :
            /\ thread' = [thread EXCEPT ![Handler] =
                   [stage |-> "rules", key |-> k, kind |-> did,
                    obj |-> o, calls |-> <<>>, rule |-> r]]
            /\ disturbed' = IF did \notin {"none", "other"} /\ \E w \in Worker : Busy(w, k)
                            THEN disturbed \union {k} ELSE disturbed
    BY <1>6, Zenon DEF HandlerTake
  <2>2. thread'[Handler].key = k /\ thread'[Handler].kind = did
    BY <2>1, Constants DEF IInv, Shape
  <2>3. \A w \in Worker : thread'[w] = thread[w]
    BY <2>1, Constants DEF IInv, Shape
  <2>4. gone' = gone
    BY <1>6 DEF HandlerTake
  <2>5. ASSUME NEW l \in Key, l \notin disturbed', Busy(Handler, l)', NEW w \in Worker
        PROVE  ~Busy(w, l)'
    <3>1. l = k /\ did \notin {"none", "other"}
      BY <2>2, <2>5 DEF Busy
    <3>2. ~Busy(w, l)
      BY <2>1, <2>5, <3>1
    <3> QED BY <2>3, <3>2 DEF Busy
  <2>6. ASSUME NEW l \in Key, gone'[l] # <<>>, NEW w \in Worker
        PROVE  ~Busy(w, l)'
    BY <2>3, <2>4, <2>6 DEF Apart, Busy
  <2> QED BY <2>5, <2>6 DEF Apart
<1>7. CASE HandlerDone
  <2>1. /\ thread' = [thread EXCEPT ![Handler] = Idle] /\ disturbed' = disturbed
        /\ gone' = IF thread[Handler].kind = "delete" /\ thread[Handler].key \notin disturbed
                   THEN [gone EXCEPT ![thread[Handler].key] = thread[Handler].obj.rules]
                   ELSE gone
        /\ thread[Handler].stage = "rules"
    BY <1>7, Zenon DEF HandlerDone, RulesDone
  <2>2. thread'[Handler].kind = "none"
    BY <2>1, Constants DEF IInv, Shape, Idle, Blank
  <2>3. \A w \in Worker : thread'[w] = thread[w]
    BY <2>1, Constants DEF IInv, Shape
  <2>4. ASSUME NEW l \in Key, gone'[l] # <<>>, NEW w \in Worker
        PROVE  ~Busy(w, l)'
    <3>1. CASE gone'[l] = gone[l]
      BY <2>3, <2>4, <3>1 DEF Apart, Busy
    <3>2. CASE gone'[l] # gone[l]
      <4>1. /\ thread[Handler].kind = "delete" /\ thread[Handler].key \notin disturbed
            /\ thread[Handler].key = l
        BY <2>1, <3>2 DEF IInv, TypeOK
      <4>2. Busy(Handler, l) /\ l \notin disturbed
        BY <4>1 DEF Busy
      <4> QED BY <2>3, <4>2 DEF Apart, Busy
    <3> QED BY <3>1, <3>2
  <2> QED BY <2>2, <2>4 DEF Apart, Busy
<1>8. ASSUME NEW w \in Worker, syncHandler(w)
      PROVE  Apart'
  <2>1. PICK k, o, kind, r :
            /\ k = thread[w].key /\ kind = SyncKind(Self, o)
            /\ thread' = [thread EXCEPT ![w] =
                   [stage |-> "rules", key |-> k, kind |-> kind,
                    obj |-> o, calls |-> <<>>, rule |-> r]]
            /\ disturbed' = IF kind # "none" /\ Busy(Handler, k)
                            THEN disturbed \union {k} ELSE disturbed
            /\ gone' = IF kind = "none" THEN gone ELSE [gone EXCEPT ![k] = <<>>]
    BY <1>8, Zenon DEF syncHandler
  <2>2. thread'[w].key = k /\ thread'[w].kind = kind
    BY <2>1, Constants DEF IInv, Shape
  <2>3. \A u \in Thread : u # w => thread'[u] = thread[u]
    BY <2>1 DEF IInv, Shape
  <2>4. ASSUME NEW l \in Key, l \notin disturbed', Busy(Handler, l)', NEW v \in Worker
        PROVE  ~Busy(v, l)'
    <3>1. Busy(Handler, l)
      BY <2>3, <2>4, Constants DEF Busy
    <3>2. CASE v = w
      BY <2>1, <2>2, <2>4, <3>1, <3>2 DEF Busy
    <3>3. CASE v # w
      <4>1. l \notin disturbed
        BY <2>1, <2>4
      <4> QED BY <2>3, <3>1, <3>3, <4>1, Constants DEF Apart, Busy
    <3> QED BY <3>2, <3>3
  <2>5. ASSUME NEW l \in Key, gone'[l] # <<>>, NEW v \in Worker
        PROVE  ~Busy(v, l)'
    <3>1. l = k => kind = "none"
      BY <2>1, <2>5 DEF IInv, TypeOK
    <3>2. gone[l] # <<>>
      BY <2>1, <2>5 DEF IInv, TypeOK
    <3>3. CASE v = w
      BY <2>2, <3>1, <3>3 DEF Busy
    <3>4. CASE v # w
      BY <2>3, <3>2, <3>4, Constants DEF Apart, Busy
    <3> QED BY <3>3, <3>4
  <2> QED BY <2>4, <2>5 DEF Apart
<1>9. ASSUME NEW w \in Worker, Rests(w)
      PROVE  Apart'
  <2>1. thread'[w].kind = "none" /\ \A u \in Thread : u # w => thread'[u] = thread[u]
    BY <1>9 DEF Rests
  <2>2. \A l, v : v \in Thread /\ Busy(v, l)' => Busy(v, l)
    BY <2>1 DEF Busy
  <2>3. disturbed' = disturbed /\ gone' = gone
    BY <1>9 DEF Rests
  <2> QED BY <2>2, <2>3, Constants DEF Apart
<1> QED BY <1>2, <1>3, <1>4, <1>5, <1>6, <1>7, <1>8, <1>9, Cases

\* Who takes pods into a set or writes a director's rules, and who destroys sets.
LEMMA TakesByWorkers ==
    ASSUME IInv, JobsOK, NEW t \in Thread, thread[t].calls # <<>>,
           NEW c, c = First(thread[t].calls)
    PROVE  /\ c.op \in Takes => /\ t \in Worker /\ thread[t].key \in Key
                                /\ Busy(t, thread[t].key)
                                /\ c.set[1] = FullName[thread[t].key]
           /\ c.op \in {"destroy", "unmark"} => /\ t = Handler /\ thread[t].key \in Key
                                                /\ Busy(t, thread[t].key)
                                                /\ c.set[1] = FullName[thread[t].key]
<1>1. PICK dst : Proper(thread[t].kind, thread[t].key, dst, c)
  BY AheadProper
<1>2. thread[t].stage = "rules" /\ thread[t].key \in Key
  BY DEF JobsOK, JobOK, IInv, TypeOK, ThreadsOK
<1>3. /\ t \in Worker => thread[t].kind \in {"none", "gateway", "director"}
      /\ t = Handler => thread[t].kind \in {"none", "other", "demote", "promote", "delete"}
  BY DEF JobsOK, JobOK
<1>4. t \in Worker \/ t = Handler
  BY DEF Thread
<1>5. ASSUME c.op \in Takes
      PROVE  /\ t \in Worker /\ Busy(t, thread[t].key)
             /\ c.set[1] = FullName[thread[t].key]
  <2>1. thread[t].kind \in {"gateway", "director"} /\ c.set[1] = FullName[thread[t].key]
    BY <1>1, <1>5 DEF Proper, Takes
  <2> QED BY <1>3, <1>4, <2>1 DEF Busy
<1>6. ASSUME c.op \in {"destroy", "unmark"}
      PROVE  /\ t = Handler /\ Busy(t, thread[t].key)
             /\ c.set[1] = FullName[thread[t].key]
  <2>1. /\ thread[t].kind \in {"demote", "promote", "delete"}
        /\ c.set[1] = FullName[thread[t].key]
    BY <1>1, <1>6 DEF Proper
  <2> QED BY <1>3, <1>4, <2>1 DEF Busy
<1> QED BY <1>2, <1>5, <1>6

\* Nobody takes pods into the sets of an object that no worker syncs.
LEMMA NotTaken ==
    ASSUME NamesApart, IInv, JobsOK, NEW t \in Thread, thread[t].calls # <<>>,
           NEW c, c = First(thread[t].calls), c.op \in Takes,
           NEW k \in Key, \A w \in Worker : ~Busy(w, k), NEW i
    PROVE  c.set # generateRuleId(k, i)
<1>1. /\ t \in Worker /\ thread[t].key \in Key /\ Busy(t, thread[t].key)
      /\ c.set[1] = FullName[thread[t].key]
  BY TakesByWorkers
<1>2. thread[t].key # k
  BY <1>1
<1>3. c.set[1] # FullName[k]
  BY <1>1, <1>2 DEF NamesApart
<1>4. generateRuleId(k, i)[1] = FullName[k]
  BY DEF generateRuleId
<1> QED BY <1>3, <1>4

\* What is released stays so, whoever runs a command.
LEMMA NextReleases ==
    ASSUME NamesApart, IInv, JobsOK, DeletionOK, [Next]_vars
    PROVE  Kernel(K') /\ DeletionReleases'
<1>1. /\ Kernel(K) /\ gone \in [Key -> Specs \union {<<>>}]
      /\ \A k \in Key : \A i \in 1..Len(gone[k]) : Free(K, generateRuleId(k, i), gone[k][i].dst)
  BY ReleasedIsFree DEF DeletionOK, DeletionReleases, IInv, TypeOK
<1>2. SUFFICES /\ Kernel(K')
               /\ \A k \in Key : \A i \in 1..Len(gone'[k]) :
                      Free(K', generateRuleId(k, i), gone'[k][i].dst)
  BY ReleasedIsFree DEF DeletionReleases
<1>3. ASSUME K' = K, \A k \in Key : gone'[k] = gone[k] \/ Len(gone'[k]) = 0
      PROVE  /\ Kernel(K')
             /\ \A k \in Key : \A i \in 1..Len(gone'[k]) :
                    Free(K', generateRuleId(k, i), gone'[k][i].dst)
  BY <1>1, <1>3
<1>4. CASE StandsStill
  BY <1>3, <1>4 DEF StandsStill
<1>5. CASE Ends
  <2>1. CASE K' = K
    BY <1>3, <1>5, <2>1 DEF Ends
  <2>2. ASSUME NEW s, K' = Effect(Effect(K, Cmd("create", s, None, None)),
                                  Cmd("flush", s, None, None))
        PROVE  /\ Kernel(K')
               /\ \A k \in Key : \A i \in 1..Len(gone'[k]) :
                      Free(K', generateRuleId(k, i), gone'[k][i].dst)
    <3>1. PICK a, b, L : /\ a = Cmd("create", s, None, None)
                         /\ b = Cmd("flush", s, None, None) /\ L = Effect(K, a)
      OBVIOUS
    <3>2. a.op \notin Takes /\ b.op \notin Takes /\ K' = Effect(L, b)
      BY <2>2, <3>1 DEF Cmd, Takes
    <3>3. Kernel(L) /\ Kernel(K')
      BY <1>1, <3>1, <3>2, EffectFields
    <3>4. \A x, d : Free(K, x, d) => Free(L, x, d)
      BY <1>1, <3>1, <3>2, FreeKept
    <3>5. \A x, d : Free(L, x, d) => Free(K', x, d)
      BY <3>2, <3>3, FreeKept
    <3> QED BY <1>1, <1>5, <3>3, <3>4, <3>5 DEF Ends
  <2> QED BY <1>5, <2>1, <2>2 DEF Ends
<1>6. ASSUME NEW t \in Thread, LoadRule(t)
      PROVE  K' = K /\ gone' = gone
  BY <1>6 DEF LoadRule, history
<1>7. ASSUME NEW t \in Thread, Inside(t)
      PROVE  /\ Kernel(K')
             /\ \A k \in Key : \A i \in 1..Len(gone'[k]) :
                    Free(K', generateRuleId(k, i), gone'[k][i].dst)
  <2>1. CASE Failing(t)
    BY <1>3, <1>7, <2>1 DEF Failing, Inside
  <2>2. ASSUME NEW n \in {1, 2}, Going(t, n)
        PROVE  /\ Kernel(K')
               /\ \A k \in Key : \A i \in 1..Len(gone'[k]) :
                      Free(K', generateRuleId(k, i), gone'[k][i].dst)
    <3>1. PICK c : c = First(thread[t].calls)
      OBVIOUS
    <3>2. K' = Effect(K, c) /\ thread[t].calls # <<>> /\ gone' = gone
      BY <1>7, <2>2, <3>1 DEF Going, Inside
    <3>3. Kernel(K')
      BY <1>1, <3>2, EffectFields
    <3>4. ASSUME NEW k \in Key, NEW i \in 1..Len(gone'[k])
          PROVE  Free(K', generateRuleId(k, i), gone'[k][i].dst)
      <4>1. gone[k] # <<>>
        BY <3>2, <3>4
      <4>2. \A w \in Worker : ~Busy(w, k)
        BY <4>1 DEF DeletionOK, Apart
      <4>3. c.op \in Takes => c.set # generateRuleId(k, i)
        BY <3>1, <3>2, <4>2, NotTaken
      <4>4. Free(K, generateRuleId(k, i), gone[k][i].dst)
        BY <1>1, <3>2, <3>4
      <4> QED BY <1>1, <3>2, <4>3, <4>4, FreeKept
    <3> QED BY <3>3, <3>4
  <2> QED BY <1>7, <2>1, <2>2 DEF Inside
<1>8. CASE HandlerTake
  BY <1>3, <1>8 DEF HandlerTake
<1>9. CASE HandlerDone
  <2>1. PICK j : j = thread[Handler]
    OBVIOUS
  <2>2. /\ K' = K /\ j.stage = "rules" /\ j.calls = <<>> /\ j.rule > Len(j.obj.rules)
        /\ gone' = IF j.kind = "delete" /\ j.key \notin disturbed
                   THEN [gone EXCEPT ![j.key] = j.obj.rules] ELSE gone
    BY <1>9, <2>1, Zenon DEF HandlerDone, RulesDone
  <2>3. j.obj \in Object /\ j.rule \in Nat
    BY <2>1, Constants DEF IInv, TypeOK, ThreadsOK, JobsOK, JobOK
  <2>4. Len(j.obj.rules) \in Nat
    BY <2>3, ObjectRules
  <2>5. CASE j.kind = "delete" /\ j.key \notin disturbed
    <3>1. FreeBefore(j.rule)
      BY <2>1, <2>2, <2>5 DEF DeletionOK, Deleting
    <3>2. \A i \in 1..Len(j.obj.rules) : Free(K, generateRuleId(j.key, i), j.obj.rules[i].dst)
      BY <2>1, <2>2, <2>3, <2>4, <3>1 DEF FreeBefore
    <3>3. \A k \in Key : gone'[k] = IF k = j.key THEN j.obj.rules ELSE gone[k]
      BY <1>1, <2>2, <2>5
    <3> QED BY <1>1, <2>2, <3>2, <3>3
  <2>6. CASE ~(j.kind = "delete" /\ j.key \notin disturbed)
    BY <1>3, <2>2, <2>6
  <2> QED BY <2>5, <2>6
<1>10. ASSUME NEW w \in Worker, syncHandler(w)
       PROVE  /\ Kernel(K')
              /\ \A k \in Key : \A i \in 1..Len(gone'[k]) :
                     Free(K', generateRuleId(k, i), gone'[k][i].dst)
  <2>1. K' = K /\ \E l : gone' = gone \/ gone' = [gone EXCEPT ![l] = <<>>]
    BY <1>10 DEF syncHandler
  <2>2. \A k \in Key : gone'[k] = gone[k] \/ gone'[k] = <<>>
    BY <1>1, <2>1
  <2> QED BY <1>3, <2>1, <2>2
<1>11. ASSUME NEW w \in Worker, Rests(w)
       PROVE  K' = K /\ gone' = gone
  BY <1>11 DEF Rests
<1> QED BY <1>3, <1>4, <1>5, <1>6, <1>7, <1>8, <1>9, <1>10, <1>11, Cases

\* The commands of other goroutines do not put the handler's deletion back.
LEMMA DeletingKept ==
    ASSUME NEW c, Kernel(K), K' = Effect(K, c), c.op # "destroy",
           thread'[Handler] = thread[Handler], disturbed \subseteq disturbed', Deleting,
           thread[Handler].kind = "delete" /\ thread[Handler].key \notin disturbed =>
               (c.op \in Takes => \A i : c.set # generateRuleId(thread[Handler].key, i))
    PROVE  Deleting'
<1> SUFFICES ASSUME thread[Handler].kind = "delete", thread[Handler].key \notin disturbed,
                    thread[Handler].stage = "rules"
             PROVE  Deleting'
  BY DEF Deleting
<1>1. PICK j : j = thread[Handler]
  OBVIOUS
<1>2. ASSUME NEW i, NEW d
      PROVE  /\ Free(K, generateRuleId(j.key, i), d) => Free(K', generateRuleId(j.key, i), d)
             /\ \A calls : Deletes(K, calls, generateRuleId(j.key, i), d)
                    => Deletes(K', calls, generateRuleId(j.key, i), d)
  <2>1. PICK s : s = generateRuleId(j.key, i)
    OBVIOUS
  <2>2. c.op \in Takes => c.set # s
    BY <1>1, <2>1
  <2> QED BY <2>1, <2>2, FreeKept
<1>3. ASSUME NEW n, FreeBefore(n) PROVE FreeBefore(n)'
  BY <1>1, <1>2, <1>3 DEF FreeBefore
<1>4. ASSUME NEW n, DeletesAt(n) PROVE DeletesAt(n)'
  <2>1. PICK i \in 1..Len(j.obj.rules) :
            /\ n = i + 1 /\ FreeBefore(i)
            /\ Deletes(K, j.calls, generateRuleId(j.key, i), j.obj.rules[i].dst)
    BY <1>1, <1>4 DEF DeletesAt
  <2>2. Deletes(K', j.calls, generateRuleId(j.key, i), j.obj.rules[i].dst)
    BY <1>2, <2>1
  <2>3. FreeBefore(i)'
    BY <1>3, <2>1
  <2> QED BY <1>1, <2>1, <2>2, <2>3 DEF DeletesAt
<1>5. /\ j.calls = <<>> => FreeBefore(j.rule)
      /\ j.calls # <<>> => DeletesAt(j.rule)
  BY <1>1 DEF Deleting
<1>6. /\ j.calls = <<>> => FreeBefore(j.rule)'
      /\ j.calls # <<>> => DeletesAt(j.rule)'
  BY <1>3, <1>4, <1>5
<1> QED BY <1>1, <1>6 DEF Deleting

\* Nor do steps that leave it and the configuration alone.
LEMMA DeletingStays ==
    ASSUME K' = K, thread'[Handler] = thread[Handler], disturbed \subseteq disturbed', Deleting
    PROVE  Deleting'
  BY DEF Deleting, FreeBefore, DeletesAt

\* The handler begins with a rule.
LEMMA DeletingLoads ==
    ASSUME IInv, JobsOK, Deleting, LoadRule(Handler)
    PROVE  Deleting'
<1>1. PICK j : j = thread[Handler]
  OBVIOUS
<1>2. PICK lost : Moves(Handler, "rules", j.rule + 1, RuleCalls(Self, j, Addresses(Handler), lost))
  BY <1>1, Constants, LoadRuleMoves DEF IInv
<1>3. /\ j.stage = "rules" /\ j.calls = <<>> /\ j.rule <= Len(j.obj.rules)
      /\ K' = K /\ disturbed' = disturbed
  BY <1>1 DEF LoadRule, RulesLeft, history
<1>4. j.rule \in Nat \ {0} /\ j.obj \in Object
  BY <1>1, <1>3, Constants DEF JobsOK, JobOK, IInv, TypeOK, ThreadsOK
<1>5. Len(j.obj.rules) \in Nat
  BY <1>4, ObjectRules
<1> SUFFICES ASSUME j.kind = "delete", j.key \notin disturbed
             PROVE  Deleting'
  BY <1>1, <1>2, <1>3, MovesFields DEF Deleting
<1>6. PICK i, s, r : i = j.rule /\ s = generateRuleId(j.key, i) /\ r = j.obj.rules[i]
  OBVIOUS
<1>7. PICK calls : calls = DeleteRule(s, r)
  OBVIOUS
<1>8. RuleCalls(Self, j, Addresses(Handler), lost) = calls
  BY <1>6, <1>7 DEF RuleCalls
<1>9. /\ thread'[Handler].calls = calls /\ thread'[Handler].rule = i + 1
      /\ thread'[Handler].key = j.key /\ thread'[Handler].obj = j.obj
  <2>1. Moves(Handler, "rules", j.rule + 1, calls)
    BY <1>2, <1>8
  <2> QED BY <1>1, <1>6, <2>1, MovesFields
<1>10. DeleteLeft(calls, s, r.dst) /\ Len(Head(calls).cmds) = 7
  BY <1>7, DeleteBegins
<1>11. Deletes(K, calls, s, r.dst) /\ calls # <<>>
  <2>1. PICK left : left = Len(Head(calls).cmds)
    OBVIOUS
  <2>2. left = 7
    BY <1>10, <2>1, Zenon
  <2>3. ~(left <= 6) /\ ~(left <= 5) /\ ~(left <= 4) /\ ~(left <= 3)
    BY <2>2
  <2> QED BY <1>10, <2>1, <2>3, Zenon DEF Deletes, DeleteLeft
<1>12. FreeBefore(i)
  BY <1>1, <1>3, <1>6 DEF Deleting
<1>13. FreeBefore(i)'
  BY <1>1, <1>3, <1>9, <1>12 DEF FreeBefore
<1>14. i \in 1..Len(j.obj.rules)
  BY <1>3, <1>4, <1>5, <1>6
<1>15. DeletesAt(i + 1)'
  BY <1>3, <1>6, <1>9, <1>11, <1>13, <1>14 DEF DeletesAt
<1> QED BY <1>9, <1>11, <1>15 DEF Deleting

\* The handler runs a command, and goes on with the rule or is done with it.
LEMMA DeletingRuns ==
    ASSUME IInv, JobsOK, Kernel(K), Deleting, Inside(Handler)
    PROVE  Deleting'
<1>1. PICK j, calls : j = thread[Handler] /\ calls = j.calls
  OBVIOUS
<1>2. /\ thread'[Handler].key = j.key /\ thread'[Handler].kind = j.kind
      /\ thread'[Handler].obj = j.obj /\ thread'[Handler].rule = j.rule
      /\ disturbed \subseteq disturbed'
  BY <1>1, Constants, InsideFields
<1>3. j.stage = "rules" /\ calls # <<>> /\ CallsOK(j.kind, j.key, calls) /\ j.obj \in Object
  BY <1>1, Constants DEF Inside, JobsOK, JobOK, IInv, TypeOK, ThreadsOK
<1>4. Len(j.obj.rules) \in Nat
  BY <1>3, ObjectRules
<1> SUFFICES ASSUME j.kind = "delete", j.key \notin disturbed', thread'[Handler].stage = "rules"
             PROVE  Deleting'
  BY <1>2 DEF Deleting
<1>5. DeletesAt(j.rule)
  BY <1>1, <1>2, <1>3 DEF Deleting
<1>6. PICK i \in 1..Len(j.obj.rules) :
          /\ j.rule = i + 1 /\ FreeBefore(i)
          /\ Deletes(K, calls, generateRuleId(j.key, i), j.obj.rules[i].dst)
  BY <1>1, <1>5 DEF DeletesAt
<1>7. PICK s, d, c : s = generateRuleId(j.key, i) /\ d = j.obj.rules[i].dst /\ c = First(calls)
  OBVIOUS
<1>8. Deletes(K, calls, s, d)
  BY <1>6, <1>7
<1>9. /\ c.op \notin Takes
      /\ Tail(calls) = <<>>
      /\ Fails(K, c) => Free(K, s, d)
  BY <1>3, <1>7, <1>8, DeleteGoesOn
<1>10. \A l \in 1..Len(j.obj.rules) :
           l < i => Free(K, generateRuleId(j.key, l), j.obj.rules[l].dst)
  BY <1>1, <1>6 DEF FreeBefore
<1>11. ASSUME thread'[Handler].calls = <<>>, Free(K', s, d),
              \A x, y : Free(K, x, y) => Free(K', x, y)
       PROVE  Deleting'
  <2>1. \A l \in 1..Len(j.obj.rules) :
            l < i + 1 => Free(K', generateRuleId(j.key, l), j.obj.rules[l].dst)
    BY <1>4, <1>7, <1>10, <1>11
  <2>2. FreeBefore(i + 1)'
    BY <1>2, <2>1 DEF FreeBefore
  <2> QED BY <1>2, <1>6, <1>11, <2>2 DEF Deleting
<1>12. CASE Failing(Handler)
  <2>1. ASSUME NEW stage, NEW rule, NEW left, Moves(Handler, stage, rule, left)
        PROVE  thread'[Handler].calls = left
    BY <2>1, MovesFields
  <2>2. K' = K /\ thread'[Handler].calls = <<>>
    BY <1>1, <1>9, <1>12, <2>1, Zenon DEF Failing
  <2>3. Fails(K, c)
    BY <1>1, <1>2, <1>7, <1>12 DEF Failing
  <2> QED BY <1>9, <1>11, <2>2, <2>3
<1>13. ASSUME NEW n \in {1, 2}, Going(Handler, n)
       PROVE  Deleting'
  <2>1. PICK rest : rest = Rest(calls, n)
    OBVIOUS
  <2>2. /\ ~Fails(K, c) /\ K' = Effect(K, c) /\ (n = 2 => Skips(K, c))
        /\ thread'[Handler].calls = rest
    BY <1>1, <1>7, <1>13, <2>1, MovesFields DEF Going
  <2>3. \/ rest = <<>> /\ Free(K', s, d)
        \/ rest # <<>> /\ Deletes(K', rest, s, d)
    BY <1>3, <1>7, <1>8, <2>1, <2>2, DeleteGoesOn
  <2>4. \A x, y : Free(K, x, y) => Free(K', x, y)
    BY <1>9, <2>2, FreeKept
  <2>5. CASE rest = <<>> /\ Free(K', s, d)
    BY <1>11, <2>2, <2>4, <2>5
  <2>6. CASE rest # <<>> /\ Deletes(K', rest, s, d)
    <3>1. FreeBefore(i)'
      BY <1>2, <1>10, <2>4 DEF FreeBefore
    <3>2. DeletesAt(i + 1)'
      BY <1>2, <1>7, <2>2, <2>6, <3>1 DEF DeletesAt
    <3> QED BY <1>2, <1>6, <2>2, <2>6, <3>2 DEF Deleting
  <2> QED BY <2>3, <2>5, <2>6
<1> QED BY <1>12, <1>13 DEF Inside

\* Every step keeps the progress of the deletion.
LEMMA NextDeleting ==
    ASSUME NamesApart, IInv, JobsOK, DeletionOK, [Next]_vars
    PROVE  Deleting'
<1>1. Kernel(K) /\ Apart /\ Deleting
  BY DEF DeletionOK
<1>2. CASE StandsStill
  BY <1>1, <1>2, DeletingStays DEF StandsStill
<1>3. CASE Ends
  BY <1>3, Constants DEF Ends, Deleting, Idle, Blank
<1>4. ASSUME NEW w \in Worker, LoadRule(w)
      PROVE  Deleting'
  <2>1. thread'[Handler] = thread[Handler]
    BY <1>4, Constants, LoadRuleMoves, MovesFields DEF IInv
  <2>2. K' = K /\ disturbed' = disturbed
    BY <1>4 DEF LoadRule, history
  <2> QED BY <1>1, <2>1, <2>2, DeletingStays
<1>5. ASSUME NEW w \in Worker, Inside(w)
      PROVE  Deleting'
  <2>1. w \in Thread /\ w # Handler
    BY Constants
  <2>2. thread'[Handler] = thread[Handler] /\ disturbed \subseteq disturbed'
    BY <1>5, <2>1, Constants, InsideFields
  <2>3. CASE Failing(w)
    BY <1>1, <2>2, <2>3, DeletingStays DEF Failing
  <2>4. ASSUME NEW n \in {1, 2}, Going(w, n)
        PROVE  Deleting'
    <3>1. PICK c : c = First(thread[w].calls)
      OBVIOUS
    <3>2. thread[w].calls # <<>> /\ K' = Effect(K, c)
      BY <1>5, <2>4, <3>1 DEF Going, Inside
    <3>3. c.op # "destroy"
      BY <2>1, <3>1, <3>2, TakesByWorkers
    <3>4. ASSUME thread[Handler].kind = "delete", thread[Handler].key \notin disturbed,
                 c.op \in Takes
          PROVE  \A i : c.set # generateRuleId(thread[Handler].key, i)
      <4>1. PICK k : k = thread[Handler].key
        OBVIOUS
      <4>2. Busy(Handler, k)
        BY <3>4, <4>1 DEF Busy
      <4>3. k \in Key
        <5>1. thread[Handler].stage # "idle"
          BY <3>4, Constants DEF IInv, TypeOK, ThreadsOK
        <5> QED BY <4>1, <5>1, Constants DEF IInv, TypeOK, ThreadsOK
      <4>4. \A v \in Worker : ~Busy(v, k)
        BY <1>1, <3>4, <4>1, <4>2, <4>3 DEF Apart
      <4> QED BY <2>1, <3>1, <3>2, <3>4, <4>1, <4>3, <4>4, NotTaken
    <3> QED BY <1>1, <2>2, <3>2, <3>3, <3>4, DeletingKept
  <2> QED BY <1>5, <2>3, <2>4 DEF Inside
<1>6. CASE HandlerTake
  <2>1. PICK did, k, o, r :
            /\ thread' = [thread EXCEPT ![Handler] =
                   [stage |-> "rules", key |-> k, kind |-> did,
                    obj |-> o, calls |-> <<>>, rule |-> r]]
            /\ r = IF did = "none" THEN Len(o.rules) + 1 ELSE 1
    BY <1>6, Zenon DEF HandlerTake
  <2>2. thread'[Handler] = [stage |-> "rules", key |-> k, kind |-> did,
                            obj |-> o, calls |-> <<>>, rule |-> r]
    BY <2>1, Constants DEF IInv, Shape
  <2>3. did = "delete" => FreeBefore(1)'
    BY <2>2 DEF FreeBefore
  <2>4. did = "delete" => r = 1
    BY <2>1
  <2> QED BY <2>2, <2>3, <2>4 DEF Deleting
<1>7. CASE HandlerDone
  <2>1. thread'[Handler] = Idle
    BY <1>7, Constants DEF HandlerDone, IInv, Shape
  <2> QED BY <2>1 DEF Deleting, Idle, Blank
<1>8. ASSUME NEW w \in Worker, syncHandler(w)
      PROVE  Deleting'
  <2>1. \E j : thread' = [thread EXCEPT ![w] = j]
    BY <1>8, Zenon DEF syncHandler
  <2>2. thread'[Handler] = thread[Handler]
    BY <2>1, Constants DEF IInv, Shape
  <2>3. K' = K /\ disturbed \subseteq disturbed'
    BY <1>8 DEF syncHandler
  <2> QED BY <1>1, <2>2, <2>3, DeletingStays
<1>9. ASSUME NEW w \in Worker, Rests(w)
      PROVE  Deleting'
  <2>1. thread'[Handler] = thread[Handler] /\ K' = K /\ disturbed' = disturbed
    BY <1>9, Constants DEF Rests
  <2> QED BY <1>1, <2>1, DeletingStays
<1>10. \A t \in Thread : t \in Worker \/ t = Handler
  BY DEF Thread
<1> QED BY <1>1, <1>2, <1>3, <1>4, <1>5, <1>6, <1>7, <1>8, <1>9, <1>10, Cases,
           DeletingLoads, DeletingRuns

\* When the handler is done with the deletion of an object that no sync in flight
\* met, and none of whose commands failed for a reason of its own, the node has let
\* go of its pods, and it stays so until an object of that name is synced: whatever
\* the workers, the informers and restarts do.
THEOREM DeletionReleasesHolds == NamesApart => (Spec => []DeletionReleases)
<1> SUFFICES ASSUME NamesApart PROVE Spec => []DeletionReleases
  OBVIOUS
<1>1. Init => JobsOK /\ DeletionOK
  <2>1. ASSUME Init
        PROVE  /\ \A t \in Thread : thread[t].kind = "none"
               /\ \A k \in Key : gone[k] = <<>> /\ Len(gone[k]) = 0
    BY <2>1 DEF Init, Idle, Blank
  <2>2. Init => Apart /\ Deleting /\ DeletionReleases
    BY <2>1, Constants DEF Apart, Busy, Deleting, DeletionReleases
  <2> QED BY <2>2, InitJobsOK, EmptyIsKernel DEF Init, DeletionOK
<1>2. IInv /\ JobsOK /\ DeletionOK /\ [Next]_vars => IInv' /\ JobsOK' /\ DeletionOK'
  <2>1. ASSUME IInv, JobsOK, DeletionOK, [Next]_vars PROVE DeletionOK'
    BY <2>1, NextApart, NextReleases, NextDeleting DEF DeletionOK
  <2> QED BY <2>1, NextIInv, NextJobsOK
<1>3. DeletionOK => DeletionReleases
  BY DEF DeletionOK
<1> QED BY <1>1, <1>2, <1>3, InitIInv, PTL DEF Spec

-----------------------------------------------------------------------------
\* Bypass rules name sets that exist, and routes lead into tunnels that are up.
Wires(L) ==
    /\ \A b \in L.bypass : b = <<b[1], b[2]>> /\ b[1] \in L.sets
    /\ \A r \in L.route : r[2] \in L.up

\* A worker is on its way to the route of a bypass rule that it has marked.
OnItsWay(k, b) ==
    /\ b \in K.mark
    /\ \E w \in Worker : /\ thread[w].calls # <<>> /\ thread[w].kind = "director"
                         /\ Busy(w, k)
                         /\ RouteAhead(Head(thread[w].calls).cmds, b[2])

\* The handler has removed the mark and is about to remove the bypass rule.
TakenAway(k, b) ==
    LET c == First(thread[Handler].calls)
    IN  /\ thread[Handler].calls # <<>> /\ Busy(Handler, k)
        /\ c.op = "unbypass" /\ c.set = b[1] /\ c.dst = b[2]

\* A worker that is about to write a bypass rule has written its mark.
Marked ==
    \A t \in Thread :
        LET c == First(thread[t].calls)
        IN  /\ thread[t].calls # <<>> /\ c.op = "bypass"
            /\ thread[t].key \notin disturbed
            => <<c.set, c.dst>> \in K.mark

Bypasses ==
    \A k \in Key \ disturbed : \A b \in K.bypass :
        b[1][1] = FullName[k] => Redirected(b) \/ OnItsWay(k, b) \/ TakenAway(k, b)

BypassOK == Kernel(K) /\ Wires(K) /\ Apart /\ Marked /\ Bypasses

\* Sets in use are not destroyed, and routes lead through what is up.
LEMMA WiresKept ==
    ASSUME NEW M, Kernel(M), Wires(M), NEW c, NEW L, L = Effect(M, c),
           c.op \in {"create", "flush"} \/ ~Fails(M, c)
    PROVE  Kernel(L) /\ Wires(L) /\ M.up \subseteq L.up /\ M.route \subseteq L.route
<1>1. Kernel(L) /\ SetsWritten(M, c, L) /\ RulesWritten(M, c, L) /\ LinksWritten(M, c, L)
  BY EffectFields
<1>2. M.up \subseteq L.up /\ M.route \subseteq L.route
  BY <1>1 DEF LinksWritten
<1>3. ASSUME NEW b \in L.bypass PROVE b = <<b[1], b[2]>> /\ b[1] \in L.sets
  <2>1. CASE b \in M.bypass
    <3>1. b = <<b[1], b[2]>> /\ b[1] \in M.sets
      BY <2>1 DEF Wires
    <3>2. c.op = "destroy" => b[1] # c.set
      <4>1. c.op = "destroy" => ~Referenced(M, c.set)
        BY DEF Fails
      <4> QED BY <2>1, <4>1 DEF Referenced
    <3> QED BY <1>1, <3>1, <3>2 DEF SetsWritten
  <2>2. CASE b \notin M.bypass
    <3>1. c.op = "bypass" /\ b = <<c.set, c.dst>>
      BY <1>1, <2>2 DEF RulesWritten
    <3>2. c.set \in M.sets
      BY <3>1, RuleChains DEF Fails
    <3> QED BY <1>1, <3>1, <3>2 DEF SetsWritten
  <2> QED BY <2>1, <2>2
<1>4. ASSUME NEW r \in L.route PROVE r[2] \in L.up
  <2>1. CASE r \in M.route
    BY <1>2, <2>1 DEF Wires
  <2>2. CASE r \notin M.route
    <3>1. c.op = "routeAdd" /\ r = <<c.dst, c.to>>
      BY <1>1, <2>2 DEF LinksWritten
    <3>2. c.to \in M.up
      BY <3>1 DEF Fails
    <3> QED BY <1>2, <3>1, <3>2
  <2> QED BY <2>1, <2>2
<1> QED BY <1>1, <1>2, <1>3, <1>4 DEF Wires

\* A director's call goes on to the route to its destination, adds it, or finds it.
LEMMA DirectorGoesOn ==
    ASSUME NEW key, NEW calls, CallsOK("director", key, calls), calls # <<>>,
           NEW d, RouteAhead(Head(calls).cmds, d), NEW c, c = First(calls),
           NEW n \in {1, 2}, n = 2 => c.op \in Check, NEW rest, rest = Rest(calls, n)
    PROVE  \/ rest # <<>> /\ RouteAhead(Head(rest).cmds, d)
           \/ n = 1 /\ c.op = "routeAdd" /\ c.dst = d
           \/ n = 2 /\ c.op = "routeListAddr" /\ c.dst = d
<1>1. PICK cmds : cmds = Head(calls).cmds
  OBVIOUS
<1>2. Whole("director", key, cmds) /\ Len(cmds) \in Nat \ {0} /\ c = cmds[1]
  BY <1>1, Begun
<1>3. IsSeq(cmds)
  BY <1>2 DEF Whole, Part
<1>4. RouteAhead(cmds, d) /\ n \in Nat
  BY <1>1
<1>5. CASE Len(cmds) > n
  <2>1. rest # <<>> /\ Head(rest).cmds = SubSeq(cmds, n + 1, Len(cmds))
    BY <1>1, <1>4, <1>5, RestShape
  <2>2. n < Len(cmds)
    BY <1>2, <1>5
  <2>3. RouteAhead(SubSeq(cmds, n + 1, Len(cmds)), d)
    BY <1>3, <1>4, <2>2, RouteAheadSuffix
  <2> QED BY <2>1, <2>3
<1>6. CASE Len(cmds) = 1
  <2>1. c.op = "routeAdd" /\ c.dst = d
    BY <1>2, <1>4, <1>6 DEF RouteAhead
  <2> QED BY <2>1 DEF Check
<1>7. CASE Len(cmds) = 2 /\ n = 2
  <2>1. 1 \in 1..Len(cmds) /\ 1 + 1 = Len(cmds)
    BY <1>7
  <2>2. c.op = "routeListAddr" /\ c.dst = d
    BY <1>2, <1>4, <2>1 DEF RouteAhead
  <2> QED BY <1>7, <2>2
<1>8. Len(cmds) > n \/ Len(cmds) = 1 \/ (Len(cmds) = 2 /\ n = 2)
  <2>1. PICK len : len = Len(cmds)
    OBVIOUS
  <2>2. len \in Nat \ {0} /\ n \in {1, 2}
    BY <1>2, <2>1
  <2>3. len > n \/ len = 1 \/ (len = 2 /\ n = 2)
    BY <2>2
  <2> QED BY <2>1, <2>3
<1> QED BY <1>5, <1>6, <1>7, <1>8

\* The handler does not remove the mark of an object whose bypass rule a worker
\* writes or has written.
LEMMA MarkStays ==
    ASSUME NamesApart, IInv, JobsOK, Kernel(K), Apart, NEW t \in Thread,
           thread[t].calls # <<>>, NEW c, c = First(thread[t].calls), K' = Effect(K, c),
           NEW k \in Key \ disturbed, NEW w \in Worker, Busy(w, k),
           NEW m \in K.mark, m[1][1] = FullName[k]
    PROVE  m \in K'.mark
<1>1. RulesWritten(K, c, K')
  BY EffectFields
<1>2. CASE c.op = "unmark"
  <2>1. /\ t = Handler /\ thread[t].key \in Key /\ Busy(t, thread[t].key)
        /\ c.set[1] = FullName[thread[t].key]
    BY <1>2, TakesByWorkers
  <2>2. thread[t].key # k
    BY <2>1 DEF Apart
  <2>3. c.set[1] # FullName[k]
    BY <2>1, <2>2 DEF NamesApart
  <2>4. m # <<c.set, c.dst>>
    BY <2>3
  <2> QED BY <1>1, <1>2, <2>4 DEF RulesWritten
<1>3. CASE c.op # "unmark"
  BY <1>1, <1>3 DEF RulesWritten
<1> QED BY <1>2, <1>3

\* Every step leaves a bypass rule that is to be written marked.
LEMMA NextMarked ==
    ASSUME NamesApart, IInv, JobsOK, BypassOK, [Next]_vars
    PROVE  Marked'
<1>1. Kernel(K) /\ Apart /\ Marked
  BY DEF BypassOK
<1>2. CASE StandsStill
  BY <1>1, <1>2 DEF StandsStill, Marked
<1>3. CASE Ends
  BY <1>3 DEF Ends, Marked, Idle, Blank
<1>4. ASSUME NEW t \in Thread, Between(t)
      PROVE  Marked'
  BY <1>1, <1>4 DEF Between, Marked
<1>5. ASSUME NEW t \in Thread, Inside(t), Failing(t)
      PROVE  Marked'
  <2>1. /\ K' = K /\ disturbed \subseteq disturbed'
        /\ \A u \in Thread : u # t => thread'[u] = thread[u]
    BY <1>5, InsideFields DEF Failing
  <2>2. ASSUME NEW stage, NEW rule, NEW left, Moves(t, stage, rule, left)
        PROVE  thread'[t].calls = left
    BY <2>2, MovesFields
  <2>3. thread'[t].calls = <<>> \/ thread'[t].calls = Tail(thread[t].calls)
    BY <1>5, <2>2, Zenon DEF Failing
  <2>4. CallsOK(thread[t].kind, thread[t].key, thread[t].calls) /\ thread[t].calls # <<>>
    BY <1>5 DEF JobsOK, JobOK, Inside
  <2>5. Tail(thread[t].calls) # <<>> => First(Tail(thread[t].calls)).op # "bypass"
    BY <2>4, Begun
  <2> QED BY <1>1, <2>1, <2>3, <2>5 DEF Marked
<1>6. ASSUME NEW t \in Thread, Inside(t), NEW n \in {1, 2}, Going(t, n)
      PROVE  Marked'
  <2>1. PICK c, calls, rest : /\ calls = thread[t].calls /\ c = First(calls)
                              /\ rest = Rest(calls, n)
    OBVIOUS
  <2>2. /\ calls # <<>> /\ K' = Effect(K, c) /\ disturbed' = disturbed
        /\ thread'[t].calls = rest /\ thread'[t].key = thread[t].key
        /\ n = 2 => First(calls).op \in Check
    BY <1>6, <2>1, MovesFields DEF Going, Inside
  <2>3. \A u \in Thread : u # t => thread'[u] = thread[u]
    BY <1>6, InsideFields
  <2>4. RulesWritten(K, c, K')
    BY <1>1, <2>2, EffectFields
  <2>5. ASSUME rest # <<>>, First(rest).op = "bypass"
        PROVE  <<First(rest).set, First(rest).dst>> \in K'.mark
    <3>1. PICK d : d = First(rest)
      OBVIOUS
    <3>2. CallsOK(thread[t].kind, thread[t].key, calls)
      BY <2>1 DEF JobsOK, JobOK
    <3>3. c.op = "mark" /\ Alike(c, d)
      BY <2>1, <2>2, <2>5, <3>1, <3>2, NextCommand
    <3> QED BY <2>4, <3>1, <3>3 DEF Alike, RulesWritten
  <2>6. ASSUME NEW u \in Thread, u # t, thread[u].calls # <<>>,
               First(thread[u].calls).op = "bypass", thread[u].key \notin disturbed
        PROVE  <<First(thread[u].calls).set, First(thread[u].calls).dst>> \in K'.mark
    <3>1. PICK e, k, m : /\ e = First(thread[u].calls) /\ k = thread[u].key
                         /\ m = <<e.set, e.dst>>
      OBVIOUS
    <3>2. m \in K.mark
      BY <1>1, <2>6, <3>1 DEF Marked
    <3>3. u \in Worker /\ k \in Key /\ Busy(u, k) /\ e.set[1] = FullName[k]
      BY <2>6, <3>1, TakesByWorkers DEF Takes
    <3>4. m[1][1] = FullName[k] /\ k \in Key \ disturbed
      BY <2>6, <3>1, <3>3
    <3>5. m \in K'.mark
      BY <1>1, <2>1, <2>2, <3>2, <3>3, <3>4, MarkStays
    <3> QED BY <3>1, <3>5
  <2> QED BY <2>2, <2>3, <2>5, <2>6 DEF Marked
<1> QED BY <1>2, <1>3, <1>4, <1>5, <1>6, Steps DEF Inside

\* Where a bypass rule of an undisturbed object comes from.
LEMMA NewBypass ==
    ASSUME NamesApart, IInv, JobsOK, BypassOK, NEW t \in Thread, NEW n \in {1, 2},
           Going(t, n), thread[t].calls # <<>>,
           NEW k \in Key \ disturbed, NEW b \in K'.bypass, b \notin K.bypass,
           b[1][1] = FullName[k]
    PROVE  OnItsWay(k, b)'
<1>1. PICK c, calls, rest, cmds : /\ calls = thread[t].calls /\ c = First(calls)
                                  /\ rest = Rest(calls, n) /\ cmds = Head(calls).cmds
  OBVIOUS
<1>2. /\ calls # <<>> /\ K' = Effect(K, c) /\ Moves(t, "rules", thread[t].rule, rest)
      /\ n = 2 => c.op \in Check
  BY <1>1 DEF Going
<1>3. /\ thread'[t].calls = rest /\ thread'[t].key = thread[t].key
      /\ thread'[t].kind = thread[t].kind
  BY <1>2, MovesFields
<1>4. RulesWritten(K, c, K')
  BY <1>2, EffectFields DEF BypassOK
<1>5. c.op = "bypass" /\ b = <<c.set, c.dst>> /\ K'.mark = K.mark
  BY <1>4 DEF RulesWritten
<1>6. t \in Worker /\ thread[t].key \in Key /\ Busy(t, thread[t].key)
      /\ c.set[1] = FullName[thread[t].key]
  BY <1>1, <1>2, <1>5, TakesByWorkers DEF Takes
<1>7. thread[t].key = k
  BY <1>5, <1>6 DEF NamesApart
<1>8. CallsOK(thread[t].kind, k, calls)
  BY <1>1, <1>7 DEF JobsOK, JobOK
<1>9. Whole(thread[t].kind, k, cmds) /\ c = cmds[1] /\ Len(cmds) \in Nat \ {0}
  BY <1>1, <1>2, <1>8, Begun
<1>10. PICK dst : /\ Part(thread[t].kind, k, dst, cmds)
                  /\ thread[t].kind = "director" => RouteAhead(cmds, dst)
  BY <1>9 DEF Whole
<1>11. Proper(thread[t].kind, k, dst, c)
  BY <1>9, <1>10 DEF Part
<1>12. thread[t].kind = "director" /\ c.dst = dst
  BY <1>5, <1>11 DEF Proper
<1>13. n = 1
  BY <1>2, <1>5 DEF Check
<1>14. rest # <<>> /\ RouteAhead(Head(rest).cmds, dst)
  <2>1. CallsOK("director", k, calls) /\ RouteAhead(Head(calls).cmds, dst)
    BY <1>1, <1>8, <1>10, <1>12
  <2> QED BY <1>1, <1>2, <1>5, <2>1, DirectorGoesOn
<1>15. b \in K'.mark /\ b[2] = dst
  <2>1. <<c.set, c.dst>> \in K.mark
    BY <1>1, <1>2, <1>5, <1>7 DEF BypassOK, Marked
  <2> QED BY <1>5, <1>12, <2>1
<1>16. Busy(t, k)'
  BY <1>3, <1>6, <1>7 DEF Busy
<1> QED BY <1>3, <1>6, <1>12, <1>14, <1>15, <1>16 DEF OnItsWay

\* What becomes of one that is there, when a command is run.
LEMMA OldBypass ==
    ASSUME NamesApart, TextsApart, IInv, JobsOK, BypassOK, NEW t \in Thread, NEW n \in {1, 2},
           Going(t, n), thread[t].calls # <<>>,
           NEW k \in Key \ disturbed, NEW b \in K'.bypass, b \in K.bypass,
           b[1][1] = FullName[k]
    PROVE  Redirected(b)' \/ OnItsWay(k, b)' \/ TakenAway(k, b)'
<1>1. PICK c, calls, rest : /\ calls = thread[t].calls /\ c = First(calls)
                            /\ rest = Rest(calls, n)
  OBVIOUS
<1>2. /\ calls # <<>> /\ K' = Effect(K, c) /\ Moves(t, "rules", thread[t].rule, rest)
      /\ n = 2 => Skips(K, c) /\ c.op \in Check
      /\ ~Fails(K, c)
  BY <1>1 DEF Going
<1>3. /\ thread'[t].calls = rest /\ thread'[t].key = thread[t].key
      /\ thread'[t].kind = thread[t].kind
      /\ \A u \in Thread : u # t => thread'[u] = thread[u]
  BY <1>2, MovesFields
<1>4. Kernel(K) /\ Wires(K) /\ Apart /\ Bypasses
  BY DEF BypassOK
<1>5. RulesWritten(K, c, K') /\ LinksWritten(K, c, K')
  BY <1>2, <1>4, EffectFields
<1>6. Kernel(K') /\ Wires(K') /\ K.up \subseteq K'.up /\ K.route \subseteq K'.route
  BY <1>2, <1>4, WiresKept
<1>7. b = <<b[1], b[2]>>
  BY <1>4 DEF Wires
<1>8. CallsOK(thread[t].kind, thread[t].key, calls)
  BY <1>1 DEF JobsOK, JobOK
<1>9. CASE Redirected(b)
  <2>1. CASE b \in K'.mark
    BY <1>6, <1>9, <2>1 DEF Redirected
  <2>2. CASE b \notin K'.mark
    <3>1. c.op = "unmark" /\ b = <<c.set, c.dst>>
      BY <1>5, <1>9, <2>2 DEF Redirected, RulesWritten
    <3>2. /\ t = Handler /\ thread[t].key \in Key /\ Busy(t, thread[t].key)
          /\ c.set[1] = FullName[thread[t].key]
      BY <1>1, <1>2, <3>1, TakesByWorkers
    <3>3. thread[t].key = k
      BY <3>1, <3>2 DEF NamesApart
    <3>4. PICK d : d = First(rest)
      OBVIOUS
    <3>5. rest # <<>> /\ d.op = "unbypass" /\ Alike(c, d)
      BY <1>1, <1>2, <1>8, <3>1, <3>4, NextCommand
    <3>6. Busy(Handler, k)'
      BY <1>3, <3>2, <3>3 DEF Busy
    <3>7. d.set = b[1] /\ d.dst = b[2]
      BY <3>1, <3>5 DEF Alike
    <3> QED BY <1>3, <3>2, <3>4, <3>5, <3>6, <3>7 DEF TakenAway
  <2> QED BY <2>1, <2>2
<1>10. CASE OnItsWay(k, b)
  <2>1. PICK w \in Worker : /\ thread[w].calls # <<>> /\ thread[w].kind = "director"
                            /\ Busy(w, k) /\ b \in K.mark
                            /\ RouteAhead(Head(thread[w].calls).cmds, b[2])
    BY <1>10 DEF OnItsWay
  <2>2. b \in K'.mark
    BY <1>1, <1>2, <1>4, <2>1, MarkStays
  <2>3. CASE w # t
    <3>1. thread'[w] = thread[w]
      BY <1>3, <2>3, Constants
    <3> QED BY <2>1, <2>2, <3>1 DEF OnItsWay, Busy
  <2>4. CASE w = t
    <3>1. PICK d : d = b[2]
      OBVIOUS
    <3>2. CallsOK("director", k, calls) /\ RouteAhead(Head(calls).cmds, d)
      BY <1>1, <1>8, <2>1, <2>4, <3>1 DEF Busy
    <3>3. \/ rest # <<>> /\ RouteAhead(Head(rest).cmds, d)
          \/ n = 1 /\ c.op = "routeAdd" /\ c.dst = d
          \/ n = 2 /\ c.op = "routeListAddr" /\ c.dst = d
      BY <1>1, <1>2, <3>2, DirectorGoesOn
    <3>4. CASE rest # <<>> /\ RouteAhead(Head(rest).cmds, d)
      <4>1. Busy(w, k)'
        BY <1>3, <2>1, <2>4 DEF Busy
      <4> QED BY <1>3, <2>1, <2>2, <2>4, <3>1, <3>4, <4>1 DEF OnItsWay
    <3>5. CASE c.op = "routeAdd" /\ c.dst = d
      <4>1. c.to \in K.up
        BY <1>2, <3>5 DEF Fails
      <4>2. PICK r : r = <<c.dst, c.to>>
        OBVIOUS
      <4>3. r \in K'.route /\ r[1] = b[2] /\ r[2] \in K'.up
        BY <1>5, <1>6, <3>1, <3>5, <4>1, <4>2 DEF LinksWritten
      <4> QED BY <2>2, <4>3 DEF Redirected
    <3>6. CASE n = 2 /\ c.op = "routeListAddr" /\ c.dst = d
      <4>1. RouteOrAddrShown(K, d)
        BY <1>2, <3>6 DEF Skips
      <4>2. PICK r \in K.route : <<d, r[1]>> \in Shown \union AddrShown
        BY <4>1 DEF RouteOrAddrShown, RouteShown
      <4>3. d = r[1]
        BY <4>2 DEF TextsApart
      <4>4. r[2] \in K'.up /\ r \in K'.route
        BY <1>4, <1>6 DEF Wires
      <4> QED BY <2>2, <3>1, <4>3, <4>4 DEF Redirected
    <3> QED BY <3>3, <3>4, <3>5, <3>6
  <2> QED BY <2>3, <2>4
<1>11. CASE TakenAway(k, b)
  <2>1. t # Handler
    <3> SUFFICES ASSUME t = Handler PROVE FALSE
      OBVIOUS
    <3>1. c.op = "unbypass" /\ c.set = b[1] /\ c.dst = b[2]
      BY <1>1, <1>11 DEF TakenAway
    <3>2. b = <<c.set, c.dst>>
      BY <1>7, <3>1
    <3> QED BY <1>5, <3>1, <3>2 DEF RulesWritten
  <2>2. thread'[Handler] = thread[Handler]
    BY <1>3, <2>1, Constants
  <2> QED BY <1>11, <2>2 DEF TakenAway, Busy
<1> QED BY <1>4, <1>9, <1>10, <1>11 DEF Bypasses

\* A command of an undisturbed object does not fail under a bypass rule.
LEMMA FailingBypass ==
    ASSUME IInv, BypassOK, NEW t \in Thread, Failing(t), thread[t].calls # <<>>,
           NEW k \in Key, k \notin disturbed', NEW b \in K.bypass, b[1][1] = FullName[k]
    PROVE  Redirected(b)' \/ OnItsWay(k, b)' \/ TakenAway(k, b)'
<1>1. K' = K /\ \A u \in Thread : u # t => thread'[u] = thread[u]
  BY MovesFields DEF Failing
<1>2. /\ k \notin disturbed
      /\ thread[t].key = k =>
             thread[t].kind # "director" /\ Fails(K, First(thread[t].calls))
  BY DEF Failing
<1>3. CASE Redirected(b)
  BY <1>1, <1>3 DEF Redirected
<1>4. CASE OnItsWay(k, b)
  <2>1. PICK w \in Worker : /\ thread[w].calls # <<>> /\ thread[w].kind = "director"
                            /\ Busy(w, k) /\ b \in K.mark
                            /\ RouteAhead(Head(thread[w].calls).cmds, b[2])
    BY <1>4 DEF OnItsWay
  <2>2. w # t
    BY <1>2, <2>1 DEF Busy
  <2>3. thread'[w] = thread[w]
    BY <1>1, <2>2, Constants
  <2> QED BY <1>1, <2>1, <2>3 DEF OnItsWay, Busy
<1>5. CASE TakenAway(k, b)
  <2>1. t # Handler
    <3> SUFFICES ASSUME t = Handler PROVE FALSE
      OBVIOUS
    <3>1. PICK c : c = First(thread[t].calls)
      OBVIOUS
    <3>2. c.op = "unbypass" /\ c.set = b[1] /\ thread[t].key = k
      BY <1>5, <3>1 DEF TakenAway, Busy
    <3>3. Fails(K, c)
      BY <1>2, <3>1, <3>2
    <3>4. c.set \in K.sets
      BY <3>2 DEF BypassOK, Wires
    <3> QED BY <3>2, <3>3, <3>4 DEF Fails
  <2>2. thread'[Handler] = thread[Handler]
    BY <1>1, <2>1, Constants
  <2> QED BY <1>5, <2>2 DEF TakenAway, Busy
<1> QED BY <1>2, <1>3, <1>4, <1>5 DEF BypassOK, Bypasses

\* Every step keeps the bypass rules in one of the three states.
LEMMA NextBypasses ==
    ASSUME NamesApart, TextsApart, IInv, JobsOK, BypassOK, [Next]_vars
    PROVE  Kernel(K') /\ Wires(K') /\ Bypasses'
<1>1. Kernel(K) /\ Wires(K) /\ Bypasses
  BY DEF BypassOK
<1>2. CASE StandsStill
  BY <1>1, <1>2 DEF StandsStill, Wires, Bypasses, Redirected, OnItsWay, TakenAway, Busy
<1>3. CASE Ends
  <2>1. /\ Kernel(K') /\ Wires(K') /\ K'.bypass = K.bypass /\ K'.mark = K.mark
        /\ K.route \subseteq K'.route /\ K.up \subseteq K'.up
    <3>1. CASE K' = K
      BY <1>1, <3>1
    <3>2. ASSUME NEW s, K' = Effect(Effect(K, Cmd("create", s, None, None)),
                                    Cmd("flush", s, None, None))
          PROVE  /\ Kernel(K') /\ Wires(K') /\ K'.bypass = K.bypass /\ K'.mark = K.mark
                 /\ K.route \subseteq K'.route /\ K.up \subseteq K'.up
      <4>1. PICK x, y, L : /\ x = Cmd("create", s, None, None)
                           /\ y = Cmd("flush", s, None, None) /\ L = Effect(K, x)
        OBVIOUS
      <4>2. x.op = "create" /\ y.op = "flush" /\ K' = Effect(L, y)
        BY <3>2, <4>1 DEF Cmd
      <4>3. Kernel(L) /\ Wires(L) /\ K.up \subseteq L.up /\ K.route \subseteq L.route
        BY <1>1, <4>1, <4>2, WiresKept
      <4>4. Kernel(K') /\ Wires(K') /\ L.up \subseteq K'.up /\ L.route \subseteq K'.route
        BY <4>2, <4>3, WiresKept
      <4>5. RulesWritten(K, x, L)
        BY <1>1, <4>1, EffectFields
      <4>6. RulesWritten(L, y, K')
        BY <4>2, <4>3, EffectFields
      <4> QED BY <4>2, <4>3, <4>4, <4>5, <4>6 DEF RulesWritten
    <3> QED BY <1>3, <3>1, <3>2 DEF Ends
  <2>2. ASSUME NEW k \in Key \ disturbed', NEW b \in K'.bypass, b[1][1] = FullName[k]
        PROVE  Redirected(b)'
    <3>1. /\ k \notin disturbed
          /\ \A t \in Thread : ~Busy(t, k)
      BY <1>3, <2>2 DEF Ends
    <3>2. Redirected(b)
      BY <1>1, <2>1, <2>2, <3>1, Constants DEF Bypasses, OnItsWay, TakenAway
    <3> QED BY <2>1, <3>2 DEF Redirected
  <2> QED BY <2>1, <2>2 DEF Bypasses
<1>4. ASSUME NEW t \in Thread, Between(t)
      PROVE  Kernel(K') /\ Wires(K') /\ Bypasses'
  <2>1. /\ K' = K /\ disturbed \subseteq disturbed'
        /\ \A u \in Thread : thread[u].calls # <<>> => thread'[u] = thread[u]
    BY <1>4 DEF Between
  <2>2. ASSUME NEW k, NEW b
        PROVE  /\ Redirected(b) => Redirected(b)'
               /\ OnItsWay(k, b) => OnItsWay(k, b)'
               /\ TakenAway(k, b) => TakenAway(k, b)'
    <3>1. Redirected(b) => Redirected(b)'
      BY <2>1 DEF Redirected
    <3>2. ASSUME OnItsWay(k, b) PROVE OnItsWay(k, b)'
      <4>1. PICK w \in Worker : /\ thread[w].calls # <<>> /\ thread[w].kind = "director"
                                /\ Busy(w, k) /\ b \in K.mark
                                /\ RouteAhead(Head(thread[w].calls).cmds, b[2])
        BY <3>2 DEF OnItsWay
      <4>2. thread'[w] = thread[w]
        BY <2>1, <4>1, Constants
      <4> QED BY <2>1, <4>1, <4>2 DEF OnItsWay, Busy
    <3>3. ASSUME TakenAway(k, b) PROVE TakenAway(k, b)'
      <4>1. thread'[Handler] = thread[Handler]
        BY <2>1, <3>3, Constants DEF TakenAway
      <4> QED BY <3>3, <4>1 DEF TakenAway, Busy
    <3> QED BY <3>1, <3>2, <3>3
  <2> QED BY <1>1, <2>1, <2>2 DEF Bypasses
<1>5. ASSUME NEW t \in Thread, Inside(t), Failing(t)
      PROVE  Kernel(K') /\ Wires(K') /\ Bypasses'
  <2>1. K' = K /\ thread[t].calls # <<>>
    BY <1>5 DEF Failing, Inside
  <2> QED BY <1>1, <1>5, <2>1, FailingBypass DEF Bypasses
<1>6. ASSUME NEW t \in Thread, Inside(t), NEW n \in {1, 2}, Going(t, n)
      PROVE  Kernel(K') /\ Wires(K') /\ Bypasses'
  <2>1. /\ thread[t].calls # <<>> /\ disturbed' = disturbed
        /\ K' = Effect(K, First(thread[t].calls)) /\ ~Fails(K, First(thread[t].calls))
    BY <1>6 DEF Going, Inside
  <2>2. Kernel(K') /\ Wires(K')
    BY <1>1, <2>1, WiresKept
  <2>3. ASSUME NEW k \in Key \ disturbed, NEW b \in K'.bypass, b[1][1] = FullName[k]
        PROVE  Redirected(b)' \/ OnItsWay(k, b)' \/ TakenAway(k, b)'
    BY <1>6, <2>1, <2>3, NewBypass, OldBypass
  <2> QED BY <2>1, <2>2, <2>3 DEF Bypasses
<1> QED BY <1>2, <1>3, <1>4, <1>5, <1>6, Steps DEF Inside

\* While no goroutine is at work on an object whose cleanup and sync have never
\* met, nor been broken off, each of its bypass rules has a mark and a route into a
\* tunnel that is up, however syncs, cleanups and restarts have followed on each
\* other: AddRouteToGateway and ClearStaleRouteToGateway, once they have come to
\* their end, let no packet past the gateway.
THEOREM BypassRedirectsHolds == NamesApart /\ TextsApart => (Spec => []BypassRedirects)
<1> SUFFICES ASSUME NamesApart, TextsApart PROVE Spec => []BypassRedirects
  OBVIOUS
<1>1. Init => JobsOK /\ BypassOK
  <2>1. ASSUME Init
        PROVE  /\ \A t \in Thread : thread[t].kind = "none" /\ thread[t].calls = <<>>
               /\ \A k \in Key : gone[k] = <<>>
               /\ K = EmptyKernel
    BY <2>1 DEF Init, Idle, Blank
  <2>2. EmptyKernel.bypass = {} /\ EmptyKernel.route = {}
    BY DEF EmptyKernel
  <2>3. Init => Wires(K) /\ Apart /\ Marked /\ Bypasses
    BY <2>1, <2>2, Constants DEF Wires, Apart, Busy, Marked, Bypasses
  <2> QED BY <2>1, <2>3, InitJobsOK, EmptyIsKernel DEF BypassOK
<1>2. IInv /\ JobsOK /\ BypassOK /\ [Next]_vars => IInv' /\ JobsOK' /\ BypassOK'
  <2>1. ASSUME IInv, JobsOK, BypassOK, [Next]_vars PROVE BypassOK'
    <3>1. Apart
      BY <2>1 DEF BypassOK
    <3>2. Apart' /\ Marked' /\ Kernel(K') /\ Wires(K') /\ Bypasses'
      BY <2>1, <3>1, NextApart, NextMarked, NextBypasses
    <3> QED BY <3>2 DEF BypassOK
  <2> QED BY <2>1, NextIInv, NextJobsOK
<1>3. BypassOK => BypassRedirects
  <2>1. ASSUME Bypasses, NEW k \in Key \ disturbed, \A t \in Thread : ~Busy(t, k),
               NEW b \in K.bypass, b[1][1] = FullName[k]
        PROVE  Redirected(b)
    BY <2>1, Constants DEF Bypasses, OnItsWay, TakenAway
  <2> QED BY <2>1 DEF BypassOK, BypassRedirects
<1> QED BY <1>1, <1>2, <1>3, InitIInv, PTL DEF Spec
=============================================================================
