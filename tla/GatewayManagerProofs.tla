------------------------ MODULE GatewayManagerProofs ------------------------
(***************************************************************************)
(* Proofs that the gateway manager keeps its status fields together, loses *)
(* no edit of a user and does not move a healthy gateway, for any number   *)
(* of replicas, objects and nodes, and any number of faults.               *)
(***************************************************************************)
EXTENDS GatewayManager, TLAPS

\* Every version of an object is well formed: its spec was written by that
\* version or an earlier one, and its status names one node.
VersionsSound ==
    \A c \in CR : \A v \in 1..Len(versions[c]) :
        /\ versions[c][v].spec <= v
        /\ NamesOneNode(versions[c][v])

\* A gateway that is not ready now is suspect.
SuspectSound ==
    \A c \in CR : Latest(c).gw # NoNode /\ nodeState[Latest(c).gw] # "ready"
                      => suspect[c]

\* The list a loop walks over holds copies of objects that existed.
TodoSound ==
    \A m \in Manager : \A p \in todo[m] : versions[p[1]][p[2]].present

\* A write under way copies an object that existed, names one node, and if it
\* would still be accepted moves the gateway only away from a suspect one.
CopySound ==
    \A m \in Manager : loop[m] = "update" =>
        LET k == copyObj[m]
        IN  /\ versions[k.cr][k.base].present
            /\ k.ip = NodeIP[k.gw]
            /\ k.base = Len(versions[k.cr]) /\ Latest(k.cr).gw \notin {NoNode, k.gw}
                   => suspect[k.cr]

IInv == TypeOK /\ VersionsSound /\ SuspectSound /\ TodoSound /\ CopySound

-----------------------------------------------------------------------------
\* Writing a version of an object leaves the earlier ones and the other
\* objects as they are.
LEMMA WriteLemma ==
    ASSUME TypeOK, NEW c \in CR, NEW o \in Object, Write(c, o)
    PROVE  /\ versions' \in [CR -> Seq(Object)]
           /\ Len(versions'[c]) = Len(versions[c]) + 1
           /\ versions'[c][Len(versions[c]) + 1] = o
           /\ \A d \in CR \ {c} : versions'[d] = versions[d]
           /\ \A d \in CR : /\ Len(versions'[d]) \in Nat
                            /\ Len(versions[d]) <= Len(versions'[d])
           /\ \A d \in CR : \A v \in 1..Len(versions[d]) :
                  versions'[d][v] = versions[d][v]
  BY DEF TypeOK, Write

\* A write of a version that is itself sound keeps the history sound.
LEMMA WriteSound ==
    ASSUME TypeOK, VersionsSound, NEW c \in CR, NEW o \in Object, Write(c, o),
           o.spec <= Len(versions[c]) + 1,
           NamesOneNode(o)
    PROVE  VersionsSound'
<1>1. SUFFICES ASSUME NEW d \in CR, NEW v \in 1..Len(versions'[d])
               PROVE  /\ versions'[d][v].spec <= v
                      /\ NamesOneNode(versions'[d][v])
  BY DEF VersionsSound, NamesOneNode
<1>2. CASE d # c
  BY <1>2, WriteLemma DEF VersionsSound
<1>3. CASE d = c /\ v = Len(versions[c]) + 1
  BY <1>3, WriteLemma
<1>4. CASE d = c /\ v # Len(versions[c]) + 1
  <2>1. Len(versions[c]) \in Nat
    BY DEF TypeOK
  <2>2. v \in 1..Len(versions[c])
    BY <1>4, <2>1, WriteLemma
  <2> QED BY <1>4, <2>2, WriteLemma DEF VersionsSound
<1> QED BY <1>2, <1>3, <1>4

\* The last version of an object is one of its versions.
LEMMA LatestLemma ==
    ASSUME TypeOK, NEW c \in CR
    PROVE  /\ Latest(c) \in Object
           /\ Len(versions[c]) \in 1..Len(versions[c])
           /\ Len(versions[c]) \in Nat
  BY DEF TypeOK, Latest

\* Init establishes the inductive invariant.
LEMMA InitIInv == Init => IInv
<1> SUFFICES ASSUME Init PROVE IInv
  OBVIOUS
<1>1. Absent \in Object
  BY DEF Absent, Object
<1>2. TypeOK
  BY <1>1 DEF Init, TypeOK
<1>3. VersionsSound /\ SuspectSound
  BY DEF Init, VersionsSound, SuspectSound, Latest, Absent, NamesOneNode
<1>4. TodoSound /\ CopySound
  BY DEF Init, TodoSound, CopySound
<1> QED BY <1>2, <1>3, <1>4 DEF IInv

\* Steps of nodes.
LEMMA NodeChangeIInv ==
    ASSUME IInv, NEW n \in Node, NEW s \in {"ready", "notReady", "gone"},
           NodeChange(n, s)
    PROVE  IInv'
<1> USE DEF IInv
<1>1. TypeOK'
  BY DEF TypeOK, NodeChange, Change, mgr
<1>2. VersionsSound' /\ TodoSound'
  BY DEF VersionsSound, TodoSound, NodeChange, mgr
<1>3. SuspectSound'
  BY LatestLemma DEF SuspectSound, NodeChange, TypeOK, Latest, Object
<1>4. CopySound'
  BY DEF CopySound, NodeChange, mgr, Latest, TypeOK, Copy
<1> QED BY <1>1, <1>2, <1>3, <1>4

\* A new version of an object: the copies of it that are still under way are
\* of earlier versions, so nothing is claimed of them.
LEMMA WriteIInv ==
    ASSUME IInv, NEW c \in CR, NEW o \in Object, Write(c, o),
           o.spec <= Len(versions[c]) + 1,
           NamesOneNode(o),
           o.gw # NoNode /\ nodeState[o.gw] # "ready" => suspect'[c],
           suspect' \in [CR -> BOOLEAN],
           \A d \in CR \ {c} : suspect'[d] = suspect[d],
           UNCHANGED <<nodeState, holder, elector, cache, todo, faults>>,
           changes' \in Nat,
           loop' \in [Manager -> {"off", "select", "range", "update"}],
           copyObj' \in [Manager -> Copy \union {NoCopy}],
           \A m \in Manager : loop'[m] = "update" =>
               loop[m] = "update" /\ copyObj'[m] = copyObj[m]
    PROVE  IInv'
<1> USE DEF IInv
<1>1. /\ versions' \in [CR -> Seq(Object)]
      /\ Len(versions'[c]) = Len(versions[c]) + 1
      /\ versions'[c][Len(versions[c]) + 1] = o
      /\ \A d \in CR \ {c} : versions'[d] = versions[d]
      /\ \A d \in CR : /\ Len(versions[d]) \in Nat
                       /\ Len(versions'[d]) \in Nat
                       /\ Len(versions[d]) <= Len(versions'[d])
      /\ \A d \in CR : \A v \in 1..Len(versions[d]) :
             versions'[d][v] = versions[d][v]
  BY WriteLemma, LatestLemma
<1>2. TypeOK'
  <2>1. \A d \in CR : Len(versions'[d]) > 0
    BY <1>1 DEF TypeOK
  <2>2. \A m \in Manager, d \in CR : cache'[m][d] \in 1..Len(versions'[d])
    BY <1>1 DEF TypeOK
  <2>3. \A m \in Manager : \A p \in todo'[m] : p[2] \in 1..Len(versions'[p[1]])
    <3> SUFFICES ASSUME NEW m \in Manager, NEW p \in todo[m]
                 PROVE  p[2] \in 1..Len(versions'[p[1]])
      OBVIOUS
    <3>1. p[1] \in CR /\ p[2] \in 1..Len(versions[p[1]])
      BY DEF TypeOK
    <3> QED BY <3>1, <1>1
  <2>4. \A m \in Manager : loop'[m] = "update" =>
            /\ copyObj'[m] \in Copy
            /\ copyObj'[m].base \in 1..Len(versions'[copyObj'[m].cr])
    <3> SUFFICES ASSUME NEW m \in Manager, loop[m] = "update",
                        copyObj'[m] = copyObj[m]
                 PROVE  /\ copyObj[m] \in Copy
                        /\ copyObj[m].base \in 1..Len(versions'[copyObj[m].cr])
      OBVIOUS
    <3>1. /\ copyObj[m] \in Copy /\ copyObj[m].cr \in CR
          /\ copyObj[m].base \in 1..Len(versions[copyObj[m].cr])
      BY DEF TypeOK, Copy
    <3> QED BY <3>1, <1>1
  <2> QED BY <1>1, <2>1, <2>2, <2>3, <2>4 DEF TypeOK
<1>3. VersionsSound'
  BY WriteSound
<1>4. SuspectSound'
  <2> SUFFICES ASSUME NEW d \in CR, Latest(d)'.gw # NoNode,
                      nodeState[Latest(d)'.gw] # "ready"
               PROVE  suspect'[d]
    BY DEF SuspectSound
  <2>1. CASE d = c
    BY <2>1, <1>1 DEF Latest
  <2>2. CASE d # c
    BY <2>2, <1>1 DEF Latest, SuspectSound
  <2> QED BY <2>1, <2>2
<1>5. TodoSound'
  <2> SUFFICES ASSUME NEW m \in Manager, NEW p \in todo[m]
               PROVE  versions'[p[1]][p[2]].present
    BY DEF TodoSound
  <2>1. p[1] \in CR /\ p[2] \in 1..Len(versions[p[1]])
    BY DEF TypeOK
  <2> QED BY <2>1, <1>1 DEF TodoSound
<1>6. CopySound'
  <2> SUFFICES ASSUME NEW m \in Manager, loop[m] = "update",
                      copyObj'[m] = copyObj[m]
               PROVE  /\ versions'[copyObj[m].cr][copyObj[m].base].present
                      /\ copyObj[m].ip = NodeIP[copyObj[m].gw]
                      /\ copyObj[m].base = Len(versions'[copyObj[m].cr])
                         /\ Latest(copyObj[m].cr)'.gw \notin {NoNode, copyObj[m].gw}
                             => suspect'[copyObj[m].cr]
    BY DEF CopySound, Latest
  <2>1. /\ copyObj[m].cr \in CR
        /\ copyObj[m].base \in 1..Len(versions[copyObj[m].cr])
    BY DEF TypeOK, Copy
  <2>2. CASE copyObj[m].cr = c
    <3>1. copyObj[m].base # Len(versions'[copyObj[m].cr])
      BY <2>1, <2>2, <1>1
    <3>2. /\ versions[copyObj[m].cr][copyObj[m].base].present
          /\ copyObj[m].ip = NodeIP[copyObj[m].gw]
      BY DEF CopySound
    <3> QED BY <2>1, <3>1, <3>2, <1>1
  <2>3. CASE copyObj[m].cr # c
    <3>1. /\ versions'[copyObj[m].cr] = versions[copyObj[m].cr]
          /\ suspect'[copyObj[m].cr] = suspect[copyObj[m].cr]
      BY <2>1, <2>3, <1>1
    <3>2. /\ versions[copyObj[m].cr][copyObj[m].base].present
          /\ copyObj[m].ip = NodeIP[copyObj[m].gw]
          /\ copyObj[m].base = Len(versions[copyObj[m].cr])
             /\ Latest(copyObj[m].cr).gw \notin {NoNode, copyObj[m].gw}
                 => suspect[copyObj[m].cr]
      BY DEF CopySound
    <3> QED BY <3>1, <3>2 DEF Latest
  <2> QED BY <2>2, <2>3
<1> QED BY <1>2, <1>3, <1>4, <1>5, <1>6

\* Steps of users.
LEMMA UserIInv ==
    ASSUME IInv, NEW c \in CR, CreateCR(c) \/ EditSpec(c) \/ DeleteCR(c)
    PROVE  IInv'
<1> USE DEF IInv
<1>1. CASE CreateCR(c)
  <2> DEFINE o == [present |-> TRUE, spec |-> Len(versions[c]) + 1,
                   gw |-> NoNode, ip |-> NoIP]
  <2>1. /\ o \in Object /\ o.spec = Len(versions[c]) + 1 /\ o.gw = NoNode
        /\ o.spec <= Len(versions[c]) + 1
    BY LatestLemma DEF Object
  <2>2. Write(c, o) /\ suspect' = [suspect EXCEPT ![c] = FALSE]
    BY <1>1 DEF CreateCR
  <2>3. /\ UNCHANGED <<nodeState, holder, elector, cache, loop, todo, copyObj, faults>>
        /\ changes' \in Nat
        /\ suspect' \in [CR -> BOOLEAN]
        /\ \A d \in CR \ {c} : suspect'[d] = suspect[d]
    BY <1>1, <2>2 DEF CreateCR, Change, TypeOK, mgr
  <2>4. NamesOneNode(o)
    BY <2>1 DEF NamesOneNode
  <2> HIDE DEF o
  <2> QED BY <2>1, <2>2, <2>3, <2>4, WriteIInv DEF TypeOK
<1>2. CASE EditSpec(c)
  <2> DEFINE o == [Latest(c) EXCEPT !.spec = Len(versions[c]) + 1]
  <2>1. /\ o \in Object /\ o.spec = Len(versions[c]) + 1
        /\ o.spec <= Len(versions[c]) + 1
        /\ o.gw = Latest(c).gw /\ o.ip = Latest(c).ip
    BY LatestLemma DEF Object
  <2>2. NamesOneNode(o)
    <3>1. NamesOneNode(Latest(c))
      BY LatestLemma DEF VersionsSound, Latest
    <3> QED BY <2>1, <3>1 DEF NamesOneNode
  <2>3. Write(c, o)
    BY <1>2 DEF EditSpec
  <2>4. /\ UNCHANGED <<nodeState, holder, elector, cache, loop, todo, copyObj, faults,
                     suspect>>
        /\ changes' \in Nat
        /\ suspect \in [CR -> BOOLEAN]
    BY <1>2 DEF EditSpec, Change, TypeOK, mgr
  <2>5. o.gw # NoNode /\ nodeState[o.gw] # "ready" => suspect'[c]
    BY <2>1, <2>4 DEF SuspectSound
  <2> HIDE DEF o
  <2> QED BY <2>1, <2>2, <2>3, <2>4, <2>5, WriteIInv DEF TypeOK
<1>3. CASE DeleteCR(c)
  <2>1. /\ Absent \in Object /\ Absent.spec = 0 /\ Absent.gw = NoNode
        /\ Absent.spec <= Len(versions[c]) + 1
    BY LatestLemma DEF Absent, Object
  <2>2. Write(c, Absent) /\ suspect' = [suspect EXCEPT ![c] = FALSE]
    BY <1>3 DEF DeleteCR
  <2>3. /\ UNCHANGED <<nodeState, holder, elector, cache, loop, todo, copyObj, faults>>
        /\ changes' \in Nat
        /\ suspect' \in [CR -> BOOLEAN]
        /\ \A d \in CR \ {c} : suspect'[d] = suspect[d]
    BY <1>3, <2>2 DEF DeleteCR, Change, TypeOK, mgr
  <2>4. NamesOneNode(Absent)
    BY <2>1 DEF NamesOneNode
  <2> QED BY <2>1, <2>2, <2>3, <2>4, WriteIInv DEF TypeOK
<1> QED BY <1>1, <1>2, <1>3

\* Steps of the election: they leave the objects alone, and stop or start
\* loops that have nothing under way.
LEMMA ElectionIInv ==
    ASSUME IInv, NEW m \in Manager, Election(m)
    PROVE  IInv'
<1> USE DEF IInv
<1>1. UNCHANGED <<nodeState, versions, suspect>>
  BY DEF Election, Acquire, TakeOver, Lose, Exit, Crash, Lead, Restart, api
<1>2. /\ holder' \in Manager \union {NoManager}
      /\ changes' \in Nat /\ faults' \in Nat
      /\ elector' \in [Manager -> {"standby", "leader", "lost"}]
  <2>1. changes' \in Nat /\ faults' \in Nat
    <3>1. UNCHANGED budget \/ Fault
      BY DEF Election, Acquire, TakeOver, Lose, Exit, Crash, budget
    <3> QED BY <3>1 DEF Fault, budget, TypeOK
  <2>2. holder' \in Manager \union {NoManager}
    <3>1. holder' \in {holder, m, NoManager}
      BY DEF Election, Acquire, TakeOver, Lose, Exit, Crash, Lead, Restart
    <3> QED BY <3>1 DEF TypeOK
  <2>3. elector' \in [Manager -> {"standby", "leader", "lost"}]
    <3>1. \E s \in {"standby", "leader", "lost"} :
              elector' = [elector EXCEPT ![m] = s]
      BY DEF Election, Acquire, TakeOver, Lose, Exit, Crash, Lead, Restart
    <3> QED BY <3>1 DEF TypeOK
  <2> QED BY <2>1, <2>2, <2>3
<1>3. CASE UNCHANGED <<cache, todo, copyObj>> /\
           (loop' = loop \/ loop' = [loop EXCEPT ![m] = "select"])
  <2>1. TypeOK'
    BY <1>1, <1>2, <1>3 DEF TypeOK
  <2>2. VersionsSound' /\ SuspectSound' /\ TodoSound'
    BY <1>1, <1>3 DEF VersionsSound, SuspectSound, TodoSound, Latest
  <2>3. CopySound'
    BY <1>1, <1>3 DEF CopySound, Latest, TypeOK
  <2> QED BY <2>1, <2>2, <2>3
<1>4. CASE Restart(m)
  <2>1. TypeOK'
    BY <1>1, <1>2, <1>4 DEF TypeOK, Restart
  <2>2. VersionsSound' /\ SuspectSound'
    BY <1>1 DEF VersionsSound, SuspectSound, Latest
  <2>3. TodoSound' /\ CopySound'
    BY <1>1, <1>4 DEF TodoSound, CopySound, Latest, TypeOK, Restart
  <2> QED BY <2>1, <2>2, <2>3
<1> QED BY <1>3, <1>4 DEF Election, Acquire, TakeOver, Lose, Exit, Crash, Lead

\* Steps of the informer of a replica.
LEMMA DeliverIInv ==
    ASSUME IInv, NEW m \in Manager, Deliver(m)
    PROVE  IInv'
<1> USE DEF IInv
<1> PICK c \in CR : \E v \in 1..Len(versions[c]) : WatchDeliver(m, c, v)
  BY DEF Deliver
<1> PICK v \in 1..Len(versions[c]) : WatchDeliver(m, c, v)
  OBVIOUS
<1>1. TypeOK'
  BY LatestLemma DEF TypeOK, WatchDeliver, api, budget
<1>2. VersionsSound' /\ SuspectSound' /\ TodoSound' /\ CopySound'
  BY DEF VersionsSound, SuspectSound, TodoSound, CopySound, Latest,
         WatchDeliver, api
<1> QED BY <1>1, <1>2

\* The loop takes its list, or ends a walk over it.
LEMMA TickIInv ==
    ASSUME IInv, NEW m \in Manager, Tick(m) \/ Stop(m) \/ RangeDone(m)
    PROVE  IInv'
<1> USE DEF IInv
<1>1. UNCHANGED <<nodeState, versions, suspect, holder, elector, cache, copyObj,
                  changes, faults>>
  BY DEF Tick, Stop, RangeDone, api, budget
<1>2. /\ loop' \in [Manager -> {"off", "select", "range", "update"}]
      /\ \A i \in Manager : loop'[i] = "update" => loop[i] = "update"
  BY DEF Tick, Stop, RangeDone, TypeOK
<1>3. /\ todo' \in [Manager -> SUBSET (CR \X Nat)]
      /\ \A i \in Manager : \A p \in todo'[i] : /\ p[2] \in 1..Len(versions[p[1]])
                                                /\ versions[p[1]][p[2]].present
  <2>1. CASE Tick(m)
    <3> DEFINE T == {<<c, cache[m][c]>> :
                        c \in {d \in CR : versions[d][cache[m][d]].present}}
    <3>1. todo' = [todo EXCEPT ![m] = T]
      BY <2>1 DEF Tick
    <3>2. \A p \in T : /\ p \in CR \X Nat /\ p[2] \in 1..Len(versions[p[1]])
                       /\ versions[p[1]][p[2]].present
      BY DEF TypeOK
    <3> HIDE DEF T
    <3> QED BY <3>1, <3>2 DEF TypeOK, TodoSound
  <2>2. CASE todo' = todo
    BY <2>2 DEF TypeOK, TodoSound
  <2> QED BY <2>1, <2>2 DEF Stop, RangeDone
<1>4. TypeOK'
  BY <1>1, <1>2, <1>3 DEF TypeOK
<1>5. VersionsSound' /\ SuspectSound'
  BY <1>1 DEF VersionsSound, SuspectSound, Latest
<1>6. TodoSound'
  BY <1>1, <1>3 DEF TodoSound
<1>7. CopySound'
  BY <1>1, <1>2 DEF CopySound, Latest
<1> QED BY <1>4, <1>5, <1>6, <1>7

\* A choice that moves an assigned gateway was made because the gateway was
\* not ready.
LEMMA ChooseIInv ==
    ASSUME IInv, NEW m \in Manager, Choose(m)
    PROVE  IInv'
<1> USE DEF IInv
<1> PICK p \in todo[m], gw \in Node \union {NoNode}, ip \in IP \union {NoIP} :
        /\ chooseGatewayNode(versions[p[1]][p[2]], gw, ip)
        /\ todo' = [todo EXCEPT ![m] = @ \ {p}]
        /\ copyObj' = [copyObj EXCEPT ![m] =
               [cr |-> p[1], base |-> p[2], gw |-> gw, ip |-> ip]]
  BY DEF Choose
<1> DEFINE k == [cr |-> p[1], base |-> p[2], gw |-> gw, ip |-> ip]
           o == versions[p[1]][p[2]]
<1>1. UNCHANGED <<nodeState, versions, suspect, holder, elector, cache,
                  changes, faults>>
  BY DEF Choose, api, budget
<1>2. loop' = [loop EXCEPT ![m] = "update"]
  BY DEF Choose
<1>3. /\ p[1] \in CR /\ p[2] \in Nat /\ p[2] \in 1..Len(versions[p[1]])
      /\ o.present /\ o \in Object /\ NamesOneNode(o)
  BY DEF TypeOK, TodoSound, VersionsSound
<1>4. gw \in Node /\ ip \in IP /\ ip = NodeIP[gw]
  <2>1. CASE KeepsGateway(o) /\ gw = o.gw /\ ip = o.ip
    BY <2>1, <1>3, NullAssumption, AddressAssumption
       DEF KeepsGateway, Listed, NamesOneNode
  <2>2. CASE Elects(gw) /\ NodeIP[gw] # NoIP /\ ip = NodeIP[gw]
    BY <2>2, AddressAssumption DEF Elects, LastListed, Listed
  <2> QED BY <2>1, <2>2 DEF chooseGatewayNode
<1>5. k \in Copy
  BY <1>3, <1>4 DEF Copy
<1>6. TypeOK'
  <2>1. /\ todo' \in [Manager -> SUBSET (CR \X Nat)]
        /\ \A i \in Manager : \A q \in todo'[i] : q[2] \in 1..Len(versions[q[1]])
    BY DEF TypeOK
  <2>2. /\ loop' \in [Manager -> {"off", "select", "range", "update"}]
        /\ copyObj' \in [Manager -> Copy \union {NoCopy}]
    BY <1>2, <1>5 DEF TypeOK
  <2>3. \A i \in Manager : loop'[i] = "update" =>
            /\ copyObj'[i] \in Copy
            /\ copyObj'[i].base \in 1..Len(versions[copyObj'[i].cr])
    BY <1>2, <1>3, <1>5 DEF TypeOK
  <2> QED BY <1>1, <2>1, <2>2, <2>3 DEF TypeOK
<1>7. VersionsSound' /\ SuspectSound'
  BY <1>1 DEF VersionsSound, SuspectSound, Latest
<1>8. TodoSound'
  BY <1>1 DEF TodoSound, TypeOK
<1>9. CopySound'
  <2> SUFFICES ASSUME NEW i \in Manager, loop'[i] = "update"
               PROVE  /\ versions[copyObj'[i].cr][copyObj'[i].base].present
                      /\ copyObj'[i].ip = NodeIP[copyObj'[i].gw]
                      /\ copyObj'[i].base = Len(versions[copyObj'[i].cr])
                         /\ Latest(copyObj[i].cr)'.gw \notin {NoNode, copyObj'[i].gw}
                             => suspect[copyObj'[i].cr]
    BY <1>1 DEF CopySound
  <2>1. CASE i # m
    <3>1. copyObj'[i] = copyObj[i] /\ loop[i] = "update"
      BY <2>1, <1>2 DEF TypeOK
    <3> QED BY <3>1, <1>1 DEF CopySound, Latest
  <2>2. CASE i = m
    <3>1. copyObj'[i] = k
      BY <2>2 DEF TypeOK
    <3>2. p[2] = Len(versions[p[1]]) /\ o.gw \notin {NoNode, gw} => suspect[p[1]]
      <4> SUFFICES ASSUME p[2] = Len(versions[p[1]]), o.gw \notin {NoNode, gw}
                   PROVE  suspect[p[1]]
        OBVIOUS
      <4>1. ~KeepsGateway(o) /\ o = Latest(p[1])
        BY DEF chooseGatewayNode, Latest
      <4>2. nodeState[o.gw] # "ready"
        BY <4>1, <1>3 DEF KeepsGateway, Listed, Ready, Object
      <4> QED BY <4>1, <4>2, <1>3 DEF SuspectSound
    <3> QED BY <3>1, <3>2, <1>1, <1>3, <1>4 DEF Latest
  <2> QED BY <2>1, <2>2
<1> QED BY <1>6, <1>7, <1>8, <1>9

\* An object that is passed over, and a request that fails.
LEMMA FailIInv ==
    ASSUME IInv, NEW m \in Manager, ChooseFails(m) \/ UpdateFails(m)
    PROVE  IInv'
<1> USE DEF IInv
<1>1. UNCHANGED <<nodeState, versions, suspect, holder, elector, cache>>
  BY DEF ChooseFails, UpdateFails, api
<1>2. changes' \in Nat /\ faults' \in Nat
  <2>1. UNCHANGED budget \/ Fault
    BY DEF ChooseFails, UpdateFails
  <2> QED BY <2>1 DEF Fault, budget, TypeOK
<1>3. /\ loop' \in [Manager -> {"off", "select", "range", "update"}]
      /\ copyObj' \in [Manager -> Copy \union {NoCopy}]
      /\ \A i \in Manager : loop'[i] = "update" =>
             loop[i] = "update" /\ copyObj'[i] = copyObj[i]
  <2>1. CASE ChooseFails(m)
    BY <2>1 DEF ChooseFails, TypeOK
  <2>2. CASE UpdateFails(m)
    BY <2>2 DEF UpdateFails, TypeOK
  <2> QED BY <2>1, <2>2
<1>4. /\ todo' \in [Manager -> SUBSET (CR \X Nat)]
      /\ \A i \in Manager : todo'[i] \subseteq todo[i]
  <2>1. todo' = todo \/ \E p \in todo[m] : todo' = [todo EXCEPT ![m] = @ \ {p}]
    BY DEF ChooseFails, UpdateFails
  <2>2. CASE todo' = todo
    BY <2>2 DEF TypeOK
  <2>3. ASSUME NEW p \in todo[m], todo' = [todo EXCEPT ![m] = @ \ {p}]
        PROVE  /\ todo' \in [Manager -> SUBSET (CR \X Nat)]
               /\ \A i \in Manager : todo'[i] \subseteq todo[i]
    BY <2>3 DEF TypeOK
  <2> QED BY <2>1, <2>2, <2>3
<1>5. TypeOK'
  BY <1>1, <1>2, <1>3, <1>4 DEF TypeOK
<1>6. VersionsSound' /\ SuspectSound' /\ TodoSound'
  BY <1>1, <1>4 DEF VersionsSound, SuspectSound, TodoSound, Latest
<1>7. CopySound'
  BY <1>1, <1>3 DEF CopySound, Latest
<1> QED BY <1>5, <1>6, <1>7

\* What an accepted write is: the last version with another status.
LEMMA WrittenLemma ==
    ASSUME IInv, NEW m \in Manager, loop[m] = "update",
           Accepts(copyObj[m].cr, copyObj[m].base)
    PROVE  /\ copyObj[m] \in Copy
           /\ Written(copyObj[m]) \in Object
           /\ Written(copyObj[m]).present /\ Latest(copyObj[m].cr).present
           /\ Written(copyObj[m]).spec = Latest(copyObj[m].cr).spec
           /\ Written(copyObj[m]).gw = copyObj[m].gw
           /\ NamesOneNode(Written(copyObj[m]))
           /\ Latest(copyObj[m].cr).gw \notin {NoNode, copyObj[m].gw}
                  => suspect[copyObj[m].cr]
<1> DEFINE k == copyObj[m]
           o == Latest(k.cr)
<1>1. k \in Copy /\ k.cr \in CR /\ k.gw \in Node /\ k.ip \in IP
  BY DEF IInv, TypeOK, Copy
<1>2. k.base = Len(versions[k.cr])
  BY DEF Accepts
<1>3. /\ o.present /\ k.ip = NodeIP[k.gw]
      /\ o.gw \notin {NoNode, k.gw} => suspect[k.cr]
  BY <1>2 DEF IInv, CopySound, Latest
<1>4. o \in Object
  BY <1>1, LatestLemma DEF IInv
<1>5. Written(k) = [o EXCEPT !.gw = k.gw, !.ip = k.ip]
  BY <1>2 DEF Written, Latest
<1> HIDE DEF k, o
<1>6. /\ Written(k) \in Object /\ Written(k).present
      /\ Written(k).spec = o.spec /\ Written(k).gw = k.gw /\ Written(k).ip = k.ip
  BY <1>1, <1>3, <1>4, <1>5 DEF Object
<1>7. NamesOneNode(Written(k))
  BY <1>1, <1>3, <1>6, AddressAssumption DEF NamesOneNode
<1> QED BY <1>1, <1>3, <1>6, <1>7 DEF k, o

\* The write itself.
LEMMA UpdateIInv ==
    ASSUME IInv, NEW m \in Manager, Update(m)
    PROVE  IInv'
<1> DEFINE k == copyObj[m]
<1>1. /\ loop[m] = "update" /\ loop' = [loop EXCEPT ![m] = "range"]
      /\ copyObj' = [copyObj EXCEPT ![m] = NoCopy]
      /\ UNCHANGED <<nodeState, holder, elector, cache, todo, changes, faults>>
  BY DEF Update, budget
<1>2. /\ loop' \in [Manager -> {"off", "select", "range", "update"}]
      /\ copyObj' \in [Manager -> Copy \union {NoCopy}]
      /\ \A i \in Manager : loop'[i] = "update" =>
             loop[i] = "update" /\ copyObj'[i] = copyObj[i]
  BY <1>1 DEF IInv, TypeOK
<1>3. CASE Accepts(k.cr, k.base) /\ Written(k) # Latest(k.cr)
  <2>1. /\ Write(k.cr, Written(k))
        /\ suspect' = [suspect EXCEPT ![k.cr] =
               ~Ready(k.gw) \/ (@ /\ k.gw = Latest(k.cr).gw)]
    BY <1>3 DEF Update
  <2>2. /\ k \in Copy /\ k.cr \in CR /\ k.gw \in Node /\ Written(k) \in Object
        /\ Written(k).spec = Latest(k.cr).spec /\ Written(k).gw = k.gw
        /\ NamesOneNode(Written(k))
    BY <1>1, <1>3, WrittenLemma DEF Copy
  <2>3. Written(k).spec <= Len(versions[k.cr]) + 1
    <3>1. Latest(k.cr).spec <= Len(versions[k.cr]) /\ Latest(k.cr).spec \in Nat
      BY <2>2, LatestLemma DEF IInv, VersionsSound, Latest, Object
    <3> QED BY <2>2, <3>1, LatestLemma DEF IInv
  <2>4. suspect' \in [CR -> BOOLEAN]
    BY <2>1, <2>2 DEF IInv, TypeOK, Ready
  <2>5. /\ Written(k).gw # NoNode /\ nodeState[Written(k).gw] # "ready"
              => suspect'[k.cr]
        /\ \A d \in CR \ {k.cr} : suspect'[d] = suspect[d]
    BY <2>1, <2>2 DEF IInv, TypeOK, Ready
  <2>6. changes' \in Nat
    BY <1>1 DEF IInv, TypeOK
  <2> HIDE DEF k
  <2> QED BY <1>1, <1>2, <2>1, <2>2, <2>3, <2>4, <2>5, <2>6, WriteIInv
<1>4. CASE ~(Accepts(k.cr, k.base) /\ Written(k) # Latest(k.cr))
  <2> USE DEF IInv
  <2>1. UNCHANGED <<versions, suspect>>
    BY <1>4 DEF Update, api
  <2>2. TypeOK'
    BY <1>1, <1>2, <2>1 DEF TypeOK
  <2>3. VersionsSound' /\ SuspectSound' /\ TodoSound'
    BY <1>1, <2>1 DEF VersionsSound, SuspectSound, TodoSound, Latest
  <2>4. CopySound'
    BY <1>1, <1>2, <2>1 DEF CopySound, Latest
  <2> QED BY <2>2, <2>3, <2>4
<1> QED BY <1>3, <1>4

\* Every step preserves the inductive invariant.
LEMMA NextIInv == IInv /\ [Next]_vars => IInv'
<1> SUFFICES ASSUME IInv, [Next]_vars PROVE IInv'
  OBVIOUS
<1>1. CASE Environment
  BY <1>1, NodeChangeIInv, UserIInv DEF Environment
<1>2. ASSUME NEW m \in Manager, Election(m) \/ Leading(m) \/ Deliver(m)
      PROVE  IInv'
  BY <1>2, ElectionIInv, DeliverIInv, TickIInv, ChooseIInv, FailIInv, UpdateIInv
     DEF Leading
<1>3. CASE UNCHANGED vars
  BY <1>3 DEF vars, IInv, TypeOK, VersionsSound, SuspectSound, TodoSound,
              CopySound, Latest
<1> QED BY <1>1, <1>2, <1>3 DEF Next

\* The inductive invariant holds in every reachable state.
LEMMA Invariance == Spec => []IInv
  BY InitIInv, NextIInv, PTL DEF Spec

\* Type correctness of the gateway manager: in particular what is on its way
\* to an Update always carries a node and an address, whatever fails.
THEOREM TypeCorrect == Spec => []TypeOK
<1>1. IInv => TypeOK
  BY DEF IInv
<1> QED BY <1>1, Invariance, PTL

\* GatewayNode and GatewayIP of every object always name the same node, for
\* any number of replicas, objects and nodes.
THEOREM StatusCorrect == Spec => []StatusNamesOneNode
<1>1. IInv => StatusNamesOneNode
  BY LatestLemma DEF IInv, VersionsSound, StatusNamesOneNode, Latest
<1> QED BY <1>1, Invariance, PTL

\* A step that writes no object keeps its last version.
LEMMA NoWrite ==
    ASSUME versions' = versions, NEW c \in CR
    PROVE  Latest(c)' = Latest(c)
  BY DEF Latest

\* What one step does to the last version of an object: nothing, or what a
\* user does, or what an accepted Update does.
LEMMA StepLemma ==
    ASSUME IInv, Next, NEW c \in CR
    PROVE  \/ Latest(c)' = Latest(c)
           \/ ~Latest(c)'.present
           \/ ~Latest(c).present /\ Latest(c)'.gw = NoNode
           \/ /\ Latest(c).present /\ Latest(c)'.gw = Latest(c).gw
              /\ Latest(c)'.spec > Latest(c).spec
           \/ /\ Latest(c).present /\ Latest(c)'.spec = Latest(c).spec
              /\ Latest(c).gw \notin {NoNode, Latest(c)'.gw} => suspect[c]
<1> USE DEF IInv
<1>1. ASSUME NEW d \in CR, NEW o \in Object, Write(d, o)
      PROVE  Latest(d)' = o /\ (c # d => Latest(c)' = Latest(c))
  BY <1>1, WriteLemma, LatestLemma DEF Latest
<1>2. ASSUME NEW n \in Node, NEW s \in {"ready", "notReady", "gone"},
             NodeChange(n, s)
      PROVE  Latest(c)' = Latest(c)
  BY <1>2, NoWrite DEF NodeChange
<1>3. ASSUME NEW d \in CR, CreateCR(d)
      PROVE  Latest(c)' = Latest(c) \/ (~Latest(c).present /\ Latest(c)'.gw = NoNode)
  <2> DEFINE o == [present |-> TRUE, spec |-> Len(versions[d]) + 1,
                   gw |-> NoNode, ip |-> NoIP]
  <2>1. o \in Object /\ Write(d, o) /\ o.gw = NoNode /\ ~Latest(d).present
    BY <1>3, LatestLemma DEF CreateCR, Object
  <2> HIDE DEF o
  <2> QED BY <1>1, <2>1
<1>4. ASSUME NEW d \in CR, EditSpec(d)
      PROVE  \/ Latest(c)' = Latest(c)
             \/ /\ Latest(c).present /\ Latest(c)'.gw = Latest(c).gw
                /\ Latest(c)'.spec > Latest(c).spec
  <2> DEFINE o == [Latest(d) EXCEPT !.spec = Len(versions[d]) + 1]
  <2>1. /\ o \in Object /\ o.gw = Latest(d).gw
        /\ o.spec = Len(versions[d]) + 1 /\ Latest(d).spec \in Nat
    BY LatestLemma DEF Object
  <2>2. Latest(d).spec <= Len(versions[d])
    BY LatestLemma DEF VersionsSound, Latest
  <2>3. o.spec > Latest(d).spec
    BY <2>1, <2>2, LatestLemma
  <2>4. Write(d, o) /\ Latest(d).present
    BY <1>4 DEF EditSpec
  <2> HIDE DEF o
  <2> QED BY <1>1, <2>1, <2>3, <2>4
<1>5. ASSUME NEW d \in CR, DeleteCR(d)
      PROVE  Latest(c)' = Latest(c) \/ ~Latest(c)'.present
  <2>1. Absent \in Object /\ ~Absent.present /\ Write(d, Absent)
    BY <1>5 DEF DeleteCR, Absent, Object
  <2> QED BY <1>1, <2>1
<1>6. ASSUME NEW m \in Manager, Update(m)
      PROVE  \/ Latest(c)' = Latest(c)
             \/ /\ Latest(c).present /\ Latest(c)'.spec = Latest(c).spec
                /\ Latest(c).gw \notin {NoNode, Latest(c)'.gw} => suspect[c]
  <2> DEFINE k == copyObj[m]
  <2>1. CASE Accepts(k.cr, k.base) /\ Written(k) # Latest(k.cr)
    <3>1. Write(k.cr, Written(k)) /\ loop[m] = "update"
      BY <1>6, <2>1 DEF Update
    <3>2. /\ k.cr \in CR /\ Written(k) \in Object /\ Latest(k.cr).present
          /\ Written(k).spec = Latest(k.cr).spec /\ Written(k).gw = k.gw
          /\ Latest(k.cr).gw \notin {NoNode, k.gw} => suspect[k.cr]
      BY <2>1, <3>1, WrittenLemma DEF Copy
    <3>3. ASSUME NEW d \in CR, d = k.cr
          PROVE  Latest(d)' = Written(k) /\ (c # d => Latest(c)' = Latest(c))
      BY <1>1, <3>1, <3>2, <3>3
    <3> HIDE DEF k
    <3> QED BY <3>2, <3>3
  <2>2. CASE ~(Accepts(k.cr, k.base) /\ Written(k) # Latest(k.cr))
    BY <1>6, <2>2, NoWrite DEF Update, api
  <2> QED BY <2>1, <2>2
<1>7. ASSUME NEW m \in Manager, Election(m) \/ Deliver(m) \/ Tick(m) \/ Stop(m)
             \/ Choose(m) \/ ChooseFails(m) \/ UpdateFails(m) \/ RangeDone(m)
      PROVE  Latest(c)' = Latest(c)
  BY <1>7, NoWrite DEF Election, Acquire, TakeOver, Lose, Exit, Crash, Lead,
     Restart, Deliver, WatchDeliver, Tick, Stop, Choose, ChooseFails, UpdateFails,
     RangeDone, api
<1> QED BY <1>2, <1>3, <1>4, <1>5, <1>6, <1>7 DEF Next, Environment, Leading

\* No Update of a manager, however stale its copy and however many managers
\* believe they lead, undoes an edit of a user or revives a deleted object.
THEOREM NoLostEditHolds == Spec => NoLostEdit
<1>1. IInv /\ [Next]_vars => [SpecNeverReverts]_vars
  <2> SUFFICES ASSUME IInv, Next PROVE SpecNeverReverts
    OBVIOUS
  <2> SUFFICES ASSUME NEW c \in CR
               PROVE  /\ Latest(c).present /\ Latest(c)'.present
                            => Latest(c)'.spec >= Latest(c).spec
                      /\ ~Latest(c).present /\ Latest(c)'.present
                            => Latest(c)'.gw = NoNode
    BY DEF SpecNeverReverts
  <2>1. Latest(c).spec \in Nat
    BY LatestLemma DEF IInv, Object
  <2>2. Latest(c)'.spec \in Nat
    <3>1. TypeOK'
      BY NextIInv DEF IInv
    <3>2. versions'[c] \in Seq(Object) /\ Len(versions'[c]) > 0
      BY <3>1 DEF TypeOK
    <3>3. Latest(c)' \in Object
      BY <3>2 DEF Latest
    <3> QED BY <3>3 DEF Object
  <2> QED BY StepLemma, <2>1, <2>2
<1> QED BY <1>1, Invariance, PTL DEF Spec, NoLostEdit

\* A gateway that has been ready since it was assigned is never replaced.
THEOREM StickyGatewayHolds == Spec => StickyGateway
<1>1. IInv /\ [Next]_vars => [GatewayMovesOnlyIfSuspect]_vars
  <2> SUFFICES ASSUME IInv, Next PROVE GatewayMovesOnlyIfSuspect
    OBVIOUS
  <2> SUFFICES ASSUME NEW c \in CR, Latest(c).present, Latest(c)'.present,
                      Latest(c).gw # NoNode, Latest(c)'.gw # Latest(c).gw
               PROVE  suspect[c]
    BY DEF GatewayMovesOnlyIfSuspect
  <2> QED BY StepLemma
<1> QED BY <1>1, Invariance, PTL DEF Spec, StickyGateway

-----------------------------------------------------------------------------
\* What a write of object d amounts to in the abstract specification.
LEMMA WriteMapped ==
    ASSUME TypeOK, NEW d \in CR, NEW o \in Object, Write(d, o)
    PROVE  /\ [c \in CR |-> Latest(c)]' = [[c \in CR |-> Latest(c)] EXCEPT ![d] = o]
           /\ [c \in CR |-> Latest(c)]'[d] = o
<1>1. \A c \in CR : Latest(c)' = IF c = d THEN o ELSE Latest(c)
  BY WriteLemma, LatestLemma DEF Latest
<1>2. [c \in CR |-> Latest(c)]' = [c \in CR |-> Latest(c)']
  OBVIOUS
<1> QED BY <1>1, <1>2

\* A write by a user or by an accepted Update is a step of the assignment.
LEMMA UserMapped ==
    ASSUME IInv, NEW d \in CR, CreateCR(d) \/ EditSpec(d) \/ DeleteCR(d)
    PROVE  Assignment!Create(d) \/ Assignment!Edit(d) \/ Assignment!Delete(d)
<1> USE DEF IInv
<1> DEFINE bar == [c \in CR |-> Latest(c)]
<1>0. bar[d] = Latest(d) /\ Latest(d) \in Object
  BY LatestLemma
<1>s. suspect \in [CR -> BOOLEAN]
  BY DEF TypeOK
<1>1. CASE CreateCR(d)
  <2> DEFINE o == [present |-> TRUE, spec |-> Len(versions[d]) + 1,
                   gw |-> NoNode, ip |-> NoIP]
  <2>1. o \in Object /\ Write(d, o) /\ ~Latest(d).present
    BY <1>1, LatestLemma DEF CreateCR, Object
  <2>2. bar' = [bar EXCEPT ![d] = o] /\ bar'[d] = o
    BY <2>1, WriteMapped
  <2>3. suspect' = [suspect EXCEPT ![d] = suspect'[d]]
    BY <1>1, <1>s DEF CreateCR
  <2>4. bar' = [bar EXCEPT ![d] = [present |-> TRUE, spec |-> bar'[d].spec,
                                   gw |-> NoNode, ip |-> NoIP]]
    BY <2>2
  <2> QED BY <1>0, <2>1, <2>3, <2>4 DEF Assignment!Create, Assignment!Only
<1>2. CASE EditSpec(d)
  <2> DEFINE o == [Latest(d) EXCEPT !.spec = Len(versions[d]) + 1]
  <2>1. o \in Object /\ o.spec = Len(versions[d]) + 1 /\ Latest(d).spec \in Nat
    BY LatestLemma DEF Object
  <2>2. Latest(d).spec <= Len(versions[d])
    BY LatestLemma DEF VersionsSound, Latest
  <2>3. Write(d, o) /\ Latest(d).present /\ suspect' = suspect
    BY <1>2 DEF EditSpec
  <2>4. bar' = [bar EXCEPT ![d] = o] /\ bar'[d] = o
    BY <2>1, <2>3, WriteMapped
  <2>5. bar'[d].spec > bar[d].spec
    <3>1. Len(versions[d]) \in Nat
      BY LatestLemma
    <3>2. bar'[d].spec = Len(versions[d]) + 1 /\ bar[d].spec = Latest(d).spec
      BY <1>0, <2>1, <2>4
    <3> QED BY <2>1, <2>2, <3>1, <3>2
  <2>6. bar' = [bar EXCEPT ![d] = [bar[d] EXCEPT !.spec = bar'[d].spec]]
    BY <1>0, <2>1, <2>4
  <2>7. suspect' = [suspect EXCEPT ![d] = suspect'[d]]
    BY <1>s, <2>3
  <2> QED BY <1>0, <2>3, <2>5, <2>6, <2>7 DEF Assignment!Edit, Assignment!Only
<1>3. CASE DeleteCR(d)
  <2>1. Absent \in Object /\ Write(d, Absent) /\ Latest(d).present
    BY <1>3 DEF DeleteCR, Absent, Object
  <2>2. bar' = [bar EXCEPT ![d] = Absent]
    BY <2>1, WriteMapped
  <2>3. suspect' = [suspect EXCEPT ![d] = suspect'[d]]
    BY <1>3, <1>s DEF DeleteCR
  <2> QED BY <1>0, <2>1, <2>2, <2>3
       DEF Assignment!Delete, Assignment!Only, Assignment!Absent, Absent
<1> QED BY <1>1, <1>2, <1>3

\* A write that is accepted assigns a gateway, or changes nothing.
LEMMA UpdateMapped ==
    ASSUME IInv, NEW m \in Manager, Update(m)
    PROVE  \/ [c \in CR |-> Latest(c)]' = [c \in CR |-> Latest(c)] /\ suspect' = suspect
           \/ \E c \in CR, n \in Node : Assignment!Assign(c, n)
<1> USE DEF IInv
<1> DEFINE bar == [c \in CR |-> Latest(c)]
           k == copyObj[m]
<1>1. CASE ~(Accepts(k.cr, k.base) /\ Written(k) # Latest(k.cr))
  BY <1>1, NoWrite DEF Update, api
<1>2. CASE Accepts(k.cr, k.base) /\ Written(k) # Latest(k.cr)
  <2>1. Write(k.cr, Written(k)) /\ loop[m] = "update"
    BY <1>2 DEF Update
  <2>2. k \in Copy /\ k.cr \in CR /\ k.gw \in Node /\ k.ip \in IP
    BY <2>1 DEF TypeOK, Copy
  <2>3. /\ Written(k) \in Object /\ Latest(k.cr).present
        /\ Latest(k.cr).gw \notin {NoNode, k.gw} => suspect[k.cr]
    BY <1>2, <2>1, WrittenLemma DEF Copy
  <2>4. Written(k) = [Latest(k.cr) EXCEPT !.gw = k.gw, !.ip = k.ip]
    BY <1>2 DEF Written, Accepts, Latest
  <2>5. k.ip = NodeIP[k.gw] /\ NodeIP[k.gw] # NoIP
    BY <2>1, <2>2, AddressAssumption DEF CopySound
  <2>6. Latest(k.cr) \in Object /\ bar[k.cr] = Latest(k.cr)
    BY <2>2, LatestLemma
  <2>7. Latest(k.cr).gw # k.gw
    <3>1. NamesOneNode(Latest(k.cr))
      BY <2>2, LatestLemma DEF VersionsSound, Latest
    <3>2. ASSUME Latest(k.cr).gw = k.gw PROVE Latest(k.cr).ip = k.ip
      BY <3>1, <3>2, <2>2, <2>5, NullAssumption DEF NamesOneNode
    <3> QED BY <1>2, <2>4, <2>6, <3>2 DEF Object
  <2>8. bar' = [bar EXCEPT ![k.cr] = [bar[k.cr] EXCEPT !.gw = k.gw, !.ip = NodeIP[k.gw]]]
    <3>1. ASSUME NEW d \in CR, d = k.cr
          PROVE  bar' = [bar EXCEPT ![d] = Written(k)]
      BY <2>1, <2>3, <3>1, WriteMapped
    <3>2. Written(k) = [bar[k.cr] EXCEPT !.gw = k.gw, !.ip = NodeIP[k.gw]]
      BY <2>4, <2>5, <2>6
    <3> HIDE DEF bar, k
    <3> QED BY <2>2, <3>1, <3>2
  <2>9. suspect' = [suspect EXCEPT ![k.cr] = suspect'[k.cr]]
    BY <1>2, <2>2 DEF Update, TypeOK
  <2> HIDE DEF k
  <2>10. Assignment!Assign(k.cr, k.gw)
    BY <2>2, <2>3, <2>5, <2>6, <2>7, <2>8, <2>9 DEF Assignment!Assign, Assignment!Only
  <2> QED BY <2>2, <2>10
<1> QED BY <1>1, <1>2

\* A node that fails puts its objects in doubt.
LEMMA NodeChangeMapped ==
    ASSUME IInv, NEW n \in Node, NEW s \in {"ready", "notReady", "gone"}, NodeChange(n, s)
    PROVE  Assignment!Doubt
<1> DEFINE bar == [c \in CR |-> Latest(c)]
<1>1. bar' = bar
  BY NoWrite DEF NodeChange
<1>2. \A c \in CR : suspect'[c] = suspect[c] \/ (suspect'[c] /\ bar[c].gw # NoNode)
  BY NullAssumption DEF NodeChange, IInv, TypeOK
<1> QED BY <1>1, <1>2 DEF Assignment!Doubt

\* The replicas, with their caches, stale copies and overlapping leaderships,
\* implement the assignment: every write of a status is one step, on top of the
\* current object, with the address of the node it names, and takes a gateway
\* away only if it has been failing.
THEOREM Implementation == Spec => ImplementsAssignment
<1> DEFINE bar == [c \in CR |-> Latest(c)]
<1>1. Init => Assignment!Init
  BY DEF Init, Assignment!Init, Latest, Absent, Assignment!Absent
<1>2. IInv /\ [Next]_vars => [Assignment!Next]_(Assignment!vars)
  <2> SUFFICES ASSUME IInv, [Next]_vars PROVE [Assignment!Next]_(Assignment!vars)
    OBVIOUS
  <2>1. ASSUME NEW n \in Node, NEW s \in {"ready", "notReady", "gone"}, NodeChange(n, s)
        PROVE  Assignment!Next
    BY <2>1, NodeChangeMapped DEF Assignment!Next
  <2>2. ASSUME NEW d \in CR, CreateCR(d) \/ EditSpec(d) \/ DeleteCR(d)
        PROVE  Assignment!Next
    BY <2>2, UserMapped DEF Assignment!Next
  <2>3. ASSUME NEW m \in Manager, Update(m)
        PROVE  [Assignment!Next]_(Assignment!vars)
    BY <2>3, UpdateMapped DEF Assignment!Next, Assignment!vars
  <2>4. ASSUME versions' = versions, suspect' = suspect
        PROVE  UNCHANGED Assignment!vars
    BY <2>4, NoWrite DEF Assignment!vars
  <2>5. ASSUME NEW m \in Manager, Election(m) \/ Deliver(m) \/ Tick(m) \/ Stop(m)
               \/ Choose(m) \/ ChooseFails(m) \/ UpdateFails(m) \/ RangeDone(m)
        PROVE  versions' = versions /\ suspect' = suspect
    BY <2>5 DEF Election, Acquire, TakeOver, Lose, Exit, Crash, Lead, Restart,
       Deliver, WatchDeliver, Tick, Stop, Choose, ChooseFails, UpdateFails,
       RangeDone, api
  <2>6. ASSUME UNCHANGED vars
        PROVE  versions' = versions /\ suspect' = suspect
    BY <2>6 DEF vars
  <2> QED BY <2>1, <2>2, <2>3, <2>4, <2>5, <2>6 DEF Next, Environment, Leading
<1> QED BY <1>1, <1>2, Invariance, PTL DEF Spec, ImplementsAssignment, Assignment!Spec

=============================================================================
