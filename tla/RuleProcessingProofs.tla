------------------------ MODULE RuleProcessingProofs ------------------------
(***************************************************************************)
(* What holds of the calls that the jobs of pkg/controller make, whatever  *)
(* the object and its endpoints: which commands follow on which, what kind *)
(* of job runs them and whose sets they name.                              *)
(***************************************************************************)
EXTENDS RuleProcessing, NodeKernelProofs

IsSeq(q) == \E S : q \in Seq(S)

\* The commands that may make the code skip the next one, and the ones skipped.
Check == {"linkList", "routeList", "routeListAddr", "snatList"}
Skippable == {"tunnelAdd", "routeAdd", "routeDeleteVia", "snat"}

Alike(c, d) == c.set = d.set /\ c.dst = d.dst

\* Command d comes right after command c in a call.
Adjacent(c, d) ==
    /\ c.op \in Check => d.op \in Skippable
    /\ c.op = "unmark" => d.op = "unbypass" /\ Alike(c, d)
    /\ d.op = "snat" => c.op = "snatList" /\ Alike(c, d) /\ c.to = d.to
    /\ d.op = "bypass" => c.op = "mark" /\ Alike(c, d)

\* A job of that kind for object key, with destination dst, may run c.
Proper(kind, key, dst, c) ==
    /\ c.op \in {"mark", "bypass"} => kind = "director"
    /\ c.op = "snat" => kind = "gateway"
    /\ c.op = "add" => kind \in {"gateway", "director"}
    /\ c.op \in {"destroy", "unmark"} => kind \in {"demote", "promote", "delete"}
    /\ c.op \in {"add", "mark", "bypass", "snat", "destroy", "unmark"} =>
           c.set[1] = FullName[key]
    /\ c.op = "bypass" => c.dst = dst

\* The commands of a call, or of a part of one.
Part(kind, key, dst, cmds) ==
    /\ IsSeq(cmds)
    /\ \A i \in 1..Len(cmds) : \A j \in 1..Len(cmds) :
           j = i + 1 => Adjacent(cmds[i], cmds[j])
    /\ \A i \in 1..Len(cmds) : Proper(kind, key, dst, cmds[i])
    /\ Len(cmds) # 0 => cmds[Len(cmds)].op \notin Check \union {"unmark"}

\* Its first command needs no other before it.
Fresh(cmds) == Len(cmds) # 0 => cmds[1].op \notin {"snat", "bypass"}

\* It ends with the route to dst, which is added unless it is listed.
RouteAhead(cmds, dst) ==
    /\ cmds[Len(cmds)].op = "routeAdd" /\ cmds[Len(cmds)].dst = dst
    /\ \A i \in 1..Len(cmds) :
           i + 1 = Len(cmds) => cmds[i].op = "routeListAddr" /\ cmds[i].dst = dst

\* What is left of a call.
Whole(kind, key, cmds) ==
    \E dst : /\ Part(kind, key, dst, cmds) /\ Len(cmds) # 0
             /\ kind = "director" => RouteAhead(cmds, dst)

\* What is left of the calls of a rule.
CallsOK(kind, key, calls) ==
    /\ IsSeq(calls)
    /\ \A i \in 1..Len(calls) : Whole(kind, key, calls[i].cmds)
    /\ \A i \in 2..Len(calls) : Fresh(calls[i].cmds)

-----------------------------------------------------------------------------
\* Of two sequences, one after the other.
LEMMA Joined ==
    ASSUME NEW a, IsSeq(a), NEW b, IsSeq(b)
    PROVE  /\ IsSeq(a \o b) /\ Len(a) \in Nat /\ Len(b) \in Nat
           /\ Len(a \o b) = Len(a) + Len(b)
           /\ \A i \in 1..Len(a) : (a \o b)[i] = a[i]
           /\ \A i \in 1..Len(b) : (a \o b)[Len(a) + i] = b[i]
           /\ \A i \in 1..(Len(a) + Len(b)) :
                  (a \o b)[i] = IF i <= Len(a) THEN a[i] ELSE b[i - Len(a)]
<1>1. PICK S : a \in Seq(S)
  BY DEF IsSeq
<1>2. PICK T : b \in Seq(T)
  BY DEF IsSeq
<1>3. PICK U : U = S \union T
  OBVIOUS
<1>4. a \in Seq(U) /\ b \in Seq(U)
  BY <1>1, <1>2, <1>3
<1>5. /\ a \o b \in Seq(U) /\ Len(a \o b) = Len(a) + Len(b)
      /\ \A i \in 1..(Len(a) + Len(b)) :
             (a \o b)[i] = IF i <= Len(a) THEN a[i] ELSE b[i - Len(a)]
  BY <1>4, ConcatProperties
<1>6. Len(a) \in Nat /\ Len(b) \in Nat
  BY <1>4
<1>7. IsSeq(a \o b)
  BY <1>5 DEF IsSeq
<1> QED BY <1>5, <1>6, <1>7

\* Parts joined are a part.
LEMMA PartConcat ==
    ASSUME NEW kind, NEW key, NEW dst, NEW a, Part(kind, key, dst, a),
           NEW b, Part(kind, key, dst, b), Fresh(b)
    PROVE  /\ Part(kind, key, dst, a \o b)
           /\ Fresh(a) => Fresh(a \o b)
<1>1. PICK q : q = a \o b
  OBVIOUS
<1>2. /\ IsSeq(q) /\ Len(a) \in Nat /\ Len(b) \in Nat
      /\ Len(q) = Len(a) + Len(b)
      /\ \A i \in 1..(Len(a) + Len(b)) : q[i] = IF i <= Len(a) THEN a[i] ELSE b[i - Len(a)]
  BY <1>1, Joined DEF Part
<1>3. ASSUME NEW i \in 1..Len(q), NEW j \in 1..Len(q), j = i + 1
      PROVE  Adjacent(q[i], q[j])
  <2>1. CASE j <= Len(a)
    <3>1. i \in 1..Len(a) /\ j \in 1..Len(a) /\ q[i] = a[i] /\ q[j] = a[j]
      BY <1>2, <1>3, <2>1
    <3> QED BY <1>3, <3>1 DEF Part
  <2>2. CASE i > Len(a)
    <3>1. PICK x, y : x = i - Len(a) /\ y = j - Len(a)
      OBVIOUS
    <3>2. x \in 1..Len(b) /\ y \in 1..Len(b) /\ y = x + 1 /\ q[i] = b[x] /\ q[j] = b[y]
      BY <1>2, <1>3, <2>2, <3>1
    <3> QED BY <3>2 DEF Part
  <2>3. CASE i = Len(a)
    <3>1. q[i] = a[Len(a)] /\ q[j] = b[1] /\ Len(b) # 0 /\ Len(a) # 0
      BY <1>2, <1>3, <2>3
    <3> QED BY <3>1 DEF Part, Fresh, Adjacent
  <2> QED BY <1>2, <1>3, <2>1, <2>2, <2>3
<1>4. ASSUME NEW i \in 1..Len(q)
      PROVE  Proper(kind, key, dst, q[i])
  <2>1. CASE i <= Len(a)
    BY <1>2, <2>1 DEF Part
  <2>2. CASE i > Len(a)
    <3>1. PICK x : x = i - Len(a)
      OBVIOUS
    <3>2. x \in 1..Len(b) /\ q[i] = b[x]
      BY <1>2, <2>2, <3>1
    <3> QED BY <3>2 DEF Part
  <2> QED BY <1>2, <2>1, <2>2
<1>5. Len(q) # 0 => q[Len(q)].op \notin Check \union {"unmark"}
  <2>1. CASE Len(b) = 0
    BY <1>2, <2>1 DEF Part
  <2>2. CASE Len(b) # 0
    <3>1. q[Len(q)] = b[Len(b)]
      BY <1>2, <2>2
    <3> QED BY <2>2, <3>1 DEF Part
  <2> QED BY <2>1, <2>2
<1>6. Fresh(a) => Fresh(q)
  <2>1. Len(q) # 0 => q[1] = IF Len(a) = 0 THEN b[1] ELSE a[1]
    BY <1>2
  <2> QED BY <1>2, <2>1 DEF Fresh
<1> QED BY <1>1, <1>2, <1>3, <1>4, <1>5, <1>6 DEF Part

\* One command.
LEMMA PartOne ==
    ASSUME NEW kind, NEW key, NEW dst, NEW a, Proper(kind, key, dst, a),
           a.op \notin Check \union {"unmark"}
    PROVE  Part(kind, key, dst, <<a>>)
<1>1. PICK q : q = <<a>>
  OBVIOUS
<1>2. q \in Seq({a}) /\ Len(q) = 1 /\ q[1] = a
  BY <1>1
<1>3. IsSeq(q)
  BY <1>2 DEF IsSeq
<1>4. \A i \in 1..Len(q) : \A j \in 1..Len(q) : j = i + 1 => Adjacent(q[i], q[j])
  BY <1>2
<1>5. \A i \in 1..Len(q) : Proper(kind, key, dst, q[i])
  BY <1>2
<1>6. Part(kind, key, dst, q)
  BY <1>2, <1>3, <1>4, <1>5 DEF Part
<1> QED BY <1>1, <1>6

\* Two commands.
LEMMA PartTwo ==
    ASSUME NEW kind, NEW key, NEW dst, NEW a, NEW b, Adjacent(a, b),
           Proper(kind, key, dst, a), Proper(kind, key, dst, b),
           b.op \notin Check \union {"unmark"}
    PROVE  Part(kind, key, dst, <<a, b>>)
<1>1. PICK q : q = <<a, b>>
  OBVIOUS
<1>2. q \in Seq({a, b}) /\ Len(q) = 2 /\ q[1] = a /\ q[2] = b
  BY <1>1
<1>3. IsSeq(q)
  BY <1>2 DEF IsSeq
<1>4. \A i \in 1..Len(q) : \A j \in 1..Len(q) : j = i + 1 => Adjacent(q[i], q[j])
  BY <1>2
<1>5. \A i \in 1..Len(q) : Proper(kind, key, dst, q[i])
  BY <1>2
<1>6. Part(kind, key, dst, q)
  BY <1>2, <1>3, <1>4, <1>5 DEF Part
<1> QED BY <1>1, <1>6

\* Three commands.
LEMMA PartThree ==
    ASSUME NEW kind, NEW key, NEW dst, NEW a, NEW b, NEW c, Adjacent(a, b), Adjacent(b, c),
           Proper(kind, key, dst, a), Proper(kind, key, dst, b), Proper(kind, key, dst, c),
           c.op \notin Check \union {"unmark"}
    PROVE  Part(kind, key, dst, <<a, b, c>>)
<1>1. PICK q : q = <<a, b, c>>
  OBVIOUS
<1>2. q \in Seq({a, b, c}) /\ Len(q) = 3 /\ q[1] = a /\ q[2] = b /\ q[3] = c
  BY <1>1
<1>3. IsSeq(q)
  BY <1>2 DEF IsSeq
<1>4. \A i \in 1..Len(q) : \A j \in 1..Len(q) : j = i + 1 => Adjacent(q[i], q[j])
  BY <1>2
<1>5. \A i \in 1..Len(q) : Proper(kind, key, dst, q[i])
  BY <1>2
<1>6. Part(kind, key, dst, q)
  BY <1>2, <1>3, <1>4, <1>5 DEF Part
<1> QED BY <1>1, <1>6

\* The parts that the operations of pkg/director and pkg/gateway consist of, in
\* a job of any kind.
LEMMA AnyParts ==
    ASSUME NEW kind, NEW key, NEW dst, NEW s, NEW d, NEW e, NEW gw
    PROVE  /\ Part(kind, key, dst, NewSet(s)) /\ Fresh(NewSet(s))
           /\ Part(kind, key, dst, EnsureTunnel(gw)) /\ Fresh(EnsureTunnel(gw))
           /\ Part(kind, key, dst, DeleteRoute(d)) /\ Fresh(DeleteRoute(d))
           /\ Part(kind, key, dst, <<Cmd("routeListAddr", None, d, None),
                                     Cmd("routeAdd", None, d, gw)>>)
           /\ Fresh(<<Cmd("routeListAddr", None, d, None), Cmd("routeAdd", None, d, gw)>>)
           /\ Part(kind, key, dst, <<Cmd("routeList", None, d, None),
                                     Cmd("routeAdd", None, d, gw)>>)
           /\ Fresh(<<Cmd("routeList", None, d, None), Cmd("routeAdd", None, d, gw)>>)
           /\ Part(kind, key, dst, <<Cmd("unsnat", s, d, e), Cmd("unforward", s, d, None)>>)
           /\ Fresh(<<Cmd("unsnat", s, d, e), Cmd("unforward", s, d, None)>>)
           /\ \A op \in {"forward", "retmark", "addrAdd", "addrDel", "nodeName", "linkPeek"} :
                  \A x, y, z : Part(kind, key, dst, <<Cmd(op, x, y, z)>>)
                                   /\ Fresh(<<Cmd(op, x, y, z)>>)
  <1> USE DEF Adjacent, Proper, Cmd, Check, Skippable, Alike, Fresh
  <1>1. Part(kind, key, dst, NewSet(s)) /\ Fresh(NewSet(s))
    BY PartTwo DEF NewSet
  <1>2. Part(kind, key, dst, EnsureTunnel(gw)) /\ Fresh(EnsureTunnel(gw))
    BY PartThree DEF EnsureTunnel
  <1>3. Part(kind, key, dst, DeleteRoute(d)) /\ Fresh(DeleteRoute(d))
    BY PartTwo DEF DeleteRoute
  <1>4. /\ Part(kind, key, dst, <<Cmd("routeListAddr", None, d, None),
                                  Cmd("routeAdd", None, d, gw)>>)
        /\ Fresh(<<Cmd("routeListAddr", None, d, None), Cmd("routeAdd", None, d, gw)>>)
    BY PartTwo
  <1>5. /\ Part(kind, key, dst, <<Cmd("routeList", None, d, None),
                                  Cmd("routeAdd", None, d, gw)>>)
        /\ Fresh(<<Cmd("routeList", None, d, None), Cmd("routeAdd", None, d, gw)>>)
    BY PartTwo
  <1>6. /\ Part(kind, key, dst, <<Cmd("unsnat", s, d, e), Cmd("unforward", s, d, None)>>)
        /\ Fresh(<<Cmd("unsnat", s, d, e), Cmd("unforward", s, d, None)>>)
    BY PartTwo
  <1>7. ASSUME NEW op \in {"forward", "retmark", "addrAdd", "addrDel", "nodeName", "linkPeek"},
               NEW x, NEW y, NEW z
        PROVE  Part(kind, key, dst, <<Cmd(op, x, y, z)>>) /\ Fresh(<<Cmd(op, x, y, z)>>)
    BY <1>7, PartOne
  <1> QED BY <1>1, <1>2, <1>3, <1>4, <1>5, <1>6, <1>7

\* FlattenSeq is well defined.
LEMMA Flattened ==
    ASSUME NEW seqs, Len(seqs) \in Nat, Len(seqs) # 0
    PROVE  \E f : /\ f[1] = seqs[1]
                  /\ \A i \in 2..Len(seqs) : f[i] = f[i - 1] \o seqs[i]
                  /\ FlattenSeq(seqs) = f[Len(seqs)]
<1> DEFINE Step(f, i) == IF i = 1 THEN seqs[i] ELSE f[i - 1] \o seqs[i]
           T == {m \in Nat : \E f : f = [i \in 1..m |-> Step(f, i)]}
<1>1. 0 \in T
  <2>1. ASSUME NEW f, f = [i \in 1..0 |-> 0]
        PROVE  f = [i \in 1..0 |-> Step(f, i)]
    BY <2>1
  <2> QED BY <2>1
<1>2. ASSUME NEW m \in Nat, m \in T
      PROVE  m + 1 \in T
  <2> HIDE DEF Step
  <2>1. PICK f : f = [i \in 1..m |-> Step(f, i)]
    BY <1>2
  <2> DEFINE g == [i \in 1..(m + 1) |-> IF i <= m THEN f[i] ELSE Step(f, i)]
  <2>2. ASSUME NEW i \in 1..(m + 1)
        PROVE  g[i] = Step(g, i)
    <3>1. i # 1 => g[i - 1] = f[i - 1]
      OBVIOUS
    <3>2. g[i] = Step(f, i)
      BY <2>1
    <3> HIDE DEF g
    <3>3. Step(g, i) = Step(f, i)
      BY <3>1 DEF Step
    <3> QED BY <3>2, <3>3
  <2>3. g = [i \in 1..(m + 1) |-> Step(g, i)]
    BY <2>2
  <2> HIDE DEF g
  <2>4. \E h : h = [i \in 1..(m + 1) |-> Step(h, i)]
    BY <2>3
  <2> QED BY <2>4
<1> HIDE DEF T
<1>3. Len(seqs) \in T
  BY <1>1, <1>2, SetInduction
<1> DEFINE R(f) == f = [i \in 1..Len(seqs) |-> Step(f, i)]
<1>4. PICK f : f = CHOOSE g : R(g)
  OBVIOUS
<1>5. R(f)
  BY <1>3, <1>4 DEF T
<1>6. FlattenSeq(seqs) = f[Len(seqs)]
  BY <1>4 DEF FlattenSeq
<1>7. f[1] = seqs[1] /\ \A i \in 2..Len(seqs) : f[i] = f[i - 1] \o seqs[i]
  <2> HIDE DEF Step
  <2>1. \A i \in 1..Len(seqs) : f[i] = Step(f, i)
    BY <1>5
  <2>2. f[1] = seqs[1]
    BY <2>1 DEF Step
  <2>3. ASSUME NEW i \in 2..Len(seqs)
        PROVE  f[i] = f[i - 1] \o seqs[i]
    <3>1. i # 1 /\ f[i] = Step(f, i)
      BY <2>1
    <3> QED BY <3>1, Zenon DEF Step
  <2> QED BY <2>2, <2>3
<1> QED BY <1>6, <1>7

\* An empty call is a part.
LEMMA PartNone ==
    ASSUME NEW kind, NEW key, NEW dst
    PROVE  Part(kind, key, dst, <<>>) /\ Fresh(<<>>)
<1>1. IsSeq(<<>>) /\ Len(<<>>) = 0
  <2>1. <<>> \in Seq({})
    OBVIOUS
  <2> QED BY <2>1 DEF IsSeq
<1> QED BY <1>1 DEF Part, Fresh

\* Any number of parts, one after the other, are a part.
LEMMA PartFlatten ==
    ASSUME NEW kind, NEW key, NEW dst, NEW seqs, IsSeq(seqs),
           \A i \in 1..Len(seqs) : Part(kind, key, dst, seqs[i]) /\ Fresh(seqs[i])
    PROVE  Part(kind, key, dst, FlattenSeq(seqs)) /\ Fresh(FlattenSeq(seqs))
<1>1. Len(seqs) \in Nat /\ (Len(seqs) = 0 => seqs = <<>>)
  BY DEF IsSeq
<1>2. CASE Len(seqs) = 0
  <2>1. FlattenSeq(seqs) = <<>>
    BY <1>1, <1>2, Zenon DEF FlattenSeq
  <2> QED BY <2>1, PartNone
<1>3. CASE Len(seqs) # 0
  <2>1. PICK f : /\ f[1] = seqs[1]
                 /\ \A i \in 2..Len(seqs) : f[i] = f[i - 1] \o seqs[i]
                 /\ FlattenSeq(seqs) = f[Len(seqs)]
    BY <1>1, <1>3, Flattened
  <2> DEFINE Q(q) == Part(kind, key, dst, q) /\ Fresh(q)
             T == {i \in Nat : i \in 1..Len(seqs) => Q(f[i])}
  <2>2. \A i \in 1..Len(seqs) : Q(seqs[i])
    OBVIOUS
  <2>3. ASSUME NEW a, NEW b, Q(a), Q(b) PROVE Q(a \o b)
    BY <2>3, PartConcat
  <2> HIDE DEF Q
  <2>4. 0 \in T
    OBVIOUS
  <2>5. ASSUME NEW i \in Nat, i \in T PROVE i + 1 \in T
    <3> SUFFICES ASSUME i + 1 \in 1..Len(seqs) PROVE Q(f[i + 1])
      OBVIOUS
    <3>1. CASE i = 0
      BY <1>1, <2>1, <2>2, <3>1
    <3>2. CASE i # 0
      <4>1. i \in 1..Len(seqs) /\ i + 1 \in 2..Len(seqs) /\ (i + 1) - 1 = i
        BY <1>1, <3>2
      <4>2. PICK a, b : a = f[i] /\ b = seqs[i + 1]
        OBVIOUS
      <4>3. Q(a) /\ Q(b)
        BY <2>2, <2>5, <4>1, <4>2
      <4>4. f[i + 1] = f[(i + 1) - 1] \o seqs[i + 1]
        BY <2>1, <4>1, Zenon
      <4>5. f[(i + 1) - 1] = a
        BY <4>1, <4>2
      <4>6. f[i + 1] = a \o b
        BY <4>2, <4>4, <4>5, Zenon
      <4> QED BY <2>3, <4>3, <4>6
    <3> QED BY <3>1, <3>2
  <2> HIDE DEF T
  <2>6. Len(seqs) \in T
    BY <1>1, <2>4, <2>5, SetInduction
  <2>7. Q(f[Len(seqs)])
    BY <1>1, <1>3, <2>6 DEF T
  <2> QED BY <2>1, <2>7 DEF Q
<1> QED BY <1>2, <1>3

\* The paths back to the pods.
LEMMA PartReturnPaths ==
    ASSUME NEW kind, NEW key, NEW dst, NEW self, NEW ips, Len(ips) \in Nat, NEW lost
    PROVE  /\ Part(kind, key, dst, ReturnPaths(self, ips, lost))
           /\ Fresh(ReturnPaths(self, ips, lost))
<1> DEFINE path(p) ==
        CASE Host[p] = NoNode -> <<Cmd("nodeName", None, p, None)>>
          [] Host[p] # NoNode /\ p \in lost -> <<>>
          [] p \notin lost /\ Host[p] = self /\ Host[p] # NoNode ->
                 <<Cmd("linkPeek", None, None, None)>>
          [] OTHER -> EnsureTunnel(Host[p]) \o
                      <<Cmd("routeList", None, p, None), Cmd("routeAdd", None, p, Host[p])>>
<1>1. ASSUME NEW p PROVE Part(kind, key, dst, path(p)) /\ Fresh(path(p))
  <2>1. CASE Host[p] = NoNode
    <3>1. path(p) = <<Cmd("nodeName", None, p, None)>>
      BY <2>1, Zenon
    <3>2. /\ Part(kind, key, dst, <<Cmd("nodeName", None, p, None)>>)
          /\ Fresh(<<Cmd("nodeName", None, p, None)>>)
      BY AnyParts
    <3> QED BY <3>1, <3>2, Zenon
  <2>2. CASE Host[p] # NoNode /\ p \in lost
    <3>1. path(p) = <<>>
      BY <2>2, Zenon
    <3> QED BY <3>1, PartNone, Zenon
  <2>3. CASE p \notin lost /\ Host[p] = self /\ Host[p] # NoNode
    <3>1. path(p) = <<Cmd("linkPeek", None, None, None)>>
      BY <2>3, Zenon
    <3>2. /\ Part(kind, key, dst, <<Cmd("linkPeek", None, None, None)>>)
          /\ Fresh(<<Cmd("linkPeek", None, None, None)>>)
      BY AnyParts
    <3> QED BY <3>1, <3>2, Zenon
  <2>4. CASE p \notin lost /\ Host[p] # self /\ Host[p] # NoNode
    <3>1. PICK a, b : /\ a = EnsureTunnel(Host[p])
                      /\ b = <<Cmd("routeList", None, p, None),
                               Cmd("routeAdd", None, p, Host[p])>>
      OBVIOUS
    <3>2. path(p) = a \o b
      BY <2>4, <3>1, Zenon
    <3>3. Part(kind, key, dst, a) /\ Fresh(a)
      BY <3>1, AnyParts
    <3>4. Part(kind, key, dst, b) /\ Fresh(b)
      BY <3>1, AnyParts
    <3>5. Part(kind, key, dst, a \o b) /\ Fresh(a \o b)
      BY <3>3, <3>4, PartConcat
    <3> QED BY <3>2, <3>5, Zenon
  <2> QED BY <2>1, <2>2, <2>3, <2>4
<1>2. ReturnPaths(self, ips, lost) = FlattenSeq([j \in 1..Len(ips) |-> path(ips[j])])
  BY Zenon DEF ReturnPaths
<1> HIDE DEF path
<1>3. PICK seqs : seqs = [j \in 1..Len(ips) |-> path(ips[j])]
  OBVIOUS
<1>4. IsSeq(seqs) /\ Len(seqs) = Len(ips) /\ \A j \in 1..Len(ips) : seqs[j] = path(ips[j])
  <2>1. PICK S : S = {path(ips[j]) : j \in 1..Len(ips)}
    OBVIOUS
  <2>2. seqs \in Seq(S)
    BY <1>3, <2>1
  <2>3. IsSeq(seqs)
    BY <2>2 DEF IsSeq
  <2> QED BY <1>3, <2>3
<1>5. \A j \in 1..Len(seqs) : Part(kind, key, dst, seqs[j]) /\ Fresh(seqs[j])
  BY <1>1, <1>4
<1>6. Part(kind, key, dst, FlattenSeq(seqs)) /\ Fresh(FlattenSeq(seqs))
  BY <1>4, <1>5, PartFlatten
<1> QED BY <1>2, <1>3, <1>6, Zenon

\* ipset.New and Add for each address, in a sync.
LEMMA PartFillSet ==
    ASSUME NEW kind \in {"gateway", "director"}, NEW key, NEW dst, NEW s,
           s[1] = FullName[key], NEW ips, Len(ips) \in Nat
    PROVE  Part(kind, key, dst, FillSet(s, ips)) /\ Fresh(FillSet(s, ips))
<1>1. PICK adds : adds = [i \in 1..Len(ips) |-> Cmd("add", s, None, ips[i])]
  OBVIOUS
<1>2. /\ IsSeq(adds) /\ Len(adds) = Len(ips)
      /\ \A i \in 1..Len(ips) : adds[i].op = "add" /\ adds[i].set = s
  <2>1. PICK S : S = {Cmd("add", s, None, ips[i]) : i \in 1..Len(ips)}
    OBVIOUS
  <2>2. adds \in Seq(S)
    BY <1>1, <2>1
  <2>3. IsSeq(adds)
    BY <2>2 DEF IsSeq
  <2> QED BY <1>1, <2>3 DEF Cmd
<1>3. Part(kind, key, dst, adds) /\ Fresh(adds)
  BY <1>2 DEF Part, Fresh, Adjacent, Proper, Check
<1>4. Part(kind, key, dst, NewSet(s)) /\ Fresh(NewSet(s))
  BY AnyParts
<1>5. FillSet(s, ips) = NewSet(s) \o adds
  BY <1>1, Zenon DEF FillSet
<1>6. Part(kind, key, dst, NewSet(s) \o adds) /\ Fresh(NewSet(s) \o adds)
  BY <1>3, <1>4, PartConcat
<1> QED BY <1>5, <1>6, Zenon

-----------------------------------------------------------------------------
\* The commands of a call before its first one is run.
Complete(kind, key, cmds) == Whole(kind, key, cmds) /\ Fresh(cmds)

\* The call of a director.
LEMMA WholeAddRoute ==
    ASSUME NEW key, NEW s, s[1] = FullName[key], NEW ips, Len(ips) \in Nat, NEW d, NEW gw
    PROVE  Complete("director", key, AddRouteToGateway(s, ips, d, gw))
<1>1. PICK fill : fill = FillSet(s, ips)
  OBVIOUS
<1>2. PICK rules : rules = <<Cmd("mark", s, d, None), Cmd("bypass", s, d, None)>>
  OBVIOUS
<1>3. PICK link : link = EnsureTunnel(gw)
  OBVIOUS
<1>4. PICK route : route = <<Cmd("routeListAddr", None, d, None), Cmd("routeAdd", None, d, gw)>>
  OBVIOUS
<1>5. Part("director", key, d, fill) /\ Fresh(fill)
  BY <1>1, PartFillSet
<1>6. Part("director", key, d, rules) /\ Fresh(rules)
  <2>1. PICK a, b : a = Cmd("mark", s, d, None) /\ b = Cmd("bypass", s, d, None)
    OBVIOUS
  <2>2. Adjacent(a, b) /\ Proper("director", key, d, a) /\ Proper("director", key, d, b)
        /\ b.op \notin Check \union {"unmark"} /\ a.op = "mark"
    BY <2>1 DEF Adjacent, Proper, Cmd, Check, Alike
  <2>3. Part("director", key, d, <<a, b>>)
    BY <2>2, PartTwo
  <2> QED BY <1>2, <2>1, <2>2, <2>3 DEF Fresh
<1>7. Part("director", key, d, link) /\ Fresh(link)
  BY <1>3, AnyParts
<1>8. Part("director", key, d, route) /\ Fresh(route)
  BY <1>4, AnyParts
<1>9. PICK x : x = fill \o rules
  OBVIOUS
<1>10. Part("director", key, d, x) /\ Fresh(x)
  BY <1>5, <1>6, <1>9, PartConcat
<1>11. PICK y : y = x \o link
  OBVIOUS
<1>12. Part("director", key, d, y) /\ Fresh(y)
  BY <1>7, <1>10, <1>11, PartConcat
<1>13. PICK q : q = y \o route
  OBVIOUS
<1>14. Part("director", key, d, q) /\ Fresh(q)
  BY <1>8, <1>12, <1>13, PartConcat
<1>15. AddRouteToGateway(s, ips, d, gw) = q
  <2>1. AddRouteToGateway(s, ips, d, gw) = ((fill \o rules) \o link) \o route
    BY <1>1, <1>2, <1>3, <1>4, Zenon DEF AddRouteToGateway
  <2> QED BY <1>9, <1>11, <1>13, <2>1, Zenon
<1>16. Len(q) # 0 /\ RouteAhead(q, d)
  <2>1. /\ Len(q) = Len(y) + Len(route) /\ Len(y) \in Nat
        /\ \A i \in 1..Len(route) : q[Len(y) + i] = route[i]
    BY <1>8, <1>12, <1>13, Joined DEF Part
  <2>2. /\ Len(route) = 2 /\ route[1].op = "routeListAddr" /\ route[1].dst = d
        /\ route[2].op = "routeAdd" /\ route[2].dst = d
    BY <1>4 DEF Cmd
  <2>3. q[Len(y) + 1] = route[1] /\ q[Len(y) + 2] = route[2] /\ Len(q) = Len(y) + 2
    BY <2>1, <2>2
  <2>4. ASSUME NEW i \in 1..Len(q), i + 1 = Len(q)
        PROVE  i = Len(y) + 1
    BY <2>1, <2>3, <2>4
  <2> QED BY <2>1, <2>2, <2>3, <2>4 DEF RouteAhead
<1> QED BY <1>14, <1>15, <1>16 DEF Complete, Whole

\* A part of a job that is no director's is a whole call, if it is not empty.
LEMMA WholePart ==
    ASSUME NEW kind, kind # "director", NEW key, NEW dst, NEW cmds,
           Part(kind, key, dst, cmds), Len(cmds) # 0, Fresh(cmds)
    PROVE  Complete(kind, key, cmds)
  BY DEF Complete, Whole

\* The lengths of what a part is joined to.
LEMMA NotEmpty ==
    ASSUME NEW kind, NEW key, NEW dst, NEW a, Part(kind, key, dst, a),
           NEW b, Part(kind, key, dst, b), Len(a) # 0 \/ Len(b) # 0
    PROVE  Len(a \o b) # 0
  BY Joined DEF Part

\* The calls of a gateway.
LEMMA WholeAddRules ==
    ASSUME NEW key, NEW s, s[1] = FullName[key], NEW ips, Len(ips) \in Nat, NEW d, NEW e
    PROVE  /\ Complete("gateway", key, AddStaticIptablesRule(s, ips, d, e))
           /\ Complete("gateway", key, ConfigureStaticIP(e))
<1>1. PICK fill : fill = FillSet(s, ips)
  OBVIOUS
<1>2. PICK fwd : fwd = <<Cmd("forward", s, d, None)>>
  OBVIOUS
<1>3. PICK ins : ins = insertRule(s, d, e)
  OBVIOUS
<1>4. PICK ret : ret = <<Cmd("retmark", None, d, e)>>
  OBVIOUS
<1>5. Part("gateway", key, d, fill) /\ Fresh(fill)
  BY <1>1, PartFillSet
<1>6. Part("gateway", key, d, fwd) /\ Fresh(fwd)
  BY <1>2, AnyParts
<1>7. Part("gateway", key, d, ins) /\ Fresh(ins)
  <2>1. PICK a, b : a = Cmd("snatList", s, d, e) /\ b = Cmd("snat", s, d, e)
    OBVIOUS
  <2>2. Adjacent(a, b) /\ Proper("gateway", key, d, a) /\ Proper("gateway", key, d, b)
        /\ b.op \notin Check \union {"unmark"} /\ a.op = "snatList"
    BY <2>1 DEF Adjacent, Proper, Cmd, Check, Skippable, Alike
  <2>3. Part("gateway", key, d, <<a, b>>)
    BY <2>2, PartTwo
  <2> QED BY <1>3, <2>1, <2>2, <2>3 DEF Fresh, insertRule
<1>8. Part("gateway", key, d, ret) /\ Fresh(ret)
  BY <1>4, AnyParts
<1>9. PICK x : x = fill \o fwd
  OBVIOUS
<1>10. Part("gateway", key, d, x) /\ Fresh(x)
  BY <1>5, <1>6, <1>9, PartConcat
<1>11. PICK y : y = x \o ins
  OBVIOUS
<1>12. Part("gateway", key, d, y) /\ Fresh(y)
  BY <1>7, <1>10, <1>11, PartConcat
<1>13. PICK q : q = y \o ret
  OBVIOUS
<1>14. Part("gateway", key, d, q) /\ Fresh(q)
  BY <1>8, <1>12, <1>13, PartConcat
<1>15. AddStaticIptablesRule(s, ips, d, e) = q
  <2>1. AddStaticIptablesRule(s, ips, d, e) = ((fill \o fwd) \o ins) \o ret
    BY <1>1, <1>2, <1>3, <1>4, Zenon DEF AddStaticIptablesRule
  <2> QED BY <1>9, <1>11, <1>13, <2>1, Zenon
<1>16. Len(q) # 0
  <2>1. Len(ret) # 0
    BY <1>4
  <2> QED BY <1>8, <1>12, <1>13, <2>1, NotEmpty
<1>17. Complete("gateway", key, q)
  BY <1>14, <1>16, WholePart
<1>18. Complete("gateway", key, ConfigureStaticIP(e))
  <2>1. PICK c : c = <<Cmd("addrAdd", None, None, e)>>
    OBVIOUS
  <2>2. Part("gateway", key, d, c) /\ Fresh(c)
    BY <2>1, AnyParts
  <2>3. Len(c) # 0
    BY <2>1
  <2> QED BY <2>1, <2>2, <2>3, WholePart DEF ConfigureStaticIP
<1> QED BY <1>15, <1>17, <1>18

\* The calls of a cleanup.
LEMMA WholeCleanup ==
    ASSUME NEW kind \in {"demote", "promote", "delete"}, NEW key, NEW s,
           s[1] = FullName[key], NEW d, NEW e
    PROVE  /\ Complete(kind, key, ClearStaticIptablesRule(s, d, e))
           /\ Complete(kind, key, ClearStaleRouteToGateway(s, d))
           /\ Complete(kind, key, DeleteRouteToGateway(s, d))
           /\ Complete(kind, key, RemoveStaticIP(e))
<1>1. PICK new : new = NewSet(s)
  OBVIOUS
<1>2. PICK off : off = <<Cmd("unmark", s, d, None), Cmd("unbypass", s, d, None)>>
  OBVIOUS
<1>3. PICK route : route = DeleteRoute(d)
  OBVIOUS
<1>4. PICK end : end = <<Cmd("destroy", s, None, None)>>
  OBVIOUS
<1>5. PICK nat : nat = <<Cmd("unsnat", s, d, e), Cmd("unforward", s, d, None)>>
  OBVIOUS
<1>6. Part(kind, key, d, new) /\ Fresh(new) /\ Len(new) # 0
  <2>1. Part(kind, key, d, new) /\ Fresh(new)
    BY <1>1, AnyParts
  <2>2. Len(new) # 0
    BY <1>1 DEF NewSet
  <2> QED BY <2>1, <2>2
<1>7. Part(kind, key, d, off) /\ Fresh(off) /\ Len(off) # 0
  <2>1. PICK a, b : a = Cmd("unmark", s, d, None) /\ b = Cmd("unbypass", s, d, None)
    OBVIOUS
  <2>2. Adjacent(a, b) /\ Proper(kind, key, d, a) /\ Proper(kind, key, d, b)
        /\ b.op \notin Check \union {"unmark"} /\ a.op = "unmark"
    BY <2>1 DEF Adjacent, Proper, Cmd, Check, Alike
  <2>3. Part(kind, key, d, <<a, b>>)
    BY <2>2, PartTwo
  <2> QED BY <1>2, <2>1, <2>2, <2>3 DEF Fresh
<1>8. Part(kind, key, d, route) /\ Fresh(route)
  BY <1>3, AnyParts
<1>9. Part(kind, key, d, end) /\ Fresh(end)
  <2>1. PICK a : a = Cmd("destroy", s, None, None)
    OBVIOUS
  <2>2. Proper(kind, key, d, a) /\ a.op \notin Check \union {"unmark"} /\ a.op = "destroy"
    BY <2>1 DEF Proper, Cmd, Check
  <2>3. Part(kind, key, d, <<a>>)
    BY <2>2, PartOne
  <2> QED BY <1>4, <2>1, <2>2, <2>3 DEF Fresh
<1>10. Part(kind, key, d, nat) /\ Fresh(nat) /\ Len(nat) # 0
  <2>1. Part(kind, key, d, nat) /\ Fresh(nat)
    BY <1>5, AnyParts
  <2>2. Len(nat) # 0
    BY <1>5
  <2> QED BY <2>1, <2>2
<1>11. ASSUME NEW a, NEW b, Part(kind, key, d, a), Fresh(a), Len(a) # 0,
              Part(kind, key, d, b), Fresh(b)
       PROVE  Part(kind, key, d, a \o b) /\ Fresh(a \o b) /\ Len(a \o b) # 0
  BY <1>11, PartConcat, NotEmpty
<1>12. PICK clear : clear = off \o route
  OBVIOUS
<1>13. Part(kind, key, d, clear) /\ Fresh(clear) /\ Len(clear) # 0
  BY <1>7, <1>8, <1>11, <1>12
<1>14. PICK x, y : x = new \o clear /\ y = nat \o new
  OBVIOUS
<1>15. Part(kind, key, d, x) /\ Fresh(x) /\ Len(x) # 0
  BY <1>6, <1>11, <1>13, <1>14
<1>16. Part(kind, key, d, y) /\ Fresh(y) /\ Len(y) # 0
  BY <1>6, <1>10, <1>11, <1>14
<1>17. PICK u, v : u = x \o end /\ v = y \o end
  OBVIOUS
<1>18. Part(kind, key, d, u) /\ Fresh(u) /\ Len(u) # 0
  BY <1>9, <1>11, <1>15, <1>17
<1>19. Part(kind, key, d, v) /\ Fresh(v) /\ Len(v) # 0
  BY <1>9, <1>11, <1>16, <1>17
<1>20. ClearStaleRouteToGateway(s, d) = clear
  BY <1>2, <1>3, <1>12, Zenon DEF ClearStaleRouteToGateway
<1>21. DeleteRouteToGateway(s, d) = u
  BY <1>1, <1>4, <1>14, <1>17, <1>20, Zenon DEF DeleteRouteToGateway
<1>22. ClearStaticIptablesRule(s, d, e) = v
  BY <1>1, <1>4, <1>5, <1>14, <1>17, Zenon DEF ClearStaticIptablesRule
<1>23. Complete(kind, key, RemoveStaticIP(e))
  <2>1. PICK c : c = <<Cmd("addrDel", None, None, e)>>
    OBVIOUS
  <2>2. Part(kind, key, d, c) /\ Fresh(c)
    BY <2>1, AnyParts
  <2>3. Len(c) # 0
    BY <2>1
  <2> QED BY <2>1, <2>2, <2>3, WholePart DEF RemoveStaticIP
<1> QED BY <1>13, <1>18, <1>19, <1>20, <1>21, <1>22, <1>23, WholePart

-----------------------------------------------------------------------------
\* Calls none of which has begun.
AllComplete(kind, key, calls) ==
    IsSeq(calls) /\ \A i \in 1..Len(calls) : Complete(kind, key, calls[i].cmds)

\* None, one or two calls.
LEMMA FewComplete ==
    ASSUME NEW kind, NEW key
    PROVE  /\ AllComplete(kind, key, <<>>)
           /\ \A cmds, fatal : Complete(kind, key, cmds) =>
                  AllComplete(kind, key, <<Call(cmds, fatal)>>)
           /\ \A a, b, x, y : Complete(kind, key, a) /\ Complete(kind, key, b) =>
                  AllComplete(kind, key, <<Call(a, x), Call(b, y)>>)
<1>1. AllComplete(kind, key, <<>>)
  <2>1. <<>> \in Seq({}) /\ Len(<<>>) = 0
    OBVIOUS
  <2> QED BY <2>1 DEF AllComplete, IsSeq
<1>2. ASSUME NEW cmds, NEW fatal, Complete(kind, key, cmds)
      PROVE  AllComplete(kind, key, <<Call(cmds, fatal)>>)
  <2>1. PICK c, q : c = Call(cmds, fatal) /\ q = <<c>>
    OBVIOUS
  <2>2. c.cmds = cmds
    BY <2>1 DEF Call
  <2>3. q \in Seq({c}) /\ Len(q) = 1 /\ q[1] = c
    BY <2>1
  <2>4. IsSeq(q)
    BY <2>3 DEF IsSeq
  <2>5. AllComplete(kind, key, q)
    BY <1>2, <2>2, <2>3, <2>4 DEF AllComplete
  <2> QED BY <2>1, <2>5
<1>3. ASSUME NEW a, NEW b, NEW x, NEW y, Complete(kind, key, a), Complete(kind, key, b)
      PROVE  AllComplete(kind, key, <<Call(a, x), Call(b, y)>>)
  <2>1. PICK c, d, q : c = Call(a, x) /\ d = Call(b, y) /\ q = <<c, d>>
    OBVIOUS
  <2>2. c.cmds = a /\ d.cmds = b
    BY <2>1 DEF Call
  <2>3. q \in Seq({c, d}) /\ Len(q) = 2 /\ q[1] = c /\ q[2] = d
    BY <2>1
  <2>4. IsSeq(q)
    BY <2>3 DEF IsSeq
  <2>5. AllComplete(kind, key, q)
    BY <1>3, <2>2, <2>3, <2>4 DEF AllComplete
  <2> QED BY <2>1, <2>5
<1> QED BY <1>1, <1>2, <1>3

\* Calls before other calls.
LEMMA CompleteConcat ==
    ASSUME NEW kind, NEW key, NEW a, AllComplete(kind, key, a), NEW b, AllComplete(kind, key, b)
    PROVE  AllComplete(kind, key, a \o b)
<1>1. PICK q : q = a \o b
  OBVIOUS
<1>2. /\ IsSeq(q) /\ Len(a) \in Nat /\ Len(b) \in Nat
      /\ Len(q) = Len(a) + Len(b)
      /\ \A i \in 1..(Len(a) + Len(b)) : q[i] = IF i <= Len(a) THEN a[i] ELSE b[i - Len(a)]
  BY <1>1, Joined DEF AllComplete
<1>3. ASSUME NEW i \in 1..Len(q) PROVE Complete(kind, key, q[i].cmds)
  <2>1. CASE i <= Len(a)
    BY <1>2, <2>1 DEF AllComplete
  <2>2. CASE i > Len(a)
    <3>1. PICK x : x = i - Len(a)
      OBVIOUS
    <3>2. x \in 1..Len(b) /\ q[i] = b[x]
      BY <1>2, <2>2, <3>1
    <3> QED BY <3>2 DEF AllComplete
  <2> QED BY <1>2, <2>1, <2>2
<1> QED BY <1>1, <1>2, <1>3 DEF AllComplete

\* The calls of doGatewyProcessing.
LEMMA GatewayCalls ==
    ASSUME NEW key, NEW s, s[1] = FullName[key], NEW self, NEW r, NEW ips, Len(ips) \in Nat,
           NEW lost
    PROVE  AllComplete("gateway", key, doGatewyProcessing(self, s, r, ips, lost))
<1>1. PICK paths : paths = ReturnPaths(self, ips, lost)
  OBVIOUS
<1>2. PICK first : first = IF paths = <<>> THEN <<>> ELSE <<Call(paths, TRUE)>>
  OBVIOUS
<1>3. PICK rest : rest = <<Call(AddStaticIptablesRule(s, ips, r.dst, r.eip), FALSE),
                           Call(ConfigureStaticIP(r.eip), FALSE)>>
  OBVIOUS
<1>4. doGatewyProcessing(self, s, r, ips, lost) = first \o rest
  BY <1>1, <1>2, <1>3, Zenon DEF doGatewyProcessing
<1>5. AllComplete("gateway", key, first)
  <2>1. CASE paths = <<>>
    BY <1>2, <2>1, FewComplete
  <2>2. CASE paths # <<>>
    <3>1. Part("gateway", key, None, paths) /\ Fresh(paths)
      BY <1>1, PartReturnPaths
    <3>2. Len(paths) # 0
      BY <2>2, <3>1 DEF Part, IsSeq
    <3>3. Complete("gateway", key, paths)
      BY <3>1, <3>2, WholePart
    <3> QED BY <1>2, <2>2, <3>3, FewComplete
  <2> QED BY <2>1, <2>2
<1>6. AllComplete("gateway", key, rest)
  BY <1>3, WholeAddRules, FewComplete
<1> QED BY <1>4, <1>5, <1>6, CompleteConcat

\* The calls of a rule, whatever the job and its endpoints.
LEMMA RuleCallsComplete ==
    ASSUME NEW self, NEW job, NEW ips, Len(ips) \in Nat, NEW lost
    PROVE  AllComplete(job.kind, job.key, RuleCalls(self, job, ips, lost))
<1>1. PICK r, s : r = job.obj.rules[job.rule] /\ s = generateRuleId(job.key, job.rule)
  OBVIOUS
<1>2. s[1] = FullName[job.key]
  BY <1>1 DEF generateRuleId
<1>3. CASE job.kind = "gateway"
  <2>1. RuleCalls(self, job, ips, lost) = doGatewyProcessing(self, s, r, ips, lost)
    BY <1>1, <1>3, Zenon DEF RuleCalls
  <2> QED BY <1>2, <1>3, <2>1, GatewayCalls
<1>4. CASE job.kind = "director"
  <2>1. RuleCalls(self, job, ips, lost) = doDirectorProcessing(s, r, ips, job.obj.gw)
    BY <1>1, <1>4 DEF RuleCalls
  <2>2. Complete("director", job.key, AddRouteToGateway(s, ips, r.dst, job.obj.gw))
    BY <1>2, WholeAddRoute
  <2> QED BY <1>4, <2>1, <2>2, FewComplete DEF doDirectorProcessing
<1>5. ASSUME job.kind \in {"demote", "promote", "delete"}
      PROVE  /\ Complete(job.kind, job.key, ClearStaticIptablesRule(s, r.dst, r.eip))
             /\ Complete(job.kind, job.key, ClearStaleRouteToGateway(s, r.dst))
             /\ Complete(job.kind, job.key, DeleteRouteToGateway(s, r.dst))
             /\ Complete(job.kind, job.key, RemoveStaticIP(r.eip))
  BY <1>2, <1>5, WholeCleanup
<1>6. CASE job.kind = "demote"
  <2>1. RuleCalls(self, job, ips, lost) = ClearGateway(s, r)
    BY <1>1, <1>6 DEF RuleCalls
  <2> QED BY <1>5, <1>6, <2>1, FewComplete DEF ClearGateway
<1>7. CASE job.kind = "promote"
  <2>1. RuleCalls(self, job, ips, lost) = ClearDirector(s, r)
    BY <1>1, <1>7 DEF RuleCalls
  <2> QED BY <1>5, <1>7, <2>1, FewComplete DEF ClearDirector
<1>8. CASE job.kind = "delete"
  <2>1. RuleCalls(self, job, ips, lost) = DeleteRule(s, r)
    BY <1>1, <1>8 DEF RuleCalls
  <2> QED BY <1>5, <1>8, <2>1, FewComplete DEF DeleteRule
<1>9. CASE job.kind \notin {"gateway", "director", "demote", "promote", "delete"}
  <2>1. RuleCalls(self, job, ips, lost) = <<>>
    BY <1>9 DEF RuleCalls
  <2> QED BY <2>1, FewComplete
<1> QED BY <1>3, <1>4, <1>6, <1>7, <1>8, <1>9

\* They are what a job may have left.
LEMMA RuleCallsOK ==
    ASSUME NEW self, NEW job, NEW ips, Len(ips) \in Nat, NEW lost
    PROVE  CallsOK(job.kind, job.key, RuleCalls(self, job, ips, lost))
<1>1. PICK calls : calls = RuleCalls(self, job, ips, lost)
  OBVIOUS
<1>2. AllComplete(job.kind, job.key, calls)
  BY <1>1, RuleCallsComplete
<1>3. Len(calls) \in Nat
  BY <1>2 DEF AllComplete, IsSeq
<1>4. CallsOK(job.kind, job.key, calls)
  BY <1>2, <1>3 DEF AllComplete, Complete, CallsOK
<1> QED BY <1>1, <1>4

-----------------------------------------------------------------------------
\* The next command of a job.
First(calls) == Head(Head(calls).cmds)

\* The first command of a rule needs none before it.
LEMMA RuleCallsFresh ==
    ASSUME NEW self, NEW job, NEW ips, Len(ips) \in Nat, NEW lost,
           NEW calls, calls = RuleCalls(self, job, ips, lost), calls # <<>>
    PROVE  First(calls).op \notin {"snat", "bypass"}
<1>1. AllComplete(job.kind, job.key, calls)
  BY RuleCallsComplete
<1>2. PICK S : calls \in Seq(S)
  BY <1>1 DEF AllComplete, IsSeq
<1>3. 1 \in 1..Len(calls) /\ Head(calls) = calls[1]
  BY <1>2
<1>4. Complete(job.kind, job.key, calls[1].cmds)
  BY <1>1, <1>3 DEF AllComplete
<1>5. PICK cmds : cmds = Head(calls).cmds
  OBVIOUS
<1>6. PICK T : cmds \in Seq(T)
  BY <1>3, <1>4, <1>5 DEF Complete, Whole, Part, IsSeq
<1>7. Len(cmds) # 0 /\ Fresh(cmds)
  BY <1>3, <1>4, <1>5 DEF Complete, Whole
<1>8. Head(cmds) = cmds[1]
  BY <1>6, <1>7
<1> QED BY <1>5, <1>7, <1>8 DEF First, Fresh

\* What is left of a call after n of its commands.
LEMMA Suffix ==
    ASSUME NEW cmds, IsSeq(cmds), NEW n \in Nat, n < Len(cmds), NEW q,
           q = SubSeq(cmds, n + 1, Len(cmds))
    PROVE  /\ IsSeq(q) /\ Len(q) = Len(cmds) - n /\ Len(cmds) \in Nat
           /\ \A i \in 1..Len(q) : i + n \in 1..Len(cmds) /\ q[i] = cmds[i + n]
<1>1. PICK S : cmds \in Seq(S)
  BY DEF IsSeq
<1>2. /\ q \in Seq(S) /\ Len(q) = Len(cmds) - n /\ Len(cmds) \in Nat
      /\ \A i \in 1..Len(q) : q[i] = cmds[i + n]
  BY <1>1
<1>3. IsSeq(q)
  BY <1>2 DEF IsSeq
<1> QED BY <1>2, <1>3

\* It still ends with the route.
LEMMA RouteAheadSuffix ==
    ASSUME NEW cmds, IsSeq(cmds), NEW n \in Nat, n < Len(cmds), NEW dst,
           RouteAhead(cmds, dst)
    PROVE  RouteAhead(SubSeq(cmds, n + 1, Len(cmds)), dst)
<1> SUFFICES ASSUME NEW q, q = SubSeq(cmds, n + 1, Len(cmds)) PROVE RouteAhead(q, dst)
  OBVIOUS
<1>1. /\ Len(q) = Len(cmds) - n /\ Len(cmds) \in Nat
      /\ \A i \in 1..Len(q) : i + n \in 1..Len(cmds) /\ q[i] = cmds[i + n]
  BY Suffix
<1>2. q[Len(q)] = cmds[Len(cmds)]
  <2>1. Len(q) \in 1..Len(q) /\ Len(q) + n = Len(cmds)
    BY <1>1
  <2>2. q[Len(q)] = cmds[Len(q) + n]
    BY <1>1, <2>1
  <2> QED BY <2>1, <2>2
<1>3. ASSUME NEW i \in 1..Len(q), i + 1 = Len(q)
      PROVE  q[i].op = "routeListAddr" /\ q[i].dst = dst
  <2>1. PICK x : x = i + n
    OBVIOUS
  <2>2. x \in 1..Len(cmds) /\ x + 1 = Len(cmds) /\ q[i] = cmds[x]
    BY <1>1, <1>3, <2>1
  <2> QED BY <2>2 DEF RouteAhead
<1> QED BY <1>2, <1>3 DEF RouteAhead

\* What is left of a whole call may be left of one.
LEMMA WholeSuffix ==
    ASSUME NEW kind, NEW key, NEW cmds, Whole(kind, key, cmds), NEW n \in Nat, n < Len(cmds),
           NEW q, q = SubSeq(cmds, n + 1, Len(cmds))
    PROVE  Whole(kind, key, q)
<1>1. PICK dst : /\ Part(kind, key, dst, cmds) /\ Len(cmds) # 0
                 /\ kind = "director" => RouteAhead(cmds, dst)
  BY DEF Whole
<1>2. IsSeq(cmds)
  BY <1>1 DEF Part
<1>3. /\ IsSeq(q) /\ Len(q) = Len(cmds) - n /\ Len(cmds) \in Nat
      /\ \A i \in 1..Len(q) : i + n \in 1..Len(cmds) /\ q[i] = cmds[i + n]
  BY <1>2, Suffix
<1>4. ASSUME NEW i \in 1..Len(q), NEW j \in 1..Len(q), j = i + 1
      PROVE  Adjacent(q[i], q[j])
  <2>1. PICK x, y : x = i + n /\ y = j + n
    OBVIOUS
  <2>2. x \in 1..Len(cmds) /\ y \in 1..Len(cmds) /\ y = x + 1
    BY <1>3, <1>4, <2>1
  <2>3. q[i] = cmds[x] /\ q[j] = cmds[y]
    BY <1>3, <2>1
  <2> QED BY <1>1, <2>2, <2>3 DEF Part
<1>5. \A i \in 1..Len(q) : Proper(kind, key, dst, q[i])
  BY <1>1, <1>3 DEF Part
<1>6. q[Len(q)] = cmds[Len(cmds)] /\ Len(q) # 0
  <2>1. Len(q) \in 1..Len(q) /\ Len(q) + n = Len(cmds) /\ Len(q) # 0
    BY <1>3
  <2>2. q[Len(q)] = cmds[Len(q) + n]
    BY <1>3, <2>1
  <2> QED BY <2>1, <2>2
<1>7. Part(kind, key, dst, q)
  BY <1>1, <1>3, <1>4, <1>5, <1>6 DEF Part
<1>8. kind = "director" => RouteAhead(q, dst)
  BY <1>1, <1>2, RouteAheadSuffix
<1> QED BY <1>6, <1>7, <1>8 DEF Whole

\* The first call of a job, and the others.
LEMMA Begun ==
    ASSUME NEW kind, NEW key, NEW calls, CallsOK(kind, key, calls), calls # <<>>
    PROVE  /\ Whole(kind, key, Head(calls).cmds)
           /\ Len(Head(calls).cmds) \in Nat \ {0}
           /\ First(calls) = Head(calls).cmds[1]
           /\ \E dst : Proper(kind, key, dst, First(calls))
           /\ CallsOK(kind, key, Tail(calls))
           /\ Tail(calls) # <<>> => First(Tail(calls)).op \notin {"snat", "bypass"}
<1>1. PICK S : calls \in Seq(S)
  BY DEF CallsOK, IsSeq
<1>2. /\ Len(calls) \in Nat \ {0} /\ Head(calls) = calls[1]
      /\ Tail(calls) \in Seq(S) /\ Len(Tail(calls)) = Len(calls) - 1
      /\ \A i \in 1..Len(Tail(calls)) : Tail(calls)[i] = calls[i + 1]
  BY <1>1
<1>3. ASSUME NEW cmds, Whole(kind, key, cmds)
      PROVE  /\ IsSeq(cmds) /\ Len(cmds) \in Nat \ {0} /\ Head(cmds) = cmds[1]
             /\ \E dst : Proper(kind, key, dst, cmds[1])
  <2>1. PICK dst : Part(kind, key, dst, cmds) /\ Len(cmds) # 0
    BY <1>3 DEF Whole
  <2>2. IsSeq(cmds)
    BY <2>1 DEF Part
  <2>3. Len(cmds) \in Nat \ {0} /\ Head(cmds) = cmds[1]
    BY <2>1, <2>2 DEF IsSeq
  <2> QED BY <2>1, <2>2, <2>3 DEF Part
<1>4. Whole(kind, key, Head(calls).cmds)
  BY <1>2 DEF CallsOK
<1>5. PICK rest : rest = Tail(calls)
  OBVIOUS
<1>6. ASSUME NEW i \in 1..Len(rest)
      PROVE  /\ Whole(kind, key, rest[i].cmds) /\ Fresh(rest[i].cmds)
  <2>1. PICK j : j = i + 1
    OBVIOUS
  <2>2. j \in 2..Len(calls) /\ j \in 1..Len(calls) /\ rest[i] = calls[j]
    BY <1>2, <1>5, <2>1
  <2> QED BY <2>2 DEF CallsOK
<1>7. CallsOK(kind, key, rest)
  <2>1. IsSeq(rest) /\ Len(rest) \in Nat
    BY <1>2, <1>5 DEF IsSeq
  <2> QED BY <1>6, <2>1 DEF CallsOK
<1>8. ASSUME rest # <<>>
      PROVE  First(rest).op \notin {"snat", "bypass"}
  <2>1. 1 \in 1..Len(rest) /\ Head(rest) = rest[1]
    BY <1>2, <1>5, <1>8
  <2>2. Whole(kind, key, rest[1].cmds) /\ Fresh(rest[1].cmds)
    BY <1>6, <2>1
  <2>3. Len(rest[1].cmds) \in Nat \ {0} /\ Head(rest[1].cmds) = rest[1].cmds[1]
    BY <1>3, <2>2
  <2> QED BY <2>1, <2>2, <2>3 DEF First, Fresh
<1> QED BY <1>3, <1>4, <1>5, <1>7, <1>8 DEF First

\* The first command after n of them.
LEMMA SuffixHead ==
    ASSUME NEW cmds, IsSeq(cmds), NEW n \in Nat, n < Len(cmds)
    PROVE  Head(SubSeq(cmds, n + 1, Len(cmds))) = cmds[n + 1]
<1>1. PICK q : q = SubSeq(cmds, n + 1, Len(cmds))
  OBVIOUS
<1>2. /\ IsSeq(q) /\ Len(q) = Len(cmds) - n /\ Len(cmds) \in Nat
      /\ \A i \in 1..Len(q) : i + n \in 1..Len(cmds) /\ q[i] = cmds[i + n]
  BY <1>1, Suffix
<1>3. 1 \in 1..Len(q) /\ 1 + n = n + 1
  BY <1>2
<1>4. q[1] = cmds[1 + n]
  BY <1>2, <1>3
<1>5. Head(q) = q[1]
  BY <1>2, <1>3 DEF IsSeq
<1> QED BY <1>1, <1>3, <1>4, <1>5

\* What is left of the calls after n commands.
LEMMA RestShape ==
    ASSUME NEW kind, NEW key, NEW calls, CallsOK(kind, key, calls), calls # <<>>,
           NEW n \in Nat, NEW cmds, cmds = Head(calls).cmds, NEW rest, rest = Rest(calls, n)
    PROVE  /\ CallsOK(kind, key, rest)
           /\ Len(cmds) <= n => rest = Tail(calls)
           /\ Len(cmds) > n => /\ rest # <<>> /\ Tail(rest) = Tail(calls)
                               /\ Head(rest).cmds = SubSeq(cmds, n + 1, Len(cmds))
                               /\ First(rest) = cmds[n + 1]
<1>1. /\ Whole(kind, key, cmds) /\ Len(cmds) \in Nat \ {0}
      /\ CallsOK(kind, key, Tail(calls))
  BY Begun
<1>2. CASE Len(cmds) <= n
  <2>1. rest = Tail(calls)
    BY <1>2 DEF Rest
  <2> QED BY <1>1, <1>2, <2>1
<1>3. CASE Len(cmds) > n
  <2>1. PICK q, c, t : /\ q = SubSeq(cmds, n + 1, Len(cmds))
                       /\ c = Call(q, Head(calls).fatal) /\ t = Tail(calls)
    OBVIOUS
  <2>2. rest = <<c>> \o t
    <3>1. ~(Len(cmds) <= n)
      BY <1>1, <1>3
    <3> QED BY <2>1, <3>1, Zenon DEF Rest
  <2>3. c.cmds = q
    BY <2>1 DEF Call
  <2>4. Whole(kind, key, q)
    BY <1>1, <1>3, <2>1, WholeSuffix
  <2>5. /\ IsSeq(t) /\ Len(t) \in Nat
        /\ \A i \in 1..Len(t) : Whole(kind, key, t[i].cmds)
        /\ \A i \in 1..Len(t) : Fresh(t[i].cmds)
    <3>1. PICK S : calls \in Seq(S)
      BY DEF CallsOK, IsSeq
    <3>2. /\ Len(calls) \in Nat \ {0} /\ Len(t) = Len(calls) - 1
          /\ \A i \in 1..Len(t) : t[i] = calls[i + 1]
      BY <2>1, <3>1
    <3>3. ASSUME NEW i \in 1..Len(t) PROVE Fresh(t[i].cmds)
      <4>1. PICK j : j = i + 1
        OBVIOUS
      <4>2. j \in 2..Len(calls) /\ t[i] = calls[j]
        BY <3>2, <4>1
      <4> QED BY <4>2 DEF CallsOK
    <3>4. IsSeq(t) /\ \A i \in 1..Len(t) : Whole(kind, key, t[i].cmds)
      BY <1>1, <2>1 DEF CallsOK
    <3>5. Len(t) \in Nat
      BY <3>2
    <3> QED BY <3>3, <3>4, <3>5
  <2>6. PICK T : t \in Seq(T)
    BY <2>5 DEF IsSeq
  <2>7. PICK U : U = T \union {c}
    OBVIOUS
  <2>8. <<c>> \in Seq(U) /\ t \in Seq(U)
    BY <2>6, <2>7
  <2>9. /\ rest \in Seq(U) /\ Len(rest) = Len(t) + 1 /\ rest[1] = c /\ Head(rest) = c
        /\ Tail(rest) = t /\ rest # <<>>
        /\ \A i \in 2..Len(rest) : rest[i] = t[i - 1]
    BY <2>2, <2>5, <2>8
  <2>10. ASSUME NEW i \in 2..Len(rest)
         PROVE  Whole(kind, key, rest[i].cmds) /\ Fresh(rest[i].cmds)
    <3>1. PICK j : j = i - 1
      OBVIOUS
    <3>2. j \in 1..Len(t) /\ rest[i] = t[j]
      BY <2>5, <2>9, <3>1
    <3> QED BY <2>5, <3>2
  <2>11. CallsOK(kind, key, rest)
    <3>1. IsSeq(rest)
      BY <2>9 DEF IsSeq
    <3>2. ASSUME NEW i \in 1..Len(rest) PROVE Whole(kind, key, rest[i].cmds)
      <4>1. i = 1 \/ i \in 2..Len(rest)
        BY <2>5, <2>9
      <4> QED BY <2>3, <2>4, <2>9, <2>10, <4>1
    <3> QED BY <2>10, <3>1, <3>2 DEF CallsOK
  <2>12. Head(q) = cmds[n + 1]
    <3>1. IsSeq(cmds)
      BY <1>1 DEF Whole, Part
    <3>2. n < Len(cmds)
      BY <1>1, <1>3
    <3> QED BY <2>1, <3>1, <3>2, SuffixHead
  <2>13. First(rest) = cmds[n + 1] /\ Head(rest).cmds = SubSeq(cmds, n + 1, Len(cmds))
    BY <2>1, <2>3, <2>9, <2>12 DEF First
  <2>14. ~(Len(cmds) <= n)
    BY <1>1, <1>3
  <2> QED BY <2>1, <2>9, <2>11, <2>13, <2>14
<1> QED BY <1>1, <1>2, <1>3

\* Which command comes after which.
LEMMA NextCommand ==
    ASSUME NEW kind, NEW key, NEW calls, CallsOK(kind, key, calls), calls # <<>>,
           NEW n \in {1, 2}, n = 2 => First(calls).op \in Check,
           NEW rest, rest = Rest(calls, n), NEW c, c = First(calls), NEW d, d = First(rest)
    PROVE  /\ rest # <<>> /\ d.op = "snat" =>
                  n = 1 /\ c.op = "snatList" /\ Alike(c, d) /\ c.to = d.to
           /\ rest # <<>> /\ d.op = "bypass" => c.op = "mark" /\ Alike(c, d)
           /\ c.op = "unmark" => rest # <<>> /\ d.op = "unbypass" /\ Alike(c, d)
<1>1. PICK cmds : cmds = Head(calls).cmds
  OBVIOUS
<1>2. /\ Whole(kind, key, cmds) /\ Len(cmds) \in Nat \ {0} /\ c = cmds[1]
      /\ Tail(calls) # <<>> => First(Tail(calls)).op \notin {"snat", "bypass"}
  BY <1>1, Begun
<1>3. PICK dst : Part(kind, key, dst, cmds)
  BY <1>2 DEF Whole
<1>4. /\ Len(cmds) <= n => rest = Tail(calls)
      /\ Len(cmds) > n => rest # <<>> /\ d = cmds[n + 1]
  BY <1>1, RestShape
<1>5. \A i \in 1..Len(cmds) : \A j \in 1..Len(cmds) : j = i + 1 => Adjacent(cmds[i], cmds[j])
  BY <1>3 DEF Part
<1>6. Len(cmds) = 1 => c.op \notin Check \union {"unmark"}
  BY <1>2, <1>3 DEF Part
<1>7. Len(cmds) > 1 => Adjacent(c, cmds[2])
  BY <1>2, <1>5
<1>8. Len(cmds) > 2 => Adjacent(cmds[2], cmds[3])
  BY <1>2, <1>5
<1>9. c.op = "unmark" => n = 1 /\ Len(cmds) > 1
  <2> SUFFICES ASSUME c.op = "unmark" PROVE n = 1 /\ Len(cmds) > 1
    OBVIOUS
  <2>1. c.op \notin Check
    BY DEF Check
  <2>2. n = 1
    BY <2>1
  <2>3. PICK m : m = Len(cmds)
    OBVIOUS
  <2>4. m \in Nat \ {0} /\ m # 1
    BY <1>2, <1>6, <2>3
  <2>5. m > 1
    BY <2>4
  <2> QED BY <2>2, <2>3, <2>5, Zenon
<1>10. CASE Len(cmds) <= n
  <2>1. rest = Tail(calls)
    BY <1>4, <1>10
  <2>2. rest # <<>> => d.op \notin {"snat", "bypass"}
    BY <1>2, <2>1
  <2>3. c.op # "unmark"
    BY <1>2, <1>9, <1>10
  <2>4. ~(rest # <<>> /\ d.op = "snat") /\ ~(rest # <<>> /\ d.op = "bypass")
    BY <2>2
  <2> QED BY <2>3, <2>4, Zenon
<1>11. CASE Len(cmds) > n /\ n = 1
  BY <1>4, <1>7, <1>11 DEF Adjacent
<1>12. CASE Len(cmds) > n /\ n = 2
  BY <1>2, <1>4, <1>7, <1>8, <1>9, <1>12 DEF Adjacent, Check, Skippable
<1> QED BY <1>2, <1>10, <1>11, <1>12

-----------------------------------------------------------------------------
\* The commands of DeleteRouteToGateway.
DeleteSteps(s, d) ==
    <<Cmd("create", s, None, None), Cmd("flush", s, None, None),
      Cmd("unmark", s, d, None), Cmd("unbypass", s, d, None),
      Cmd("routeList", None, d, None), Cmd("routeDeleteVia", None, d, None),
      Cmd("destroy", s, None, None)>>

\* The last ones of them.
LastSteps(cmds, s, d) ==
    /\ IsSeq(cmds) /\ Len(cmds) \in Nat \ {0} /\ Len(cmds) <= 7
    /\ \A i \in 1..Len(cmds) : cmds[i] = DeleteSteps(s, d)[i + (7 - Len(cmds))]

\* They are all that is left of a job for one rule.
DeleteLeft(calls, s, d) ==
    calls # <<>> /\ Tail(calls) = <<>> /\ LastSteps(Head(calls).cmds, s, d)

\* The commands, one by one.
LEMMA DeleteStep ==
    ASSUME NEW s, NEW d
    PROVE  /\ DeleteSteps(s, d)[1] = Cmd("create", s, None, None)
           /\ DeleteSteps(s, d)[2] = Cmd("flush", s, None, None)
           /\ DeleteSteps(s, d)[3] = Cmd("unmark", s, d, None)
           /\ DeleteSteps(s, d)[4] = Cmd("unbypass", s, d, None)
           /\ DeleteSteps(s, d)[5] = Cmd("routeList", None, d, None)
           /\ DeleteSteps(s, d)[6] = Cmd("routeDeleteVia", None, d, None)
           /\ DeleteSteps(s, d)[7] = Cmd("destroy", s, None, None)
  BY DEF DeleteSteps

\* The calls of a deletion.
LEMMA DeleteBegins ==
    ASSUME NEW s, NEW r
    PROVE  /\ DeleteLeft(DeleteRule(s, r), s, r.dst)
           /\ Len(Head(DeleteRule(s, r)).cmds) = 7
<1>1. PICK d : d = r.dst
  OBVIOUS
<1>2. PICK q : q = DeleteRouteToGateway(s, d)
  OBVIOUS
<1>3. PICK a, b, e, f : /\ a = <<Cmd("create", s, None, None), Cmd("flush", s, None, None)>>
                        /\ b = <<Cmd("unmark", s, d, None), Cmd("unbypass", s, d, None)>>
                        /\ e = <<Cmd("routeList", None, d, None),
                                 Cmd("routeDeleteVia", None, d, None)>>
                        /\ f = <<Cmd("destroy", s, None, None)>>
  OBVIOUS
<1>4. q = (a \o (b \o e)) \o f
  BY <1>2, <1>3, Zenon
      DEF DeleteRouteToGateway, ClearStaleRouteToGateway, DeleteRoute, NewSet
<1>5. IsSeq(q) /\ Len(q) = 7 /\ \A i \in 1..7 : q[i] = DeleteSteps(s, d)[i]
  <2>1. PICK S : S = {Cmd("create", s, None, None), Cmd("flush", s, None, None),
                      Cmd("unmark", s, d, None), Cmd("unbypass", s, d, None),
                      Cmd("routeList", None, d, None), Cmd("routeDeleteVia", None, d, None),
                      Cmd("destroy", s, None, None)}
    OBVIOUS
  <2>2. /\ a \in Seq(S) /\ Len(a) = 2
        /\ a[1] = Cmd("create", s, None, None) /\ a[2] = Cmd("flush", s, None, None)
    BY <1>3, <2>1
  <2>3. /\ b \in Seq(S) /\ Len(b) = 2
        /\ b[1] = Cmd("unmark", s, d, None) /\ b[2] = Cmd("unbypass", s, d, None)
    BY <1>3, <2>1
  <2>4. /\ e \in Seq(S) /\ Len(e) = 2
        /\ e[1] = Cmd("routeList", None, d, None) /\ e[2] = Cmd("routeDeleteVia", None, d, None)
    BY <1>3, <2>1
  <2>5. f \in Seq(S) /\ Len(f) = 1 /\ f[1] = Cmd("destroy", s, None, None)
    BY <1>3, <2>1
  <2>6. PICK u, v : u = b \o e /\ v = a \o u
    OBVIOUS
  <2>7. u \in Seq(S) /\ v \in Seq(S) /\ q \in Seq(S)
    BY <1>4, <2>2, <2>3, <2>4, <2>5, <2>6
  <2>8. \A x \in Seq(S) : IsSeq(x)
    BY DEF IsSeq
  <2>9. /\ Len(u) = Len(b) + Len(e)
        /\ \A i \in 1..(Len(b) + Len(e)) : u[i] = IF i <= Len(b) THEN b[i] ELSE e[i - Len(b)]
    BY <2>3, <2>4, <2>6, <2>8, Joined
  <2>10. /\ Len(v) = Len(a) + Len(u)
         /\ \A i \in 1..(Len(a) + Len(u)) : v[i] = IF i <= Len(a) THEN a[i] ELSE u[i - Len(a)]
    <3>1. IsSeq(a) /\ IsSeq(u)
      BY <2>2, <2>7, <2>8
    <3>2. /\ Len(a \o u) = Len(a) + Len(u)
          /\ \A i \in 1..(Len(a) + Len(u)) :
                 (a \o u)[i] = IF i <= Len(a) THEN a[i] ELSE u[i - Len(a)]
      BY <3>1, Joined
    <3> QED BY <2>6, <3>2
  <2>11. q = v \o f
    BY <1>4, <2>6, Zenon
  <2>12. /\ Len(q) = Len(v) + Len(f)
         /\ \A i \in 1..(Len(v) + Len(f)) : q[i] = IF i <= Len(v) THEN v[i] ELSE f[i - Len(v)]
    BY <2>5, <2>7, <2>8, <2>11, Joined
  <2>13. Len(u) = 4 /\ Len(v) = 6 /\ Len(q) = 7
    BY <2>2, <2>3, <2>4, <2>5, <2>9, <2>10, <2>12
  <2>14. u[1] = b[1] /\ u[2] = b[2] /\ u[3] = e[1] /\ u[4] = e[2]
    BY <2>3, <2>4, <2>9
  <2>15. /\ v[1] = a[1] /\ v[2] = a[2] /\ v[3] = u[1] /\ v[4] = u[2]
         /\ v[5] = u[3] /\ v[6] = u[4]
    BY <2>2, <2>10, <2>13
  <2>16. /\ q[1] = v[1] /\ q[2] = v[2] /\ q[3] = v[3] /\ q[4] = v[4]
         /\ q[5] = v[5] /\ q[6] = v[6] /\ q[7] = f[1]
    BY <2>5, <2>12, <2>13
  <2>17. \A i \in 1..7 : q[i] = DeleteSteps(s, d)[i]
    BY <2>2, <2>3, <2>4, <2>5, <2>14, <2>15, <2>16, DeleteStep
  <2>18. IsSeq(q)
    BY <2>7, <2>8
  <2> QED BY <2>13, <2>17, <2>18
<1>6. PICK c, calls : c = Call(q, FALSE) /\ calls = <<c>>
  OBVIOUS
<1>7. c.cmds = q
  BY <1>6 DEF Call
<1>8. calls # <<>> /\ Tail(calls) = <<>> /\ Head(calls) = c
  BY <1>6
<1>9. DeleteRule(s, r) = calls
  BY <1>1, <1>2, <1>6 DEF DeleteRule
<1>10. \A i \in 1..7 : i + (7 - 7) = i
  OBVIOUS
<1>11. \A i \in 1..7 : q[i] = DeleteSteps(s, d)[i + (7 - 7)]
  BY <1>5, <1>10
<1>12. LastSteps(q, s, d)
  BY <1>5, <1>11 DEF LastSteps
<1> QED BY <1>1, <1>5, <1>7, <1>8, <1>9, <1>12 DEF DeleteLeft

\* The last ones of the last steps.
LEMMA LastOfLast ==
    ASSUME NEW s, NEW d, NEW cmds, LastSteps(cmds, s, d), NEW n \in Nat, n < Len(cmds)
    PROVE  /\ LastSteps(SubSeq(cmds, n + 1, Len(cmds)), s, d)
           /\ Len(SubSeq(cmds, n + 1, Len(cmds))) = Len(cmds) - n
<1> SUFFICES ASSUME NEW q, q = SubSeq(cmds, n + 1, Len(cmds))
             PROVE  LastSteps(q, s, d) /\ Len(q) = Len(cmds) - n
  OBVIOUS
<1>1. IsSeq(cmds)
  BY DEF LastSteps
<1>2. /\ IsSeq(q) /\ Len(q) = Len(cmds) - n /\ Len(cmds) \in Nat
      /\ \A i \in 1..Len(q) : i + n \in 1..Len(cmds) /\ q[i] = cmds[i + n]
  BY <1>1, Suffix
<1>3. ASSUME NEW i \in 1..Len(q)
      PROVE  q[i] = DeleteSteps(s, d)[i + (7 - Len(q))]
  <2>1. PICK x : x = i + n
    OBVIOUS
  <2>2. x \in 1..Len(cmds) /\ q[i] = cmds[x] /\ x + (7 - Len(cmds)) = i + (7 - Len(q))
    BY <1>2, <2>1
  <2> QED BY <2>2 DEF LastSteps
<1>4. Len(q) \in Nat \ {0} /\ Len(q) <= 7
  BY <1>2 DEF LastSteps
<1> QED BY <1>2, <1>3, <1>4 DEF LastSteps

\* What is left after a command, and one that is skipped.
LEMMA DeleteRest ==
    ASSUME NEW kind, NEW key, NEW calls, CallsOK(kind, key, calls), NEW s, NEW d,
           DeleteLeft(calls, s, d), NEW n \in Nat, NEW rest, rest = Rest(calls, n)
    PROVE  \/ Len(Head(calls).cmds) <= n /\ rest = <<>>
           \/ /\ DeleteLeft(rest, s, d)
              /\ Len(Head(rest).cmds) = Len(Head(calls).cmds) - n
<1>1. PICK cmds : cmds = Head(calls).cmds
  OBVIOUS
<1>2. calls # <<>> /\ Tail(calls) = <<>> /\ LastSteps(cmds, s, d) /\ Len(cmds) \in Nat
  BY <1>1 DEF DeleteLeft, LastSteps
<1>3. /\ Len(cmds) <= n => rest = Tail(calls)
      /\ Len(cmds) > n => /\ rest # <<>> /\ Tail(rest) = Tail(calls)
                          /\ Head(rest).cmds = SubSeq(cmds, n + 1, Len(cmds))
  BY <1>1, <1>2, RestShape
<1>4. CASE Len(cmds) <= n
  BY <1>1, <1>2, <1>3, <1>4
<1>5. CASE Len(cmds) > n
  <2>1. PICK q : q = Head(rest).cmds
    OBVIOUS
  <2>2. n < Len(cmds) /\ q = SubSeq(cmds, n + 1, Len(cmds))
    BY <1>2, <1>3, <1>5, <2>1
  <2>3. LastSteps(q, s, d) /\ Len(q) = Len(cmds) - n
    <3>1. LastSteps(cmds, s, d)
      BY <1>2
    <3> QED BY <2>2, <3>1, LastOfLast
  <2> QED BY <1>1, <1>2, <1>3, <1>5, <2>1, <2>3 DEF DeleteLeft
<1> QED BY <1>2, <1>4, <1>5
=============================================================================
