--------------------------- MODULE EgressJobProofs ---------------------------
(***************************************************************************)
(* What the jobs of EgressCluster do to a node's configuration: facts      *)
(* about sequences of commands and of calls, by induction on their length. *)
(* Every command keeps what Wired says, whoever runs it and when; and from *)
(* any configuration of which that holds, the calls whose errors are       *)
(* returned run to their end.                                              *)
(***************************************************************************)
EXTENDS EgressCluster, RuleProcessingProofs

\* The states a sequence of commands goes through, from f[0] to f[Len(cmds)].
Trace(f, acc, cmds) ==
    f[0] = acc /\ \A i \in 1..Len(cmds) : f[i] = ExecCmd(f[i - 1], cmds[i])

\* RunCmds is well defined: it is the last of those states.
LEMMA RunCmdsTrace ==
    ASSUME NEW acc, NEW cmds, Len(cmds) \in Nat
    PROVE  \E f : Trace(f, acc, cmds) /\ RunCmds(acc, cmds) = f[Len(cmds)]
<1> DEFINE Step(f, i) == IF i = 0 THEN acc ELSE ExecCmd(f[i - 1], cmds[i])
           T == {m \in Nat : \E f : f = [i \in 0..m |-> Step(f, i)]}
<1>1. 0 \in T
  <2>1. [i \in 0..0 |-> acc] = [i \in 0..0 |-> Step([j \in 0..0 |-> acc], i)]
    OBVIOUS
  <2> QED BY <2>1
<1>2. ASSUME NEW m \in Nat, m \in T
      PROVE  m + 1 \in T
  <2>1. PICK f : f = [i \in 0..m |-> Step(f, i)]
    BY <1>2
  <2> DEFINE g == [i \in 0..(m + 1) |-> IF i <= m THEN f[i] ELSE ExecCmd(f[m], cmds[m + 1])]
  <2>2. ASSUME NEW i \in 0..(m + 1)
        PROVE  g[i] = Step(g, i)
    <3>1. CASE i = m + 1
      BY <3>1
    <3>2. CASE i # m + 1
      <4>1. i \in 0..m /\ g[i] = f[i] /\ f[i] = Step(f, i)
        BY <2>1, <3>2
      <4>2. i # 0 => g[i - 1] = f[i - 1]
        BY <4>1
      <4> QED BY <4>1, <4>2
    <3> QED BY <3>1, <3>2
  <2>3. g = [i \in 0..(m + 1) |-> Step(g, i)]
    BY <2>2
  <2> HIDE DEF g
  <2>4. \E h : h = [i \in 0..(m + 1) |-> Step(h, i)]
    BY <2>3
  <2> QED BY <2>4
<1> HIDE DEF T
<1>3. Len(cmds) \in T
  BY <1>1, <1>2, SetInduction
<1> DEFINE R(f) == f = [i \in 0..Len(cmds) |-> Step(f, i)]
<1>4. PICK f : f = CHOOSE g : R(g)
  OBVIOUS
<1>5. R(f)
  BY <1>3, <1>4 DEF T
<1>6. RunCmds(acc, cmds) = f[Len(cmds)]
  BY <1>4 DEF RunCmds
<1>7. Trace(f, acc, cmds)
  BY <1>5 DEF Trace
<1> QED BY <1>6, <1>7

\* One part after the other.
LEMMA RunConcat ==
    ASSUME NEW acc, NEW S, NEW a \in Seq(S), NEW b \in Seq(S)
    PROVE  RunCmds(acc, a \o b) = RunCmds(RunCmds(acc, a), b)
<1> DEFINE ab == a \o b
<1>1. /\ Len(a) \in Nat /\ Len(b) \in Nat /\ Len(ab) = Len(a) + Len(b)
      /\ \A i \in 1..Len(a) : ab[i] = a[i]
      /\ \A i \in 1..Len(b) : ab[Len(a) + i] = b[i]
  OBVIOUS
<1> HIDE DEF ab
<1>2. PICK f : Trace(f, acc, ab) /\ RunCmds(acc, ab) = f[Len(ab)]
  <2>1. Len(ab) \in Nat
    BY <1>1
  <2> QED BY <2>1, RunCmdsTrace
<1>3. PICK g : Trace(g, acc, a) /\ RunCmds(acc, a) = g[Len(a)]
  BY <1>1, RunCmdsTrace
<1>4. PICK mid : mid = RunCmds(acc, a)
  OBVIOUS
<1>5. PICK h : Trace(h, mid, b) /\ RunCmds(mid, b) = h[Len(b)]
  BY <1>1, RunCmdsTrace
<1>6. \A i \in Nat : i <= Len(a) => f[i] = g[i]
  <2> DEFINE T == {i \in Nat : i <= Len(a) => f[i] = g[i]}
  <2>1. 0 \in T
    BY <1>2, <1>3 DEF Trace
  <2>2. ASSUME NEW i \in Nat, i \in T PROVE i + 1 \in T
    <3> SUFFICES ASSUME i + 1 <= Len(a) PROVE f[i + 1] = g[i + 1]
      OBVIOUS
    <3>1. i + 1 \in 1..Len(a) /\ i + 1 \in 1..Len(ab) /\ (i + 1) - 1 = i /\ i <= Len(a)
      BY <1>1
    <3>2. f[i + 1] = ExecCmd(f[i], ab[i + 1]) /\ g[i + 1] = ExecCmd(g[i], a[i + 1])
      BY <1>2, <1>3, <3>1 DEF Trace
    <3> QED BY <1>1, <2>2, <3>1, <3>2
  <2> HIDE DEF T
  <2>3. \A i \in Nat : i \in T
    BY <2>1, <2>2, SetInduction
  <2> QED BY <2>3 DEF T
<1>7. \A i \in Nat : i <= Len(b) => f[Len(a) + i] = h[i]
  <2> DEFINE T == {i \in Nat : i <= Len(b) => f[Len(a) + i] = h[i]}
  <2>1. 0 \in T
    BY <1>1, <1>3, <1>4, <1>5, <1>6 DEF Trace
  <2>2. ASSUME NEW i \in Nat, i \in T PROVE i + 1 \in T
    <3> SUFFICES ASSUME i + 1 <= Len(b) PROVE f[Len(a) + (i + 1)] = h[i + 1]
      OBVIOUS
    <3>1. /\ i + 1 \in 1..Len(b) /\ Len(a) + (i + 1) \in 1..Len(ab) /\ (i + 1) - 1 = i
          /\ (Len(a) + (i + 1)) - 1 = Len(a) + i /\ i <= Len(b)
      BY <1>1
    <3>2. /\ f[Len(a) + (i + 1)] = ExecCmd(f[Len(a) + i], ab[Len(a) + (i + 1)])
          /\ h[i + 1] = ExecCmd(h[i], b[i + 1])
      BY <1>2, <1>5, <3>1 DEF Trace
    <3> QED BY <1>1, <2>2, <3>1, <3>2
  <2> HIDE DEF T
  <2>3. \A i \in Nat : i \in T
    BY <2>1, <2>2, SetInduction
  <2> QED BY <2>3 DEF T
<1>8. f[Len(a) + Len(b)] = h[Len(b)]
  BY <1>1, <1>7
<1> QED BY <1>1, <1>2, <1>4, <1>5, <1>8 DEF ab

\* No command.
LEMMA RunNone ==
    ASSUME NEW acc
    PROVE  RunCmds(acc, <<>>) = acc
<1>1. Len(<<>>) = 0
  OBVIOUS
<1> QED BY <1>1, RunCmdsTrace DEF Trace

\* One command.
LEMMA RunOne ==
    ASSUME NEW acc, NEW a
    PROVE  RunCmds(acc, <<a>>) = ExecCmd(acc, a)
<1>1. Len(<<a>>) = 1
  OBVIOUS
<1>2. PICK f : Trace(f, acc, <<a>>) /\ RunCmds(acc, <<a>>) = f[1]
  BY <1>1, RunCmdsTrace
<1>3. f[0] = acc /\ f[1] = ExecCmd(f[0], a)
  BY <1>1, <1>2 DEF Trace
<1> QED BY <1>2, <1>3

\* Two commands.
LEMMA RunTwo ==
    ASSUME NEW acc, NEW a, NEW b
    PROVE  RunCmds(acc, <<a, b>>) = ExecCmd(ExecCmd(acc, a), b)
<1>1. Len(<<a, b>>) = 2
  OBVIOUS
<1>2. PICK f : Trace(f, acc, <<a, b>>) /\ RunCmds(acc, <<a, b>>) = f[2]
  BY <1>1, RunCmdsTrace
<1>3. f[0] = acc /\ f[1] = ExecCmd(f[0], a) /\ f[2] = ExecCmd(f[1], b)
  BY <1>1, <1>2 DEF Trace
<1> QED BY <1>2, <1>3

\* Three commands.
LEMMA RunThree ==
    ASSUME NEW acc, NEW a, NEW b, NEW c
    PROVE  RunCmds(acc, <<a, b, c>>) = ExecCmd(ExecCmd(ExecCmd(acc, a), b), c)
<1>1. Len(<<a, b, c>>) = 3
  OBVIOUS
<1>2. PICK f : Trace(f, acc, <<a, b, c>>) /\ RunCmds(acc, <<a, b, c>>) = f[3]
  BY <1>1, RunCmdsTrace
<1>3. /\ f[0] = acc /\ f[1] = ExecCmd(f[0], a) /\ f[2] = ExecCmd(f[1], b)
      /\ f[3] = ExecCmd(f[2], c)
  BY <1>1, <1>2 DEF Trace
<1> QED BY <1>2, <1>3
-----------------------------------------------------------------------------
(***************************************************************************)
(* What holds after every single command.                                  *)
(***************************************************************************)
\* A tunnel that is up is there, and leads to a node.
Wired(L) == Kernel(L) /\ L.up \subseteq L.tunnel /\ L.tunnel \subseteq Node

Op == {"create", "flush", "add", "destroy", "mark", "bypass", "forward", "unmark",
       "unbypass", "unforward", "snatList", "snat", "unsnat", "retmark", "addrAdd",
       "addrDel", "linkPeek", "linkList", "tunnelAdd", "linkUp", "routeList",
       "routeListAddr", "routeAdd", "routeDeleteVia"}

Dst == {r.dst : r \in AllRules}
Eip == {r.eip : r \in AllRules}
Sets == {generateRuleId(k, i) : k \in Key, i \in Nat}

\* The commands of the controllers, none of which dereferences a missing name.
Commands ==
    {c \in [op : Op, set : {None} \union Sets, dst : {None} \union DOMAIN Host \union Dst,
            to : {None} \union DOMAIN Host \union Node \union Eip] :
        c.op = "tunnelAdd" => c.to \in Node}

\* A command keeps the tunnels right.
LEMMA EffectWired ==
    ASSUME NEW L, Wired(L), NEW c \in Commands, ~Fails(L, c)
    PROVE  Wired(Effect(L, c))
<1>1. PICK M : M = Effect(L, c)
  OBVIOUS
<1>2. Kernel(M) /\ LinksWritten(L, c, M)
  BY <1>1, EffectFields DEF Wired
<1>3. c.op = "linkUp" => c.to \in L.tunnel
  BY DEF Fails
<1>4. c.op = "tunnelAdd" => c.to \in Node
  BY DEF Commands
<1> QED BY <1>1, <1>2, <1>3, <1>4 DEF Wired, LinksWritten

\* A configuration and how the job goes on.
State(L, next) == [K |-> L, next |-> next]

Acc(acc) == acc = State(acc.K, acc.next) /\ acc.next \in {"run", "skip", "failed"}

\* The four ways a command may go.
LEMMA ExecCmdCases ==
    ASSUME NEW L, NEW c
    PROVE  /\ ExecCmd(State(L, "skip"), c) = State(L, "run")
           /\ ExecCmd(State(L, "failed"), c) = State(L, "failed")
           /\ Fails(L, c) => ExecCmd(State(L, "run"), c) = State(L, "failed")
           /\ ~Fails(L, c) /\ Skips(L, c) =>
                  ExecCmd(State(L, "run"), c) = State(Effect(L, c), "skip")
           /\ ~Fails(L, c) /\ ~Skips(L, c) =>
                  ExecCmd(State(L, "run"), c) = State(Effect(L, c), "run")
  BY DEF ExecCmd, State

\* The configuration is what it was, or what the command made of it.
LEMMA ExecCmdEffect ==
    ASSUME NEW acc, Acc(acc), NEW c
    PROVE  /\ Acc(ExecCmd(acc, c))
           /\ \/ ExecCmd(acc, c).K = acc.K
              \/ ~Fails(acc.K, c) /\ ExecCmd(acc, c).K = Effect(acc.K, c)
<1>1. PICK L : acc.K = L
  OBVIOUS
<1>2. acc = State(L, "run") \/ acc = State(L, "skip") \/ acc = State(L, "failed")
  BY <1>1 DEF Acc
<1>3. \/ ExecCmd(acc, c) \in {State(L, "run"), State(L, "failed")}
      \/ ~Fails(L, c) /\ ExecCmd(acc, c) \in {State(Effect(L, c), "run"), State(Effect(L, c), "skip")}
  BY <1>2, ExecCmdCases
<1>4. \A M, x : State(M, x).K = M /\ State(M, x).next = x
  BY DEF State
<1> QED BY <1>1, <1>3, <1>4 DEF Acc

\* Any commands of a node.
LEMMA RunWired ==
    ASSUME NEW acc, Acc(acc), Wired(acc.K), NEW cmds \in Seq(Commands)
    PROVE  Acc(RunCmds(acc, cmds)) /\ Wired(RunCmds(acc, cmds).K)
<1>1. Len(cmds) \in Nat /\ \A i \in 1..Len(cmds) : cmds[i] \in Commands
  OBVIOUS
<1>2. PICK f : Trace(f, acc, cmds) /\ RunCmds(acc, cmds) = f[Len(cmds)]
  BY <1>1, RunCmdsTrace
<1> DEFINE T == {i \in Nat : i <= Len(cmds) => Acc(f[i]) /\ Wired(f[i].K)}
<1>3. 0 \in T
  BY <1>2 DEF Trace
<1>4. ASSUME NEW i \in Nat, i \in T PROVE i + 1 \in T
  <2> SUFFICES ASSUME i + 1 <= Len(cmds) PROVE Acc(f[i + 1]) /\ Wired(f[i + 1].K)
    OBVIOUS
  <2>1. i + 1 \in 1..Len(cmds) /\ (i + 1) - 1 = i /\ i <= Len(cmds)
    BY <1>1
  <2>2. f[i + 1] = ExecCmd(f[i], cmds[i + 1]) /\ cmds[i + 1] \in Commands
    BY <1>1, <1>2, <2>1 DEF Trace
  <2>3. Acc(f[i]) /\ Wired(f[i].K)
    BY <1>4, <2>1
  <2> QED BY <2>2, <2>3, ExecCmdEffect, EffectWired
<1> HIDE DEF T
<1>5. Len(cmds) \in T
  BY <1>1, <1>3, <1>4, SetInduction
<1> QED BY <1>1, <1>2, <1>5 DEF T

-----------------------------------------------------------------------------
(***************************************************************************)
(* The calls for one rule are made of such commands.                       *)
(***************************************************************************)
\* What is asked of a command.
LEMMA IsCommand ==
    ASSUME NEW op \in Op, NEW x \in {None} \union Sets,
           NEW d \in {None} \union DOMAIN Host \union Dst,
           NEW to \in {None} \union DOMAIN Host \union Node \union Eip,
           op = "tunnelAdd" => to \in Node
    PROVE  Cmd(op, x, d, to) \in Commands
<1> DEFINE c == Cmd(op, x, d, to)
<1>1. c.op = op /\ c.to = to
  BY DEF Cmd
<1>2. c \in [op : Op, set : {None} \union Sets, dst : {None} \union DOMAIN Host \union Dst,
             to : {None} \union DOMAIN Host \union Node \union Eip]
  BY DEF Cmd
<1> HIDE DEF c
<1> QED BY <1>1, <1>2 DEF Commands, c

\* The commands of the director and the gateway.
LEMMA RuleCommands ==
    ASSUME NEW s \in Sets, NEW d \in Dst, NEW e \in Eip
    PROVE  /\ Cmd("create", s, None, None) \in Commands
           /\ Cmd("flush", s, None, None) \in Commands
           /\ Cmd("destroy", s, None, None) \in Commands
           /\ Cmd("mark", s, d, None) \in Commands
           /\ Cmd("bypass", s, d, None) \in Commands
           /\ Cmd("unmark", s, d, None) \in Commands
           /\ Cmd("unbypass", s, d, None) \in Commands
           /\ Cmd("forward", s, d, None) \in Commands
           /\ Cmd("unforward", s, d, None) \in Commands
           /\ Cmd("snatList", s, d, e) \in Commands
           /\ Cmd("snat", s, d, e) \in Commands
           /\ Cmd("unsnat", s, d, e) \in Commands
           /\ Cmd("retmark", None, d, e) \in Commands
           /\ Cmd("addrAdd", None, None, e) \in Commands
           /\ Cmd("addrDel", None, None, e) \in Commands
           /\ Cmd("routeList", None, d, None) \in Commands
           /\ Cmd("routeListAddr", None, d, None) \in Commands
           /\ Cmd("routeDeleteVia", None, d, None) \in Commands
  BY IsCommand DEF Op

\* The ones for a pod, whose node has a name.
LEMMA PodCommands ==
    ASSUME NEW s \in Sets, NEW p \in DOMAIN Host
    PROVE  /\ Cmd("add", s, None, p) \in Commands
           /\ Cmd("routeList", None, p, None) \in Commands
           /\ Host[p] \in Node /\ Host[p] # NoNode
           /\ Cmd("routeAdd", None, p, Host[p]) \in Commands
           /\ Cmd("linkPeek", None, None, None) \in Commands
<1>1. Host[p] \in Node /\ Host[p] # NoNode
  BY PodsAssumption, ClusterNodeAssumption
<1> QED BY <1>1, IsCommand DEF Op

\* The ones for a tunnel to node m.
LEMMA TunnelCommands ==
    ASSUME NEW m \in Node
    PROVE  /\ EnsureTunnel(m) \in Seq(Commands) /\ Len(EnsureTunnel(m)) = 3
           /\ \A d \in Dst : Cmd("routeAdd", None, d, m) \in Commands
<1>1. /\ Cmd("linkList", None, None, m) \in Commands
      /\ Cmd("tunnelAdd", None, None, m) \in Commands
      /\ Cmd("linkUp", None, None, m) \in Commands
      /\ \A d \in Dst : Cmd("routeAdd", None, d, m) \in Commands
  BY IsCommand DEF Op
<1> HIDE DEF Commands
<1> QED BY <1>1 DEF EnsureTunnel

\* The two parts of a Seq(C) are one.
LEMMA Join ==
    ASSUME NEW C, NEW a \in Seq(C), NEW b \in Seq(C)
    PROVE  a \o b \in Seq(C)
  OBVIOUS

\* So are any number of parts.
LEMMA JoinAll ==
    ASSUME NEW C, NEW seqs, Len(seqs) \in Nat, Len(seqs) = 0 => seqs = <<>>,
           \A i \in 1..Len(seqs) : seqs[i] \in Seq(C)
    PROVE  FlattenSeq(seqs) \in Seq(C)
<1>1. CASE Len(seqs) = 0
  <2>1. FlattenSeq(seqs) = <<>>
    BY <1>1, Zenon DEF FlattenSeq
  <2>2. <<>> \in Seq(C)
    OBVIOUS
  <2> QED BY <2>1, <2>2, Zenon
<1>2. CASE Len(seqs) # 0
  <2>1. PICK f : /\ f[1] = seqs[1]
                 /\ \A i \in 2..Len(seqs) : f[i] = f[i - 1] \o seqs[i]
                 /\ FlattenSeq(seqs) = f[Len(seqs)]
    BY <1>2, Flattened
  <2> DEFINE T == {i \in Nat : i \in 1..Len(seqs) => f[i] \in Seq(C)}
  <2>2. 0 \in T
    OBVIOUS
  <2>3. ASSUME NEW i \in Nat, i \in T PROVE i + 1 \in T
    <3> SUFFICES ASSUME i + 1 \in 1..Len(seqs) PROVE f[i + 1] \in Seq(C)
      OBVIOUS
    <3>1. CASE i = 0
      BY <2>1, <3>1
    <3>2. CASE i # 0
      <4>1. i \in 1..Len(seqs) /\ i + 1 \in 2..Len(seqs) /\ (i + 1) - 1 = i
        BY <3>2
      <4>2. f[i] \in Seq(C) /\ seqs[i + 1] \in Seq(C)
        BY <2>3, <4>1
      <4>3. f[i + 1] = f[(i + 1) - 1] \o seqs[i + 1]
        BY <2>1, <4>1, Zenon
      <4>4. f[i] \o seqs[i + 1] \in Seq(C)
        BY <4>2, Join
      <4>5. f[(i + 1) - 1] = f[i]
        BY <4>1
      <4> QED BY <4>3, <4>4, <4>5, Zenon
    <3> QED BY <3>1, <3>2
  <2> HIDE DEF T
  <2>4. Len(seqs) \in T
    BY <2>2, <2>3, SetInduction
  <2> QED BY <1>2, <2>1, <2>4 DEF T
<1> QED BY <1>1, <1>2
\* What doGatewyProcessing runs for one address, if no lookup fails.
PodPath(n, p) ==
    IF Host[p] = n THEN <<Cmd("linkPeek", None, None, None)>>
    ELSE EnsureTunnel(Host[p]) \o
         <<Cmd("routeList", None, p, None), Cmd("routeAdd", None, p, Host[p])>>

\* The path back to a pod takes such commands.
LEMMA PodPathCommands ==
    ASSUME NEW n, NEW s \in Sets, NEW p \in DOMAIN Host
    PROVE  PodPath(n, p) \in Seq(Commands)
<1>1. /\ Cmd("linkPeek", None, None, None) \in Commands /\ Host[p] \in Node
      /\ Cmd("routeList", None, p, None) \in Commands
      /\ Cmd("routeAdd", None, p, Host[p]) \in Commands
  BY PodCommands
<1>2. EnsureTunnel(Host[p]) \in Seq(Commands)
  BY <1>1, TunnelCommands
<1> HIDE DEF Commands
<1>3. PICK last : last = <<Cmd("routeList", None, p, None), Cmd("routeAdd", None, p, Host[p])>>
  OBVIOUS
<1>4. last \in Seq(Commands) /\ <<Cmd("linkPeek", None, None, None)>> \in Seq(Commands)
  BY <1>1, <1>3
<1>5. EnsureTunnel(Host[p]) \o last \in Seq(Commands)
  BY <1>2, <1>4, Join
<1> QED BY <1>3, <1>4, <1>5, Zenon DEF PodPath

\* ReturnPaths, address by address.
LEMMA ReturnPathsParts ==
    ASSUME NEW n, NEW ips \in Seq(DOMAIN Host)
    PROVE  \E seqs : /\ Len(seqs) = Len(ips) /\ (Len(ips) = 0 => seqs = <<>>)
                     /\ \A j \in 1..Len(ips) : seqs[j] = PodPath(n, ips[j])
                     /\ ReturnPaths(n, ips, {}) = FlattenSeq(seqs)
<1> DEFINE path(p) ==
               CASE Host[p] = NoNode -> <<Cmd("nodeName", None, p, None)>>
                 [] Host[p] # NoNode /\ p \in {} -> <<>>
                 [] p \notin {} /\ Host[p] = n /\ Host[p] # NoNode ->
                        <<Cmd("linkPeek", None, None, None)>>
                 [] OTHER ->
                        EnsureTunnel(Host[p]) \o
                        <<Cmd("routeList", None, p, None), Cmd("routeAdd", None, p, Host[p])>>
<1>1. PICK seqs : seqs = [j \in 1..Len(ips) |-> path(ips[j])]
  OBVIOUS
<1>2. ReturnPaths(n, ips, {}) = FlattenSeq(seqs)
  BY <1>1, Zenon DEF ReturnPaths
<1>3. ASSUME NEW p \in DOMAIN Host PROVE path(p) = PodPath(n, p)
  <2>1. Host[p] # NoNode
    BY PodsAssumption, ClusterNodeAssumption
  <2> QED BY <2>1, Zenon DEF PodPath
<1> HIDE DEF path
<1>4. Len(ips) \in Nat /\ \A j \in 1..Len(ips) : ips[j] \in DOMAIN Host
  OBVIOUS
<1>5. Len(seqs) = Len(ips) /\ (Len(ips) = 0 => seqs = <<>>)
  BY <1>1, <1>4
<1>6. \A j \in 1..Len(ips) : seqs[j] = PodPath(n, ips[j])
  BY <1>1, <1>3, <1>4
<1> QED BY <1>2, <1>5, <1>6

\* So do the paths back to all pods of a service.
LEMMA ReturnPathsCommands ==
    ASSUME NEW n, NEW s \in Sets, NEW ips \in Seq(DOMAIN Host)
    PROVE  ReturnPaths(n, ips, {}) \in Seq(Commands)
<1>1. Len(ips) \in Nat /\ \A j \in 1..Len(ips) : ips[j] \in DOMAIN Host
  OBVIOUS
<1>2. PICK seqs : /\ Len(seqs) = Len(ips) /\ (Len(ips) = 0 => seqs = <<>>)
                  /\ \A j \in 1..Len(ips) : seqs[j] = PodPath(n, ips[j])
                  /\ ReturnPaths(n, ips, {}) = FlattenSeq(seqs)
  BY ReturnPathsParts
<1>3. \A j \in 1..Len(seqs) : seqs[j] \in Seq(Commands)
  BY <1>1, <1>2, PodPathCommands
<1>4. FlattenSeq(seqs) \in Seq(Commands)
  BY <1>1, <1>2, <1>3, JoinAll
<1> QED BY <1>2, <1>4, Zenon

\* The parts of the other operations.
LEMMA Parts ==
    ASSUME NEW s \in Sets, NEW ips \in Seq(DOMAIN Host), NEW d \in Dst
    PROVE  /\ NewSet(s) \in Seq(Commands)
           /\ FillSet(s, ips) \in Seq(Commands)
           /\ DeleteRoute(d) \in Seq(Commands)
           /\ <<Cmd("destroy", s, None, None)>> \in Seq(Commands)
<1>0. PICK e : e \in Eip
  BY DEF Dst, Eip
<1>1. /\ Cmd("create", s, None, None) \in Commands /\ Cmd("flush", s, None, None) \in Commands
      /\ Cmd("routeList", None, d, None) \in Commands
      /\ Cmd("routeDeleteVia", None, d, None) \in Commands
      /\ Cmd("destroy", s, None, None) \in Commands
  BY <1>0, RuleCommands
<1>2. \A i \in 1..Len(ips) : Cmd("add", s, None, ips[i]) \in Commands
  BY PodCommands
<1> HIDE DEF Commands
<1>3. /\ NewSet(s) \in Seq(Commands) /\ DeleteRoute(d) \in Seq(Commands)
      /\ <<Cmd("destroy", s, None, None)>> \in Seq(Commands)
  BY <1>1 DEF NewSet, DeleteRoute
<1>4. PICK adds : adds = [i \in 1..Len(ips) |-> Cmd("add", s, None, ips[i])]
  OBVIOUS
<1>5. adds \in Seq(Commands)
  BY <1>2, <1>4
<1>6. NewSet(s) \o adds \in Seq(Commands)
  BY <1>3, <1>5, Join
<1>7. FillSet(s, ips) \in Seq(Commands)
  BY <1>4, <1>6, Zenon DEF FillSet
<1> QED BY <1>3, <1>7

\* The operations of the director.
LEMMA DirectorOperations ==
    ASSUME NEW s \in Sets, NEW ips \in Seq(DOMAIN Host), NEW d \in Dst
    PROVE  /\ \A gw \in Node : AddRouteToGateway(s, ips, d, gw) \in Seq(Commands)
           /\ ClearStaleRouteToGateway(s, d) \in Seq(Commands)
           /\ DeleteRouteToGateway(s, d) \in Seq(Commands)
<1>0. PICK e : e \in Eip
  BY DEF Dst, Eip
<1>1. /\ NewSet(s) \in Seq(Commands) /\ FillSet(s, ips) \in Seq(Commands)
      /\ DeleteRoute(d) \in Seq(Commands) /\ <<Cmd("destroy", s, None, None)>> \in Seq(Commands)
  BY Parts
<1>2. ASSUME NEW gw \in Node PROVE AddRouteToGateway(s, ips, d, gw) \in Seq(Commands)
  <2>1. PICK a, b : /\ a = <<Cmd("mark", s, d, None), Cmd("bypass", s, d, None)>>
                    /\ b = <<Cmd("routeListAddr", None, d, None), Cmd("routeAdd", None, d, gw)>>
    OBVIOUS
  <2>2. /\ Cmd("mark", s, d, None) \in Commands /\ Cmd("bypass", s, d, None) \in Commands
        /\ Cmd("routeListAddr", None, d, None) \in Commands
    BY <1>0, RuleCommands
  <2>3. Cmd("routeAdd", None, d, gw) \in Commands /\ EnsureTunnel(gw) \in Seq(Commands)
    BY TunnelCommands
  <2> HIDE DEF Commands
  <2>4. a \in Seq(Commands) /\ b \in Seq(Commands)
    BY <2>1, <2>2, <2>3
  <2>5. FillSet(s, ips) \o a \in Seq(Commands)
    BY <1>1, <2>4, Join
  <2>6. (FillSet(s, ips) \o a) \o EnsureTunnel(gw) \in Seq(Commands)
    BY <2>3, <2>5, Join
  <2>7. ((FillSet(s, ips) \o a) \o EnsureTunnel(gw)) \o b \in Seq(Commands)
    BY <2>4, <2>6, Join
  <2> QED BY <2>1, <2>7, Zenon DEF AddRouteToGateway
<1>3. ClearStaleRouteToGateway(s, d) \in Seq(Commands)
  <2>1. PICK a : a = <<Cmd("unmark", s, d, None), Cmd("unbypass", s, d, None)>>
    OBVIOUS
  <2>2. Cmd("unmark", s, d, None) \in Commands /\ Cmd("unbypass", s, d, None) \in Commands
    BY <1>0, RuleCommands
  <2> HIDE DEF Commands
  <2>3. a \in Seq(Commands)
    BY <2>1, <2>2
  <2>4. a \o DeleteRoute(d) \in Seq(Commands)
    BY <1>1, <2>3, Join
  <2> QED BY <2>1, <2>4, Zenon DEF ClearStaleRouteToGateway
<1>4. DeleteRouteToGateway(s, d) \in Seq(Commands)
  <2>1. NewSet(s) \o ClearStaleRouteToGateway(s, d) \in Seq(Commands)
    BY <1>1, <1>3, Join
  <2>2. (NewSet(s) \o ClearStaleRouteToGateway(s, d)) \o <<Cmd("destroy", s, None, None)>>
            \in Seq(Commands)
    BY <1>1, <2>1, Join
  <2> QED BY <2>2, Zenon DEF DeleteRouteToGateway
<1> QED BY <1>2, <1>3, <1>4

\* The operations of the gateway.
LEMMA GatewayOperations ==
    ASSUME NEW s \in Sets, NEW ips \in Seq(DOMAIN Host), NEW d \in Dst, NEW e \in Eip
    PROVE  /\ AddStaticIptablesRule(s, ips, d, e) \in Seq(Commands)
           /\ ClearStaticIptablesRule(s, d, e) \in Seq(Commands)
           /\ ConfigureStaticIP(e) \in Seq(Commands)
           /\ RemoveStaticIP(e) \in Seq(Commands)
<1>1. /\ NewSet(s) \in Seq(Commands) /\ FillSet(s, ips) \in Seq(Commands)
      /\ <<Cmd("destroy", s, None, None)>> \in Seq(Commands)
  BY Parts
<1>2. /\ Cmd("forward", s, d, None) \in Commands /\ Cmd("snatList", s, d, e) \in Commands
      /\ Cmd("snat", s, d, e) \in Commands /\ Cmd("retmark", None, d, e) \in Commands
      /\ Cmd("unsnat", s, d, e) \in Commands /\ Cmd("unforward", s, d, None) \in Commands
      /\ Cmd("addrAdd", None, None, e) \in Commands /\ Cmd("addrDel", None, None, e) \in Commands
  BY RuleCommands
<1>3. PICK a, b, c : /\ a = <<Cmd("forward", s, d, None)>>
                     /\ b = <<Cmd("retmark", None, d, e)>>
                     /\ c = <<Cmd("unsnat", s, d, e), Cmd("unforward", s, d, None)>>
  OBVIOUS
<1> HIDE DEF Commands
<1>4. /\ a \in Seq(Commands) /\ b \in Seq(Commands) /\ c \in Seq(Commands)
      /\ insertRule(s, d, e) \in Seq(Commands)
  BY <1>2, <1>3 DEF insertRule
<1>5. AddStaticIptablesRule(s, ips, d, e) \in Seq(Commands)
  <2>1. FillSet(s, ips) \o a \in Seq(Commands)
    BY <1>1, <1>4, Join
  <2>2. (FillSet(s, ips) \o a) \o insertRule(s, d, e) \in Seq(Commands)
    BY <1>4, <2>1, Join
  <2>3. ((FillSet(s, ips) \o a) \o insertRule(s, d, e)) \o b \in Seq(Commands)
    BY <1>4, <2>2, Join
  <2> QED BY <1>3, <2>3, Zenon DEF AddStaticIptablesRule
<1>6. ClearStaticIptablesRule(s, d, e) \in Seq(Commands)
  <2>1. c \o NewSet(s) \in Seq(Commands)
    BY <1>1, <1>4, Join
  <2>2. (c \o NewSet(s)) \o <<Cmd("destroy", s, None, None)>> \in Seq(Commands)
    BY <1>1, <2>1, Join
  <2> QED BY <1>3, <2>2, Zenon DEF ClearStaticIptablesRule
<1>7. ConfigureStaticIP(e) \in Seq(Commands) /\ RemoveStaticIP(e) \in Seq(Commands)
  BY <1>2 DEF ConfigureStaticIP, RemoveStaticIP
<1> QED BY <1>5, <1>6, <1>7
-----------------------------------------------------------------------------
(***************************************************************************)
(* The paths back to the pods can be completed on whatever is configured.  *)
(***************************************************************************)
\* A tunnel to m is up in the end.
LEMMA TunnelRuns ==
    ASSUME NEW L, Kernel(L), NEW m \in Node, TextsApart
    PROVE  \E M : /\ RunCmds(State(L, "run"), EnsureTunnel(m)) = State(M, "run")
                  /\ Kernel(M) /\ m \in M.up
<1>1. PICK list, new, link : /\ list = Cmd("linkList", None, None, m)
                             /\ new = Cmd("tunnelAdd", None, None, m)
                             /\ link = Cmd("linkUp", None, None, m)
  OBVIOUS
<1>2. /\ list.op = "linkList" /\ list.to = m /\ new.op = "tunnelAdd" /\ new.to = m
      /\ link.op = "linkUp" /\ link.to = m
  BY <1>1 DEF Cmd
<1>3. Effect(L, list) = L /\ ~Fails(L, list)
  BY <1>2, RuleChains DEF Effect, Fails
<1>4. Skips(L, list) <=> m \in L.tunnel
  <2>1. Skips(L, list) <=> \E j \in L.tunnel : <<m, j>> \in TunnelShown
    BY <1>2 DEF Skips
  <2>2. ASSUME NEW j, <<m, j>> \in TunnelShown PROVE m = j
    <3>1. PICK x : x = <<m, j>>
      OBVIOUS
    <3>2. x[1] = x[2] /\ x[1] = m /\ x[2] = j
      BY <2>2, <3>1 DEF TextsApart
    <3> QED BY <3>2
  <2>3. <<m, m>> \in TunnelShown
    BY DEF TextsApart
  <2> QED BY <2>1, <2>2, <2>3
<1>5. PICK N : /\ ExecCmd(ExecCmd(State(L, "run"), list), new) = State(N, "run")
               /\ Kernel(N) /\ m \in N.tunnel
  <2>1. CASE m \in L.tunnel
    BY <1>3, <1>4, <2>1, ExecCmdCases
  <2>2. CASE m \notin L.tunnel
    <3>1. PICK N : N = Effect(L, new)
      OBVIOUS
    <3>2. ~Fails(L, new) /\ ~Skips(L, new)
      BY <1>2, <2>2, RuleChains DEF Fails, Skips
    <3>3. Kernel(N) /\ LinksWritten(L, new, N)
      BY <3>1, EffectFields
    <3>4. m \in N.tunnel
      BY <1>2, <3>3 DEF LinksWritten
    <3>5. ExecCmd(ExecCmd(State(L, "run"), list), new) = State(N, "run")
      BY <1>3, <1>4, <2>2, <3>1, <3>2, ExecCmdCases
    <3> QED BY <3>3, <3>4, <3>5
  <2> QED BY <2>1, <2>2
<1>6. PICK M : M = Effect(N, link)
  OBVIOUS
<1>7. ~Fails(N, link) /\ ~Skips(N, link)
  BY <1>2, <1>5, RuleChains DEF Fails, Skips
<1>8. Kernel(M) /\ LinksWritten(N, link, M)
  BY <1>5, <1>6, EffectFields
<1>9. m \in M.up
  BY <1>2, <1>8 DEF LinksWritten
<1>10. RunCmds(State(L, "run"), EnsureTunnel(m)) = State(M, "run")
  <2>1. ExecCmd(ExecCmd(ExecCmd(State(L, "run"), list), new), link) = State(M, "run")
    BY <1>5, <1>6, <1>7, ExecCmdCases
  <2>2. EnsureTunnel(m) = <<list, new, link>>
    BY <1>1 DEF EnsureTunnel
  <2>3. RunCmds(State(L, "run"), <<list, new, link>>) =
            ExecCmd(ExecCmd(ExecCmd(State(L, "run"), list), new), link)
    BY RunThree
  <2> QED BY <2>1, <2>2, <2>3, Zenon
<1> QED BY <1>8, <1>9, <1>10

\* A list command changes nothing and cannot fail, whatever it finds.
LEMMA Lists ==
    ASSUME NEW L, NEW c, c.op \in {"linkPeek", "routeList"}
    PROVE  Effect(L, c) = L /\ ~Fails(L, c)
<1>1. Effect(L, c) = L
  BY RuleChains DEF Effect
<1>2. ~Fails(L, c)
  BY RuleChains DEF Fails
<1> QED BY <1>1, <1>2

\* A route is looked for and added if it is not there.
LEMMA RouteRuns ==
    ASSUME NEW L, NEW list, list.op = "routeList", NEW route, route.op = "routeAdd",
           route.to \in L.up, list.dst = route.dst, <<route.dst, route.dst>> \in Shown
    PROVE  \E M : RunCmds(State(L, "run"), <<list, route>>) = State(M, "run")
<1>1. Effect(L, list) = L /\ ~Fails(L, list)
  BY Lists
<1>2. (\E r \in L.route : r[1] = route.dst) => Skips(L, list)
  BY DEF Skips, RouteShown
<1>3. RunCmds(State(L, "run"), <<list, route>>) = ExecCmd(ExecCmd(State(L, "run"), list), route)
  BY RunTwo
<1>4. CASE Skips(L, list)
  <2>1. ExecCmd(ExecCmd(State(L, "run"), list), route) = State(L, "run")
    BY <1>1, <1>4, ExecCmdCases
  <2> QED BY <1>3, <2>1
<1>5. CASE ~Skips(L, list)
  <2>1. ~Fails(L, route) /\ ~Skips(L, route)
    BY <1>2, <1>5, RuleChains DEF Fails, Skips
  <2>2. ExecCmd(ExecCmd(State(L, "run"), list), route) = State(Effect(L, route), "run")
    BY <1>1, <1>5, <2>1, ExecCmdCases
  <2> QED BY <1>3, <2>2
<1> QED BY <1>4, <1>5

\* The path back to a pod.
LEMMA PathRuns ==
    ASSUME NEW n, NEW s \in Sets, NEW L, Kernel(L), NEW p \in DOMAIN Host, TextsApart
    PROVE  \E M : RunCmds(State(L, "run"), PodPath(n, p)) = State(M, "run")
<1>1. PICK peek, list, route : /\ peek = Cmd("linkPeek", None, None, None)
                               /\ list = Cmd("routeList", None, p, None)
                               /\ route = Cmd("routeAdd", None, p, Host[p])
  OBVIOUS
<1>2. /\ peek.op = "linkPeek" /\ list.op = "routeList" /\ list.dst = p
      /\ route.op = "routeAdd" /\ route.dst = p /\ route.to = Host[p]
  BY <1>1 DEF Cmd
<1>3. CASE Host[p] = n
  <2>1. PodPath(n, p) = <<peek>>
    BY <1>1, <1>3, Zenon DEF PodPath
  <2>2. Effect(L, peek) = L /\ ~Fails(L, peek) /\ ~Skips(L, peek)
    BY <1>2, Lists DEF Skips
  <2>3. ExecCmd(State(L, "run"), peek) = State(L, "run")
    BY <2>2, ExecCmdCases
  <2>4. RunCmds(State(L, "run"), <<peek>>) = State(L, "run")
    BY <2>3, RunOne
  <2> QED BY <2>1, <2>4, Zenon
<1>4. CASE Host[p] # n
  <2>1. Host[p] \in Node /\ list \in Commands /\ route \in Commands
    BY <1>1, PodCommands
  <2>2. EnsureTunnel(Host[p]) \in Seq(Commands)
    BY <2>1, TunnelCommands
  <2>3. PICK last : last = <<list, route>>
    OBVIOUS
  <2>4. PodPath(n, p) = EnsureTunnel(Host[p]) \o last
    BY <1>1, <1>4, <2>3, Zenon DEF PodPath
  <2>5. last \in Seq(Commands)
    BY <2>1, <2>3
  <2>6. RunCmds(State(L, "run"), EnsureTunnel(Host[p]) \o last) =
            RunCmds(RunCmds(State(L, "run"), EnsureTunnel(Host[p])), last)
    BY <2>2, <2>5, RunConcat
  <2>7. PICK M : /\ RunCmds(State(L, "run"), EnsureTunnel(Host[p])) = State(M, "run")
                 /\ Host[p] \in M.up
    BY <2>1, TunnelRuns
  <2>8. <<p, p>> \in Shown
    BY DEF TextsApart
  <2>9. PICK N : RunCmds(State(M, "run"), last) = State(N, "run")
    BY <1>2, <2>3, <2>7, <2>8, RouteRuns
  <2> QED BY <2>4, <2>6, <2>7, <2>9, Zenon
<1> QED BY <1>3, <1>4

\* The paths back to all pods of a service.
LEMMA PathsRun ==
    ASSUME NEW n, NEW s \in Sets, NEW L, Wired(L), NEW ips \in Seq(DOMAIN Host), TextsApart
    PROVE  RunCmds(State(L, "run"), ReturnPaths(n, ips, {})).next = "run"
<1> DEFINE Runs(acc) == Acc(acc) /\ Wired(acc.K) /\ acc.next = "run"
<1>1. Len(ips) \in Nat /\ \A i \in 1..Len(ips) : ips[i] \in DOMAIN Host
  OBVIOUS
<1>2. PICK seqs : /\ Len(seqs) = Len(ips) /\ (Len(ips) = 0 => seqs = <<>>)
                  /\ \A j \in 1..Len(ips) : seqs[j] = PodPath(n, ips[j])
                  /\ ReturnPaths(n, ips, {}) = FlattenSeq(seqs)
  BY ReturnPathsParts
<1>3. PICK start : start = State(L, "run")
  OBVIOUS
<1>4. Runs(start)
  BY <1>3 DEF State, Acc
<1>5. \A i \in 1..Len(ips) : seqs[i] \in Seq(Commands)
  BY <1>1, <1>2, PodPathCommands
<1>6. ASSUME NEW acc, Runs(acc), NEW i \in 1..Len(ips)
      PROVE  Runs(RunCmds(acc, seqs[i]))
  <2>1. PICK M : M = acc.K
    OBVIOUS
  <2>2. acc = State(M, "run") /\ Wired(M)
    BY <1>6, <2>1 DEF Acc
  <2>3. PICK N : RunCmds(acc, seqs[i]) = State(N, "run")
    <3>1. \E N : RunCmds(State(M, "run"), PodPath(n, ips[i])) = State(N, "run")
      BY <1>1, <2>2, PathRuns DEF Wired
    <3> QED BY <1>2, <2>2, <3>1, Zenon
  <2>4. Acc(RunCmds(acc, seqs[i])) /\ Wired(RunCmds(acc, seqs[i]).K)
    BY <1>5, <1>6, RunWired
  <2> QED BY <2>3, <2>4 DEF State
<1>7. CASE Len(ips) = 0
  <2>1. ReturnPaths(n, ips, {}) = <<>>
    BY <1>2, <1>7, Zenon DEF FlattenSeq
  <2>2. RunCmds(start, <<>>) = start
    BY RunNone
  <2> QED BY <1>3, <1>4, <2>1, <2>2, Zenon
<1>8. CASE Len(ips) # 0
  <2>1. PICK f : /\ f[1] = seqs[1]
                 /\ \A i \in 2..Len(seqs) : f[i] = f[i - 1] \o seqs[i]
                 /\ FlattenSeq(seqs) = f[Len(seqs)]
    BY <1>1, <1>2, <1>8, Flattened
  <2> HIDE DEF Runs
  <2> DEFINE T == {i \in Nat : i \in 1..Len(ips) =>
                                   f[i] \in Seq(Commands) /\ Runs(RunCmds(start, f[i]))}
  <2>2. 0 \in T
    OBVIOUS
  <2>3. ASSUME NEW i \in Nat, i \in T PROVE i + 1 \in T
    <3> SUFFICES ASSUME i + 1 \in 1..Len(ips)
                 PROVE  f[i + 1] \in Seq(Commands) /\ Runs(RunCmds(start, f[i + 1]))
      OBVIOUS
    <3>1. CASE i = 0
      <4>1. 1 \in 1..Len(ips) /\ i + 1 = 1
        BY <1>1, <1>8, <3>1
      <4> QED BY <1>4, <1>5, <1>6, <2>1, <4>1
    <3>2. CASE i # 0
      <4>1. i \in 1..Len(ips) /\ i + 1 \in 2..Len(seqs) /\ (i + 1) - 1 = i
        BY <1>1, <1>2, <3>2
      <4>2. PICK path : path = seqs[i + 1]
        OBVIOUS
      <4>3. f[i] \in Seq(Commands) /\ path \in Seq(Commands) /\ Runs(RunCmds(start, f[i]))
        BY <1>5, <2>3, <4>1, <4>2
      <4>4. Runs(RunCmds(RunCmds(start, f[i]), path))
        BY <1>6, <4>2, <4>3
      <4>5. f[i + 1] = f[(i + 1) - 1] \o path
        BY <2>1, <4>1, <4>2, Zenon
      <4>6. f[(i + 1) - 1] = f[i]
        BY <4>1
      <4>7. f[i] \o path \in Seq(Commands)
        BY <4>3, Join
      <4>8. RunCmds(start, f[i] \o path) = RunCmds(RunCmds(start, f[i]), path)
        BY <4>3, RunConcat
      <4> QED BY <4>4, <4>5, <4>6, <4>7, <4>8, Zenon
    <3> QED BY <3>1, <3>2
  <2> HIDE DEF T
  <2>4. Len(ips) \in T
    BY <1>1, <2>2, <2>3, SetInduction
  <2>5. Runs(RunCmds(start, f[Len(ips)]))
    BY <1>1, <1>8, <2>4 DEF T
  <2> QED BY <1>2, <1>3, <2>1, <2>5, Zenon DEF Runs
<1> QED BY <1>7, <1>8
-----------------------------------------------------------------------------
(***************************************************************************)
(* Calls and jobs.                                                         *)
(***************************************************************************)
\* The states a sequence of calls goes through.
CallTrace(f, acc, calls) ==
    f[0] = acc /\ \A i \in 1..Len(calls) : f[i] = ExecCall(f[i - 1], calls[i])

\* RunCalls is well defined.
LEMMA RunCallsTrace ==
    ASSUME NEW acc, NEW calls, Len(calls) \in Nat
    PROVE  \E f : CallTrace(f, acc, calls) /\ RunCalls(acc, calls) = f[Len(calls)]
<1> DEFINE Step(f, i) == IF i = 0 THEN acc ELSE ExecCall(f[i - 1], calls[i])
           T == {m \in Nat : \E f : f = [i \in 0..m |-> Step(f, i)]}
<1>1. 0 \in T
  <2>1. [i \in 0..0 |-> acc] = [i \in 0..0 |-> Step([j \in 0..0 |-> acc], i)]
    OBVIOUS
  <2> QED BY <2>1
<1>2. ASSUME NEW m \in Nat, m \in T
      PROVE  m + 1 \in T
  <2>1. PICK f : f = [i \in 0..m |-> Step(f, i)]
    BY <1>2
  <2> DEFINE g == [i \in 0..(m + 1) |-> IF i <= m THEN f[i] ELSE ExecCall(f[m], calls[m + 1])]
  <2>2. ASSUME NEW i \in 0..(m + 1)
        PROVE  g[i] = Step(g, i)
    <3>1. CASE i = m + 1
      BY <3>1
    <3>2. CASE i # m + 1
      <4>1. i \in 0..m /\ g[i] = f[i] /\ f[i] = Step(f, i)
        BY <2>1, <3>2
      <4>2. i # 0 => g[i - 1] = f[i - 1]
        BY <4>1
      <4> QED BY <4>1, <4>2
    <3> QED BY <3>1, <3>2
  <2>3. g = [i \in 0..(m + 1) |-> Step(g, i)]
    BY <2>2
  <2> HIDE DEF g
  <2>4. \E h : h = [i \in 0..(m + 1) |-> Step(h, i)]
    BY <2>3
  <2> QED BY <2>4
<1> HIDE DEF T
<1>3. Len(calls) \in T
  BY <1>1, <1>2, SetInduction
<1> DEFINE R(f) == f = [i \in 0..Len(calls) |-> Step(f, i)]
<1>4. PICK f : f = CHOOSE g : R(g)
  OBVIOUS
<1>5. R(f)
  BY <1>3, <1>4 DEF T
<1>6. RunCalls(acc, calls) = f[Len(calls)]
  BY <1>4 DEF RunCalls
<1>7. CallTrace(f, acc, calls)
  BY <1>5 DEF CallTrace
<1> QED BY <1>6, <1>7

\* How a call ends follows from how its commands do.
LEMMA ExecCallResult ==
    ASSUME NEW acc, Acc(acc), NEW cmds, NEW fatal \in BOOLEAN, NEW done,
           done = RunCmds(State(acc.K, "run"), cmds), Acc(done)
    PROVE  \/ acc.next = "failed" /\ ExecCall(acc, Call(cmds, fatal)) = acc
           \/ /\ acc.next # "failed" /\ done.next = "failed" /\ ~fatal
              /\ ExecCall(acc, Call(cmds, fatal)) = State(done.K, "run")
           \/ /\ acc.next # "failed" /\ (done.next # "failed" \/ fatal)
              /\ ExecCall(acc, Call(cmds, fatal)) = done
<1>1. [acc EXCEPT !.next = "run"] = State(acc.K, "run")
  BY DEF Acc, State
<1>2. [done EXCEPT !.next = "run"] = State(done.K, "run")
  BY DEF Acc, State
<1>3. Call(cmds, fatal).cmds = cmds /\ Call(cmds, fatal).fatal = fatal
  BY DEF Call
<1>4. ExecCall(acc, Call(cmds, fatal)) =
          IF acc.next = "failed" THEN acc
          ELSE IF done.next = "failed" /\ ~fatal THEN State(done.K, "run")
          ELSE done
  BY <1>1, <1>2, <1>3, Zenon DEF ExecCall
<1> QED BY <1>4, Zenon

\* The calls of the controllers.
Calls == [cmds : Seq(Commands) \ {<<>>}, fatal : BOOLEAN]

\* The ones whose error, if it is returned, does not occur.
SafeCalls ==
    {x \in Calls : x.fatal /\ TextsApart =>
        \A L : Wired(L) => RunCmds(State(L, "run"), x.cmds).next # "failed"}

\* What is kept from call to call: the tunnels are right, and, unless a text is
\* mistaken for another, no fatal call has failed.
Kept(acc) == Acc(acc) /\ Wired(acc.K) /\ (TextsApart => acc.next # "failed")

\* A safe call keeps that.
LEMMA CallKept ==
    ASSUME NEW acc, Kept(acc), NEW x \in SafeCalls
    PROVE  Kept(ExecCall(acc, x))
<1>1. PICK cmds, fatal : cmds = x.cmds /\ fatal = x.fatal
  OBVIOUS
<1>2. x = Call(cmds, fatal) /\ cmds \in Seq(Commands) /\ fatal \in BOOLEAN
  BY <1>1 DEF SafeCalls, Calls, Call
<1>3. PICK done : done = RunCmds(State(acc.K, "run"), cmds)
  OBVIOUS
<1>4. Acc(State(acc.K, "run")) /\ State(acc.K, "run").K = acc.K
  BY DEF Acc, State
<1>5. Acc(done) /\ Wired(done.K)
  BY <1>2, <1>3, <1>4, RunWired DEF Kept
<1>6. fatal /\ TextsApart => done.next # "failed"
  BY <1>1, <1>3 DEF SafeCalls, Kept
<1>7. PICK end : end = ExecCall(acc, x)
  OBVIOUS
<1>8. \/ acc.next = "failed" /\ end = acc
      \/ ~fatal /\ end = State(done.K, "run")
      \/ (done.next # "failed" \/ fatal) /\ end = done
  BY <1>2, <1>3, <1>5, <1>7, ExecCallResult DEF Kept
<1>9. /\ State(done.K, "run").K = done.K /\ State(done.K, "run").next = "run"
      /\ Acc(State(done.K, "run"))
  BY DEF Acc, State
<1>10. Kept(end)
  BY <1>5, <1>6, <1>8, <1>9 DEF Kept
<1> QED BY <1>7, <1>10

\* So do any number of them.
LEMMA CallsKept ==
    ASSUME NEW acc, Kept(acc), NEW calls \in Seq(SafeCalls)
    PROVE  Kept(RunCalls(acc, calls))
<1>1. Len(calls) \in Nat /\ \A i \in 1..Len(calls) : calls[i] \in SafeCalls
  OBVIOUS
<1>2. PICK f : CallTrace(f, acc, calls) /\ RunCalls(acc, calls) = f[Len(calls)]
  BY <1>1, RunCallsTrace
<1> DEFINE T == {i \in Nat : i <= Len(calls) => Kept(f[i])}
<1>3. 0 \in T
  BY <1>2 DEF CallTrace
<1>4. ASSUME NEW i \in Nat, i \in T PROVE i + 1 \in T
  <2> SUFFICES ASSUME i + 1 <= Len(calls) PROVE Kept(f[i + 1])
    OBVIOUS
  <2>1. i + 1 \in 1..Len(calls) /\ (i + 1) - 1 = i /\ i <= Len(calls)
    BY <1>1
  <2>2. f[i + 1] = ExecCall(f[i], calls[i + 1]) /\ calls[i + 1] \in SafeCalls
    BY <1>1, <1>2, <2>1 DEF CallTrace
  <2>3. Kept(f[i])
    BY <1>4, <2>1
  <2> QED BY <2>2, <2>3, CallKept
<1> HIDE DEF T
<1>5. Len(calls) \in T
  BY <1>1, <1>3, <1>4, SetInduction
<1> QED BY <1>1, <1>2, <1>5 DEF T

\* A call whose error is logged is safe.
LEMMA LoggedCall ==
    ASSUME NEW cmds \in Seq(Commands), cmds # <<>>
    PROVE  Call(cmds, FALSE) \in SafeCalls
<1>1. PICK x : x = Call(cmds, FALSE)
  OBVIOUS
<1>2. x.fatal = FALSE /\ x \in Calls
  BY <1>1 DEF Call, Calls
<1> QED BY <1>1, <1>2 DEF SafeCalls

\* The calls of a gateway.
LEMMA GatewaySafe ==
    ASSUME NEW n, NEW s \in Sets, NEW r, r.dst \in Dst, r.eip \in Eip,
           NEW ips \in Seq(DOMAIN Host),
           \A c \in ToSet(doGatewyProcessing(n, s, r, ips, {})) : c.cmds # <<>>
    PROVE  doGatewyProcessing(n, s, r, ips, {}) \in Seq(SafeCalls)
<1>1. PICK paths : paths = ReturnPaths(n, ips, {})
  OBVIOUS
<1>2. PICK a, b, c : /\ a = Call(paths, TRUE)
                     /\ b = Call(AddStaticIptablesRule(s, ips, r.dst, r.eip), FALSE)
                     /\ c = Call(ConfigureStaticIP(r.eip), FALSE)
  OBVIOUS
<1>3. PICK first, last : first = (IF paths = <<>> THEN <<>> ELSE <<a>>) /\ last = <<b, c>>
  OBVIOUS
<1>4. doGatewyProcessing(n, s, r, ips, {}) = first \o last
  BY <1>1, <1>2, <1>3, Zenon DEF doGatewyProcessing
<1>5. paths \in Seq(Commands)
  BY <1>1, ReturnPathsCommands
<1>6. paths # <<>> => a \in SafeCalls
  <2> SUFFICES ASSUME paths # <<>> PROVE a \in SafeCalls
    OBVIOUS
  <2>1. a.cmds = paths /\ a \in Calls
    BY <1>2, <1>5 DEF Call, Calls
  <2>2. TextsApart => \A L : Wired(L) => RunCmds(State(L, "run"), paths).next # "failed"
    BY <1>1, PathsRun
  <2> QED BY <2>1, <2>2 DEF SafeCalls
<1>7. b.cmds # <<>> /\ c.cmds # <<>>
  <2>1. /\ (first \o last)[Len(first) + 1] = b /\ (first \o last)[Len(first) + 2] = c
        /\ Len(first) \in Nat /\ Len(first \o last) = Len(first) + 2
    BY <1>3
  <2>2. b \in ToSet(first \o last) /\ c \in ToSet(first \o last)
    BY <2>1 DEF ToSet
  <2> QED BY <1>4, <2>2
<1>8. b \in SafeCalls /\ c \in SafeCalls
  <2>1. /\ AddStaticIptablesRule(s, ips, r.dst, r.eip) \in Seq(Commands)
        /\ ConfigureStaticIP(r.eip) \in Seq(Commands)
    BY GatewayOperations
  <2>2. /\ b.cmds = AddStaticIptablesRule(s, ips, r.dst, r.eip)
        /\ c.cmds = ConfigureStaticIP(r.eip)
    BY <1>2 DEF Call
  <2> QED BY <1>2, <1>7, <2>1, <2>2, LoggedCall
<1>9. first \in Seq(SafeCalls) /\ last \in Seq(SafeCalls)
  BY <1>3, <1>6, <1>8
<1>10. first \o last \in Seq(SafeCalls)
  BY <1>9, Join
<1> QED BY <1>4, <1>10, Zenon
\* The calls for a rule.
LEMMA RuleCallsSafe ==
    ASSUME NEW n, NEW kind, NEW k \in Key, NEW o, kind = "director" => o.gw \in Node,
           NEW i \in Nat, o.rules[i] \in AllRules,
           NEW job, job = [kind |-> kind, key |-> k, obj |-> o, rule |-> i],
           NEW ips, ips = Pods[o.rules[i].svc]
    PROVE  RuleCalls(n, job, ips, {}) \in Seq(SafeCalls)
<1>1. PICK s, r : s = generateRuleId(k, i) /\ r = o.rules[i]
  OBVIOUS
<1>2. s \in Sets /\ r.dst \in Dst /\ r.eip \in Eip /\ ips \in Seq(DOMAIN Host)
  BY <1>1, WrittenAssumption, PodsAssumption DEF Sets, Dst, Eip
<1>3. PICK calls : calls = RuleCalls(n, job, ips, {})
  OBVIOUS
<1>4. job.kind = kind /\ job.key = k /\ job.obj = o /\ job.rule = i
  OBVIOUS
<1>5. calls = CASE kind = "gateway" -> doGatewyProcessing(n, s, r, ips, {})
                [] kind = "director" -> doDirectorProcessing(s, r, ips, o.gw)
                [] kind = "demote" -> ClearGateway(s, r)
                [] kind = "promote" -> ClearDirector(s, r)
                [] kind = "delete" -> DeleteRule(s, r)
                [] OTHER -> <<>>
  BY <1>1, <1>3, <1>4, Zenon DEF RuleCalls
<1>6. ASSUME NEW c \in ToSet(calls) PROVE c.cmds # <<>>
  <2>1. Len(ips) \in Nat
    BY <1>2
  <2>2. AllComplete(job.kind, job.key, calls)
    BY <1>3, <2>1, RuleCallsComplete
  <2>3. PICK j \in 1..Len(calls) : c = calls[j]
    BY DEF ToSet
  <2>4. Len(c.cmds) # 0
    BY <2>2, <2>3 DEF AllComplete, Complete, Whole
  <2>5. Len(<<>>) = 0
    OBVIOUS
  <2> QED BY <2>4, <2>5
<1>7. CASE kind = "gateway"
  <2>1. calls = doGatewyProcessing(n, s, r, ips, {})
    BY <1>5, <1>7
  <2> QED BY <1>2, <1>3, <1>6, <2>1, GatewaySafe
<1>8. ASSUME NEW cmds \in Seq(Commands), calls = <<Call(cmds, FALSE)>>
      PROVE  calls \in Seq(SafeCalls)
  <2>1. PICK x : x = Call(cmds, FALSE)
    OBVIOUS
  <2>2. calls = <<x>>
    BY <1>8, <2>1, Zenon
  <2>3. x \in ToSet(calls)
    BY <2>2 DEF ToSet
  <2>4. x.cmds = cmds
    BY <2>1 DEF Call
  <2>5. x \in SafeCalls
    BY <1>6, <2>1, <2>3, <2>4, LoggedCall
  <2> QED BY <2>2, <2>5
<1>9. ASSUME NEW a \in Seq(Commands), NEW b \in Seq(Commands),
             calls = <<Call(a, FALSE), Call(b, FALSE)>>
      PROVE  calls \in Seq(SafeCalls)
  <2>1. PICK x, y : x = Call(a, FALSE) /\ y = Call(b, FALSE)
    OBVIOUS
  <2>2. calls = <<x, y>>
    BY <1>9, <2>1, Zenon
  <2>3. x \in ToSet(calls) /\ y \in ToSet(calls)
    BY <2>2 DEF ToSet
  <2>4. x.cmds = a /\ y.cmds = b
    BY <2>1 DEF Call
  <2>5. x \in SafeCalls /\ y \in SafeCalls
    BY <1>6, <2>1, <2>3, <2>4, LoggedCall
  <2> QED BY <2>2, <2>5
<1>10. CASE kind = "director"
  <2>1. PICK cmds : cmds = AddRouteToGateway(s, ips, r.dst, o.gw)
    OBVIOUS
  <2>2. cmds \in Seq(Commands)
    BY <1>2, <1>10, <2>1, DirectorOperations
  <2>3. calls = doDirectorProcessing(s, r, ips, o.gw)
    BY <1>5, <1>10
  <2>4. calls = <<Call(cmds, FALSE)>>
    BY <2>1, <2>3, Zenon DEF doDirectorProcessing
  <2> QED BY <1>3, <1>8, <2>2, <2>4
<1>11. CASE kind = "delete"
  <2>1. PICK cmds : cmds = DeleteRouteToGateway(s, r.dst)
    OBVIOUS
  <2>2. cmds \in Seq(Commands)
    BY <1>2, <2>1, DirectorOperations
  <2>3. calls = DeleteRule(s, r)
    BY <1>5, <1>11
  <2>4. calls = <<Call(cmds, FALSE)>>
    BY <2>1, <2>3, Zenon DEF DeleteRule
  <2> QED BY <1>3, <1>8, <2>2, <2>4
<1>12. CASE kind = "demote"
  <2>1. PICK a, b : a = ClearStaticIptablesRule(s, r.dst, r.eip) /\ b = RemoveStaticIP(r.eip)
    OBVIOUS
  <2>2. a \in Seq(Commands) /\ b \in Seq(Commands)
    BY <1>2, <2>1, GatewayOperations
  <2>3. calls = ClearGateway(s, r)
    BY <1>5, <1>12
  <2>4. calls = <<Call(a, FALSE), Call(b, FALSE)>>
    BY <2>1, <2>3, Zenon DEF ClearGateway
  <2> QED BY <1>3, <1>9, <2>2, <2>4
<1>13. CASE kind = "promote"
  <2>1. PICK a, b : a = ClearStaleRouteToGateway(s, r.dst) /\ b = RemoveStaticIP(r.eip)
    OBVIOUS
  <2>2. a \in Seq(Commands) /\ b \in Seq(Commands)
    BY <1>2, <2>1, DirectorOperations, GatewayOperations
  <2>3. calls = ClearDirector(s, r)
    BY <1>5, <1>13
  <2>4. calls = <<Call(a, FALSE), Call(b, FALSE)>>
    BY <2>1, <2>3, Zenon DEF ClearDirector
  <2> QED BY <1>3, <1>9, <2>2, <2>4
<1>14. CASE kind \notin {"gateway", "director", "demote", "promote", "delete"}
  <2>1. calls = <<>>
    BY <1>5, <1>14
  <2>2. <<>> \in Seq(SafeCalls)
    OBVIOUS
  <2> QED BY <1>3, <2>1, <2>2, Zenon
<1> QED BY <1>7, <1>10, <1>11, <1>12, <1>13, <1>14

\* What a controller reads: a list of rules, and a gateway if it directs to one.
Readable(kind, o) ==
    o.rules \in Seq(AllRules) /\ (kind = "director" => o.gw \in Node)

\* The calls of a job.
LEMMA JobCallsSafe ==
    ASSUME NEW n, NEW kind, NEW k \in Key, NEW o, Readable(kind, o)
    PROVE  JobCalls(n, kind, k, o) \in Seq(SafeCalls)
<1> DEFINE job(i) == [kind |-> kind, key |-> k, obj |-> o, rule |-> i]
<1>1. PICK seqs : seqs = [i \in 1..Len(o.rules) |->
                             RuleCalls(n, job(i), Pods[o.rules[i].svc], {})]
  OBVIOUS
<1>2. JobCalls(n, kind, k, o) = FlattenSeq(seqs)
  BY <1>1, Zenon DEF JobCalls
<1>3. ASSUME NEW i \in 1..Len(o.rules)
      PROVE  RuleCalls(n, job(i), Pods[o.rules[i].svc], {}) \in Seq(SafeCalls)
  <2>1. PICK j, ips : j = job(i) /\ ips = Pods[o.rules[i].svc]
    OBVIOUS
  <2>2. i \in Nat /\ o.rules[i] \in AllRules /\ (kind = "director" => o.gw \in Node)
    BY DEF Readable
  <2>3. RuleCalls(n, j, ips, {}) \in Seq(SafeCalls)
    BY <2>1, <2>2, RuleCallsSafe
  <2> QED BY <2>1, <2>3, Zenon
<1> HIDE DEF job
<1>4. Len(o.rules) \in Nat
  BY DEF Readable
<1>5. Len(seqs) = Len(o.rules) /\ (Len(seqs) = 0 => seqs = <<>>)
  BY <1>1, <1>4
<1>6. \A i \in 1..Len(seqs) : seqs[i] \in Seq(SafeCalls)
  BY <1>1, <1>3, <1>5
<1> QED BY <1>2, <1>4, <1>5, <1>6, JoinAll

\* A job that nothing disturbs keeps what its calls keep.
LEMMA JobKept ==
    ASSUME NEW n, NEW kernel, Wired(kernel), NEW kind, NEW k \in Key, NEW o, Readable(kind, o)
    PROVE  Kept(RunJob(n, kernel, kind, k, o))
<1>1. PICK start : start = State(kernel, "run")
  OBVIOUS
<1>2. Kept(start)
  BY <1>1 DEF Kept, Acc, State
<1>3. Kept(RunCalls(start, JobCalls(n, kind, k, o)))
  BY <1>2, JobCallsSafe, CallsKept
<1> QED BY <1>1, <1>3, Zenon DEF RunJob, State

-----------------------------------------------------------------------------
(***************************************************************************)
(* One command of a job, whatever else runs beside it.                     *)
(***************************************************************************)
\* Safe calls are calls.
LEMMA SafeAreCalls ==
    ASSUME NEW calls \in Seq(SafeCalls)
    PROVE  calls \in Seq(Calls)
<1>1. SafeCalls \subseteq Calls
  BY DEF SafeCalls
<1> HIDE DEF SafeCalls, Calls
<1> QED BY <1>1

\* The next command.
LEMMA FirstOfCalls ==
    ASSUME NEW calls \in Seq(Calls), calls # <<>>
    PROVE  Ahead(calls) \in Commands /\ Tail(calls) \in Seq(Calls)
<1>1. Head(calls) \in Calls /\ Tail(calls) \in Seq(Calls)
  OBVIOUS
<1>2. PICK cmds : cmds = Head(calls).cmds
  OBVIOUS
<1>3. cmds \in Seq(Commands) /\ cmds # <<>>
  BY <1>1, <1>2 DEF Calls
<1>4. Head(cmds) \in Commands
  BY <1>3
<1> QED BY <1>1, <1>2, <1>4 DEF Ahead

\* It keeps the tunnels right.
LEMMA AfterWired ==
    ASSUME NEW L, Wired(L), NEW calls \in Seq(Calls), calls # <<>>
    PROVE  Wired(After(L, Ahead(calls)))
<1>1. PICK c : c = Ahead(calls)
  OBVIOUS
<1>2. c \in Commands
  BY <1>1, FirstOfCalls
<1>3. Wired(After(L, c))
  BY <1>2, EffectWired DEF After
<1> QED BY <1>1, <1>3

\* What is left are calls.
LEMMA LeftCalls ==
    ASSUME NEW L, NEW calls \in Seq(Calls), calls # <<>>
    PROVE  Left(L, calls) \in Seq(Calls)
<1>1. Head(calls) \in Calls /\ Tail(calls) \in Seq(Calls)
  OBVIOUS
<1>2. PICK cmds : cmds = Head(calls).cmds
  OBVIOUS
<1>3. cmds \in Seq(Commands) /\ Len(cmds) \in Nat /\ Head(calls).fatal \in BOOLEAN
  BY <1>1, <1>2 DEF Calls
<1>4. ASSUME NEW m \in {1, 2} PROVE Rest(calls, m) \in Seq(Calls)
  <2>1. CASE Len(cmds) <= m
    <3>1. Rest(calls, m) = Tail(calls)
      BY <1>2, <2>1 DEF Rest
    <3> QED BY <1>1, <3>1
  <2>2. CASE ~(Len(cmds) <= m)
    <3>1. PICK q : q = SubSeq(cmds, m + 1, Len(cmds))
      OBVIOUS
    <3>2. q \in Seq(Commands) /\ Len(q) = Len(cmds) - m
      <4>1. m + 1 \in 1..Len(cmds) /\ Len(cmds) \in 1..Len(cmds)
        BY <1>3, <2>2
      <4> HIDE DEF Commands
      <4> QED BY <1>3, <3>1, <4>1
    <3>3. Len(q) # 0 /\ Len(<<>>) = 0
      BY <1>3, <2>2, <3>2
    <3>4. q # <<>>
      BY <3>3
    <3>5. PICK x : x = Call(q, Head(calls).fatal)
      OBVIOUS
    <3>6. x \in Calls
      BY <1>3, <3>2, <3>4, <3>5 DEF Calls, Call
    <3>7. Rest(calls, m) = <<x>> \o Tail(calls)
      <4>1. Rest(calls, m) = <<Call(SubSeq(cmds, m + 1, Len(cmds)), Head(calls).fatal)>> \o Tail(calls)
        BY <1>2, <2>2, Zenon DEF Rest
      <4> QED BY <3>1, <3>5, <4>1, Zenon
    <3>8. <<x>> \in Seq(Calls)
      BY <3>6
    <3> QED BY <1>1, <3>7, <3>8, Join
  <2> QED BY <2>1, <2>2
<1>5. <<>> \in Seq(Calls)
  OBVIOUS
<1>6. Left(L, calls) \in {<<>>, Tail(calls), Rest(calls, 1), Rest(calls, 2)}
  BY DEF Left
<1> QED BY <1>1, <1>4, <1>5, <1>6
=============================================================================
