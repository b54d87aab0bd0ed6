--------------------------- MODULE NodeSetupProofs ---------------------------
(***************************************************************************)
(* Proof that workers run only on a node that is set up, for any number of *)
(* workers, crashes, signals, reboots and failing steps.                   *)
(***************************************************************************)
EXTENDS NodeSetup, SequenceTheorems, TLAPS

\* The process has done the first i steps of its setup.
Past(i) ==
    \/ phase = "setup" /\ i < pc
    \/ phase \in {"sync", "serving", "returned"}

\* Jump j is in the chain.
Has(chain, j) == \E i \in 1..Len(chain) : chain[i] = j

\* POSTROUTING has no jump twice, the one to the bypass is first and the CNI's
\* is last: the controller inserts the one to its NAT chain, then the one to its
\* bypass in front of it, and the CNI plugin appends its own.
PostOK ==
    /\ net.POST \in Seq({"bypass", "nat", Masquerade})
    /\ \A i, j \in 1..Len(net.POST) :
           /\ net.POST[i] = net.POST[j] => i = j
           /\ net.POST[i] = "bypass" => i <= j
           /\ net.POST[j] = Masquerade => i <= j
    /\ Has(net.POST, "bypass") => Has(net.POST, "nat")

NetOK ==
    /\ net = [rpOff |-> net.rpOff, chains |-> net.chains, FORWARD |-> net.FORWARD,
              POST |-> net.POST, rules |-> net.rules]
    /\ net.rpOff \subseteq {"all", "default"} /\ net.chains \subseteq Chain
    /\ net.FORWARD \in {<<>>, <<"forward">>}
    /\ PostOK
    /\ net.rules \in {0, 1} /\ (net.rules = 1 => tables)

\* What each step has left in the kernel is there as long as the process lives.
StepsKept ==
    /\ Past(5) => "forward" \in net.chains
    /\ Past(6) => net.FORWARD = <<"forward">>
    /\ Past(7) => "nat" \in net.chains
    /\ Past(8) => Has(net.POST, "nat")
    /\ Past(12) => tables
    /\ Past(13) => net.rules = 1
    /\ Past(14) => "bypass" \in net.chains
    /\ Past(15) => Has(net.POST, "bypass")

ControlOK ==
    /\ phase \in {"down", "setup", "sync", "serving", "returned"}
    /\ pc \in 1..15 /\ (phase = "down" => pc = 1)
    /\ listed \in BOOLEAN /\ stop \in BOOLEAN /\ tables \in BOOLEAN
    /\ busy \subseteq Worker
    /\ faults \in 0..MaxFaults

IInv == ControlOK /\ NetOK /\ StepsKept

-----------------------------------------------------------------------------
\* The steps of NewEgressIPController, Run and both Setups, one by one.
LEMMA StepsAre ==
    /\ Len(Steps) = 15
    /\ Steps[1] = Do("GetNodeObject", None)
    /\ Steps[2] = Do("rp_filter", "all") /\ Steps[3] = Do("rp_filter", "default")
    /\ Steps[4] = Do("iptables", None)
    /\ Steps[5] = Do("NewChain", "forward") /\ Steps[6] = Do("AppendJump", "forward")
    /\ Steps[7] = Do("NewChain", "nat") /\ Steps[8] = Do("InsertJump", "nat")
    /\ Steps[9] = Do("iptables", None) /\ Steps[10] = Do("GetNodeObject", None)
    /\ Steps[11] = Do("GetNodeIP", None)
    /\ Steps[12] = Do("AddTable", None) /\ Steps[13] = Do("AddRule", None)
    /\ Steps[14] = Do("NewChain", "bypass") /\ Steps[15] = Do("InsertJump", "bypass")
  BY DEF Steps, NewEgressIPController, DisableRpFilter, NewEgressGateway, GatewaySetup,
         NewEgressDirector, DirectorSetup

\* What adding a jump to FORWARD does.
LEMMA AppendForward ==
    ASSUME NEW F \in {<<>>, <<"forward">>}
    PROVE  appendJump(F, "forward") = <<"forward">>
<1>1. CASE F = <<>>
  BY <1>1 DEF appendJump, ToSet
<1>2. CASE F = <<"forward">>
  BY <1>2 DEF appendJump, ToSet
<1> QED BY <1>1, <1>2

\* The jumps of a chain are the elements of the sequence.
LEMMA HasIsIn ==
    ASSUME NEW S, NEW P \in Seq(S), NEW j
    PROVE  Has(P, j) <=> j \in ToSet(P)
  BY DEF Has, ToSet

\* A jump that is inserted is first, and the others follow in their order.
LEMMA InsertFirst ==
    ASSUME NEW S, NEW P \in Seq(S), NEW j \in S
    PROVE  /\ <<j>> \o P \in Seq(S) /\ Len(<<j>> \o P) = Len(P) + 1
           /\ (<<j>> \o P)[1] = j
           /\ \A i \in 2..(Len(P) + 1) : (<<j>> \o P)[i] = P[i - 1]
  OBVIOUS

\* Inserting the jump to the NAT chain or, once that one is there, the jump to
\* the bypass keeps the order of POSTROUTING.
LEMMA InsertKeepsOrder ==
    ASSUME PostOK, NEW j \in {"bypass", "nat"},
           j = "bypass" => Has(net.POST, "nat"),
           net'.POST = insertJump(net.POST, j)
    PROVE  /\ PostOK' /\ Has(net'.POST, j)
           /\ \A x : Has(net.POST, x) => Has(net'.POST, x)
<1> DEFINE S == {"bypass", "nat", Masquerade}
           P == net.POST
           Q == net'.POST
<1>1. P \in Seq(S) /\ Len(P) \in Nat
  BY DEF PostOK
<1>2. CASE Has(P, j)
  <2>1. Q = P
    BY <1>1, <1>2, HasIsIn DEF insertJump
  <2> QED BY <1>2, <2>1 DEF PostOK
<1>3. CASE ~Has(P, j)
  <2>1. Q = <<j>> \o P
    BY <1>1, <1>3, HasIsIn DEF insertJump
  <2>2. /\ Q \in Seq(S) /\ Len(Q) = Len(P) + 1 /\ Q[1] = j
        /\ \A i \in 2..Len(Q) : Q[i] = P[i - 1]
    BY <1>1, <2>1, InsertFirst
  <2>3. \A i \in 2..Len(Q) : i - 1 \in 1..Len(P)
    BY <1>1, <2>2
  <2>4. \A x : Has(P, x) => Has(Q, x)
    <3> SUFFICES ASSUME NEW x, NEW i \in 1..Len(P), P[i] = x PROVE Has(Q, x)
      BY DEF Has
    <3>1. i + 1 \in 2..Len(Q) /\ Q[i + 1] = x
      BY <1>1, <2>2
    <3> QED BY <3>1 DEF Has
  <2>5. Has(Q, j)
    BY <1>1, <2>2 DEF Has
  <2>6. Has(Q, "bypass") => Has(Q, "nat")
    <3>1. CASE j = "bypass"
      BY <2>4, <3>1
    <3>2. CASE j = "nat"
      BY <2>5, <3>2
    <3> QED BY <3>1, <3>2
  <2>7. ASSUME NEW a \in 1..Len(Q), NEW b \in 1..Len(Q)
        PROVE  /\ Q[a] = Q[b] => a = b
               /\ Q[a] = "bypass" => a <= b
               /\ Q[b] = Masquerade => a <= b
    <3>1. j # Masquerade
      BY MasqueradeAssumption DEF Chain
    <3>2. \A i \in 2..Len(Q) : Q[i] # j
      BY <1>3, <2>2, <2>3 DEF Has
    <3>3. ~Has(P, "bypass")
      BY <1>3 DEF PostOK
    <3>4. \A i \in 2..Len(Q) : Q[i] # "bypass"
      BY <2>2, <2>3, <3>3 DEF Has
    <3>5. CASE a = 1
      BY <1>1, <2>2, <3>2, <3>5
    <3>6. CASE a # 1 /\ b = 1
      BY <1>1, <2>2, <3>1, <3>2, <3>4, <3>6
    <3>7. CASE a # 1 /\ b # 1
      <4>1. a - 1 \in 1..Len(P) /\ b - 1 \in 1..Len(P) /\ Q[a] = P[a - 1] /\ Q[b] = P[b - 1]
        BY <1>1, <2>2, <3>7
      <4> QED BY <4>1 DEF PostOK
    <3> QED BY <3>5, <3>6, <3>7
  <2> QED BY <2>2, <2>4, <2>5, <2>6, <2>7 DEF PostOK
<1> QED BY <1>2, <1>3

\* So does the CNI plugin, which appends its jump.
LEMMA AppendKeepsOrder ==
    ASSUME PostOK, Masquerade \notin ToSet(net.POST),
           net'.POST = Append(net.POST, Masquerade)
    PROVE  PostOK' /\ \A x : Has(net.POST, x) => Has(net'.POST, x)
<1> DEFINE S == {"bypass", "nat", Masquerade}
           P == net.POST
           Q == net'.POST
<1>1. P \in Seq(S) /\ Len(P) \in Nat
  BY DEF PostOK
<1>2. /\ Q \in Seq(S) /\ Len(Q) = Len(P) + 1 /\ Q[Len(Q)] = Masquerade
      /\ \A i \in 1..Len(P) : Q[i] = P[i]
  BY <1>1
<1>3. \A i \in 1..Len(P) : P[i] # Masquerade
  BY <1>1, HasIsIn DEF Has
<1>4. \A x : Has(P, x) => Has(Q, x)
  BY <1>1, <1>2 DEF Has
<1>5. Masquerade \notin {"bypass", "nat"}
  BY MasqueradeAssumption DEF Chain
<1>6. Has(Q, "bypass") => Has(Q, "nat")
  <2>1. Has(Q, "bypass") => Has(P, "bypass")
    BY <1>1, <1>2, <1>5 DEF Has
  <2> QED BY <1>4, <2>1 DEF PostOK
<1>7. ASSUME NEW a \in 1..Len(Q), NEW b \in 1..Len(Q)
      PROVE  /\ Q[a] = Q[b] => a = b
             /\ Q[a] = "bypass" => a <= b
             /\ Q[b] = Masquerade => a <= b
  <2>1. CASE a = Len(Q)
    BY <1>1, <1>2, <1>3, <1>5, <2>1
  <2>2. CASE a # Len(Q) /\ b = Len(Q)
    BY <1>1, <1>2, <1>3, <2>2
  <2>3. CASE a # Len(Q) /\ b # Len(Q)
    <3>1. a \in 1..Len(P) /\ b \in 1..Len(P) /\ Q[a] = P[a] /\ Q[b] = P[b]
      BY <1>1, <1>2, <2>3
    <3> QED BY <3>1 DEF PostOK
  <2> QED BY <2>1, <2>2, <2>3
<1> QED BY <1>2, <1>4, <1>6, <1>7 DEF PostOK

-----------------------------------------------------------------------------
\* A step of the setup that was begun anew has not been done before it is run.
LEMMA PastStep ==
    ASSUME ControlOK, Step, NEW i \in 1..15
    PROVE  /\ ControlOK'
           /\ Past(i)' => Past(i) \/ i = pc
<1>1. phase = "setup" /\ pc \in 1..15 /\ tables \in BOOLEAN
  BY DEF Step, ControlOK
<1>2. \/ pc = 15 /\ phase' = "sync" /\ pc' = pc
      \/ pc # 15 /\ phase' = phase /\ pc' = pc + 1
  BY StepsAre DEF Step
<1>3. tables' \in BOOLEAN
  BY <1>1 DEF Step
<1>4. ControlOK'
  BY <1>1, <1>2, <1>3 DEF Step, ControlOK
<1>5. Past(i)' => Past(i) \/ i = pc
  BY <1>1, <1>2 DEF Past
<1> QED BY <1>4, <1>5

\* Changes of the kernel that take nothing away.
Grows ==
    /\ net.chains \subseteq net'.chains
    /\ net.FORWARD = <<"forward">> => net'.FORWARD = <<"forward">>
    /\ \A j : Has(net.POST, j) => Has(net'.POST, j)
    /\ tables => tables'
    /\ net.rules = 1 => net'.rules = 1

\* What a step of the setup does, by its number.
LEMMA StepNet ==
    ASSUME IInv, Step
    PROVE  /\ NetOK' /\ Grows
           /\ pc = 5 => "forward" \in net'.chains
           /\ pc = 6 => net'.FORWARD = <<"forward">>
           /\ pc = 7 => "nat" \in net'.chains
           /\ pc = 8 => Has(net'.POST, "nat")
           /\ pc = 12 => tables'
           /\ pc = 13 => net'.rules = 1
           /\ pc = 14 => "bypass" \in net'.chains
           /\ pc = 15 => Has(net'.POST, "bypass")
<1>1. /\ phase = "setup" /\ pc \in 1..15 /\ tables \in BOOLEAN
      /\ ~StepFails(Steps[pc]) /\ net' = StepEffect(Steps[pc])
      /\ tables' = (tables \/ Steps[pc].op = "AddTable")
  BY DEF IInv, ControlOK, Step
<1>2. ASSUME UNCHANGED net.POST PROVE PostOK' /\ \A j : Has(net.POST, j) => Has(net'.POST, j)
  BY <1>2 DEF IInv, NetOK, PostOK
<1>3. CASE pc \in {1, 4, 9, 10, 11, 12}
  <2>1. /\ Steps[pc].op \in {"GetNodeObject", "iptables", "GetNodeIP", "AddTable"}
        /\ pc = 12 => Steps[pc].op = "AddTable"
    BY <1>3, StepsAre DEF Do
  <2>2. net' = net
    BY <1>1, <2>1 DEF StepEffect
  <2>3. (tables => tables') /\ (pc = 12 => tables')
    BY <1>1, <2>1, Zenon
  <2>4. PostOK'
    BY <1>2, <2>2
  <2> QED BY <1>3, <2>2, <2>3, <2>4 DEF IInv, NetOK, Grows
<1>4. CASE pc \in {2, 3}
  <2>1. Steps[pc].op = "rp_filter" /\ Steps[pc].arg \in {"all", "default"}
    BY <1>4, StepsAre DEF Do
  <2>2. net' = [net EXCEPT !.rpOff = @ \union {Steps[pc].arg}]
    BY <1>1, <2>1 DEF StepEffect
  <2>3. /\ net' = [rpOff |-> net'.rpOff, chains |-> net.chains, FORWARD |-> net.FORWARD,
                   POST |-> net.POST, rules |-> net.rules]
        /\ net'.rpOff \subseteq {"all", "default"}
    BY <2>1, <2>2 DEF IInv, NetOK
  <2>4. PostOK' /\ tables' = tables
    BY <1>1, <1>2, <2>1, <2>3
  <2> QED BY <1>4, <2>3, <2>4 DEF IInv, NetOK, Grows
<1>5. CASE pc \in {5, 7, 14}
  <2> DEFINE c == IF pc = 5 THEN "forward" ELSE IF pc = 7 THEN "nat" ELSE "bypass"
  <2>0. Steps[pc].op = "NewChain" /\ Steps[pc].arg = c /\ c \in Chain
    BY <1>5, StepsAre DEF Do, Chain
  <2>1. net' = [net EXCEPT !.chains = @ \union {c}] /\ c \in Chain
    BY <1>1, <2>0 DEF StepEffect
  <2> HIDE DEF c
  <2>2. /\ net' = [rpOff |-> net.rpOff, chains |-> net'.chains, FORWARD |-> net.FORWARD,
                   POST |-> net.POST, rules |-> net.rules]
        /\ net'.chains = net.chains \union {c} /\ net'.chains \subseteq Chain
    BY <2>1 DEF IInv, NetOK
  <2>3. PostOK' /\ tables' = tables
    BY <1>1, <1>2, <1>5, <2>2, StepsAre DEF Do
  <2> QED BY <1>5, <2>2, <2>3 DEF IInv, NetOK, Grows, c
<1>6. CASE pc = 6
  <2>1. net' = [net EXCEPT !.FORWARD = <<"forward">>]
    BY <1>1, <1>6, StepsAre, AppendForward DEF StepEffect, Do, IInv, NetOK
  <2>2. net' = [rpOff |-> net.rpOff, chains |-> net.chains, FORWARD |-> <<"forward">>,
                POST |-> net.POST, rules |-> net.rules]
    BY <2>1 DEF IInv, NetOK
  <2>3. PostOK' /\ tables' = tables
    BY <1>1, <1>2, <1>6, <2>2, StepsAre DEF Do
  <2> QED BY <1>6, <2>2, <2>3 DEF IInv, NetOK, Grows
<1>7. CASE pc \in {8, 15}
  <2> DEFINE j == IF pc = 8 THEN "nat" ELSE "bypass"
  <2>1. net' = [net EXCEPT !.POST = insertJump(@, j)]
    BY <1>1, <1>7, StepsAre DEF StepEffect, Do
  <2>2. j = "bypass" => Has(net.POST, "nat")
    BY <1>1, <1>7 DEF IInv, StepsKept, Past
  <2>3. j \in {"bypass", "nat"}
    OBVIOUS
  <2> HIDE DEF j
  <2>4. /\ net' = [rpOff |-> net.rpOff, chains |-> net.chains, FORWARD |-> net.FORWARD,
                   POST |-> net'.POST, rules |-> net.rules]
        /\ net'.POST = insertJump(net.POST, j)
    BY <2>1 DEF IInv, NetOK
  <2>5. PostOK' /\ Has(net'.POST, j) /\ \A x : Has(net.POST, x) => Has(net'.POST, x)
    BY <2>2, <2>3, <2>4, InsertKeepsOrder DEF IInv, NetOK
  <2>6. tables' = tables
    BY <1>1, <1>7, StepsAre DEF Do
  <2> QED BY <1>7, <2>4, <2>5, <2>6 DEF IInv, NetOK, Grows, j
<1>8. CASE pc = 13
  <2>0. tables
    BY <1>1, <1>8 DEF IInv, StepsKept, Past
  <2>1. tables /\ tables'
    BY <1>1, <2>0, Zenon
  <2>2. net' = [net EXCEPT !.rules = 1]
    BY <1>1, <1>8, <2>1, StepsAre DEF StepEffect, Do, RuleListed, IInv, NetOK
  <2>3. net' = [rpOff |-> net.rpOff, chains |-> net.chains, FORWARD |-> net.FORWARD,
                POST |-> net.POST, rules |-> 1]
    BY <2>2 DEF IInv, NetOK
  <2>4. PostOK'
    BY <1>2, <2>3
  <2> QED BY <1>8, <2>1, <2>3, <2>4 DEF IInv, NetOK, Grows
<1> QED BY <1>1, <1>3, <1>4, <1>5, <1>6, <1>7, <1>8

\* The setup goes on: what it has done so far is kept.
LEMMA StepIInv ==
    ASSUME IInv, Step
    PROVE  IInv'
<1>1. ControlOK' /\ \A i \in 1..15 : Past(i)' => Past(i) \/ i = pc
  BY PastStep DEF IInv
<1>2. StepsKept'
  BY <1>1, StepNet DEF IInv, StepsKept, Grows
<1> QED BY <1>1, <1>2, StepNet DEF IInv

\* The process is gone: nothing is promised of it.
LEMMA EndsIInv ==
    ASSUME IInv, Ends, UNCHANGED <<net, tables>>, faults' \in 0..MaxFaults
    PROVE  IInv'
<1>1. ControlOK'
  <2>1. phase' = "down" /\ pc' = 1 /\ listed' = FALSE /\ busy' = {} /\ stop' = FALSE
    BY DEF Ends
  <2>2. tables' \in BOOLEAN
    BY DEF IInv, ControlOK
  <2>4. listed' \in BOOLEAN /\ stop' \in BOOLEAN /\ busy' \subseteq Worker
    BY <2>1, Zenon
  <2>5. pc' \in 1..15
    BY <2>1
  <2> QED BY <2>1, <2>2, <2>5, <2>4 DEF ControlOK
<1>2. NetOK'
  BY DEF IInv, NetOK, PostOK
<1>3. StepsKept'
  BY DEF Ends, StepsKept, Past
<1> QED BY <1>1, <1>2, <1>3 DEF IInv

\* Steps that leave the kernel alone and pass over no step of the setup that
\* the workers need.
LEMMA SameNetIInv ==
    ASSUME IInv, UNCHANGED <<net, tables>>, ControlOK',
           \A i \in 4..15 : Past(i)' => Past(i)
    PROVE  IInv'
<1>1. NetOK'
  BY DEF IInv, NetOK, PostOK
<1>2. StepsKept'
  BY DEF IInv, StepsKept
<1> QED BY <1>1, <1>2 DEF IInv

\* A fault is counted.
LEMMA FaultType == ASSUME ControlOK, Fault PROVE faults' \in 0..MaxFaults
  BY SetupBoundAssumption DEF ControlOK, Fault

\* The actions of the process other than Step.
LEMMA ProcessIInv ==
    ASSUME IInv, Process
    PROVE  IInv'
<1> USE DEF IInv
<1>1. CASE Start
  <2>1. ControlOK' /\ \A i \in 4..15 : Past(i)' => Past(i)
    BY <1>1 DEF Start, ControlOK, Past
  <2> QED BY <1>1, <2>1, SameNetIInv DEF Start
<1>2. CASE Step
  BY <1>2, StepIInv
<1>3. CASE Fatal
  <2>1. faults' \in 0..MaxFaults
    BY <1>3, FaultType DEF Fatal, ControlOK
  <2> QED BY <1>3, <2>1, EndsIInv DEF Fatal
<1>4. CASE FilterStays
  <2>1. pc \in {2, 3} /\ phase = "setup"
    BY <1>4, StepsAre DEF FilterStays, ControlOK, Do
  <2>2. ControlOK' /\ \A i \in 4..15 : Past(i)' => Past(i)
    BY <1>4, <2>1, FaultType DEF FilterStays, ControlOK, Past
  <2> QED BY <1>4, <2>2, SameNetIInv DEF FilterStays
<1>5. CASE Serve \/ Return
  <2>1. ControlOK' /\ \A i \in 4..15 : Past(i)' => Past(i)
    BY <1>5 DEF Serve, Return, ControlOK, Past
  <2> QED BY <1>5, <2>1, SameNetIInv DEF Serve, Return
<1>6. CASE SyncStopped \/ Exit
  BY <1>6, EndsIInv DEF SyncStopped, Exit, ControlOK
<1> QED BY <1>1, <1>2, <1>3, <1>4, <1>5, <1>6 DEF Process

\* The kernel starts empty.
LEMMA RebootIInv ==
    ASSUME IInv, Reboot
    PROVE  IInv'
<1>1. ControlOK'
  <2>1. phase' = "down" /\ pc' = 1 /\ listed' = FALSE /\ busy' = {} /\ stop' = FALSE
    BY DEF Reboot, Ends
  <2>2. tables' \in BOOLEAN
    BY DEF IInv, ControlOK, Reboot
  <2>3. faults' \in 0..MaxFaults
    BY FaultType DEF IInv, Reboot
  <2>4. listed' \in BOOLEAN /\ stop' \in BOOLEAN /\ busy' \subseteq Worker
    BY <2>1, Zenon
  <2>5. pc' \in 1..15
    BY <2>1
  <2> QED BY <2>1, <2>2, <2>5, <2>3, <2>4 DEF ControlOK
<1>2. PostOK'
  BY DEF Reboot, EmptyNet, PostOK, Has
<1>3. NetOK'
  BY <1>2 DEF Reboot, EmptyNet, NetOK
<1>4. StepsKept'
  BY DEF Reboot, Ends, StepsKept, Past
<1> QED BY <1>1, <1>3, <1>4 DEF IInv

\* The CNI plugin comes late.
LEMMA CniIInv ==
    ASSUME IInv, Cni
    PROVE  IInv'
<1>1. net' = [rpOff |-> net.rpOff, chains |-> net.chains, FORWARD |-> net.FORWARD,
              POST |-> Append(net.POST, Masquerade), rules |-> net.rules]
  BY DEF Cni, IInv, NetOK
<1>2. PostOK' /\ \A x : Has(net.POST, x) => Has(net'.POST, x)
  BY <1>1, AppendKeepsOrder DEF Cni, IInv, NetOK
<1>3. NetOK'
  BY <1>1, <1>2 DEF Cni, IInv, NetOK
<1>4. ControlOK' /\ \A i \in 1..15 : Past(i)' => Past(i)
  BY DEF Cni, IInv, ControlOK, Past
<1>5. StepsKept'
  BY <1>1, <1>2, <1>4 DEF Cni, IInv, StepsKept
<1> QED BY <1>3, <1>4, <1>5 DEF IInv

\* Every step keeps the inductive invariant.
LEMMA NextIInv == IInv /\ [Next]_vars => IInv'
<1> SUFFICES ASSUME IInv, [Next]_vars PROVE IInv'
  OBVIOUS
<1> USE DEF IInv
<1>1. CASE Process
  BY <1>1, ProcessIInv
<1>2. CASE List
  <2>1. ControlOK' /\ \A i \in 4..15 : Past(i)' => Past(i)
    BY <1>2 DEF List, ControlOK, Past
  <2> QED BY <1>2, <2>1, SameNetIInv DEF List
<1>3. ASSUME NEW w \in Worker, Get(w) \/ Done(w) PROVE IInv'
  <2>1. ControlOK' /\ \A i \in 4..15 : Past(i)' => Past(i)
    BY <1>3 DEF Get, Done, ControlOK, Past
  <2> QED BY <1>3, <2>1, SameNetIInv DEF Get, Done
<1>4. CASE Signal
  <2>1. faults' \in 0..MaxFaults
    BY <1>4, FaultType DEF Signal
  <2>2. CASE stop
    BY <1>4, <2>1, <2>2, EndsIInv DEF Signal
  <2>3. CASE ~stop
    <3>1. ControlOK' /\ \A i \in 4..15 : Past(i)' => Past(i)
      BY <1>4, <2>1, <2>3 DEF Signal, ControlOK, Past
    <3> QED BY <1>4, <3>1, SameNetIInv DEF Signal
  <2> QED BY <2>2, <2>3
<1>5. CASE Crash
  BY <1>5, FaultType, EndsIInv DEF Crash
<1>6. CASE Reboot
  BY <1>6, RebootIInv
<1>7. CASE Cni
  BY <1>7, CniIInv
<1>8. CASE UNCHANGED vars
  <2>1. ControlOK' /\ \A i \in 4..15 : Past(i)' => Past(i)
    BY <1>8 DEF vars, ControlOK, Past
  <2> QED BY <1>8, <2>1, SameNetIInv DEF vars
<1> QED BY <1>1, <1>2, <1>3, <1>4, <1>5, <1>6, <1>7, <1>8 DEF Next

\* A node with nothing on it.
LEMMA InitIInv == Init => IInv
<1> SUFFICES ASSUME Init PROVE IInv
  OBVIOUS
<1>1. ControlOK
  <2>1. faults \in 0..MaxFaults
    BY SetupBoundAssumption DEF Init
  <2>2. /\ phase = "down" /\ pc = 1 /\ listed = FALSE /\ busy = {} /\ stop = FALSE
        /\ tables = FALSE
    BY DEF Init
  <2>4. /\ listed \in BOOLEAN /\ stop \in BOOLEAN /\ tables \in BOOLEAN
        /\ busy \subseteq Worker
    BY <2>2, Zenon
  <2>5. pc \in 1..15
    BY <2>2
  <2> QED BY <2>1, <2>2, <2>5, <2>4 DEF ControlOK
<1>2. PostOK
  BY DEF Init, EmptyNet, PostOK, Has
<1>3. NetOK
  BY <1>2 DEF Init, EmptyNet, NetOK
<1>4. StepsKept
  BY DEF Init, StepsKept, Past
<1> QED BY <1>1, <1>3, <1>4 DEF IInv

\* The inductive invariant always holds.
LEMMA Inductive == Spec => []IInv
  BY InitIInv, NextIInv, PTL DEF Spec

\* The state of the process and of the node's chains keeps its shape.
THEOREM TypeCorrect == Spec => []TypeOK
<1>1. IInv => TypeOK
  <2> SUFFICES ASSUME IInv PROVE TypeOK
    OBVIOUS
  <2>1. net.FORWARD \in Seq(Chain) /\ net.POST \in Seq(Chain \union {Masquerade})
    <3>1. net.FORWARD \in Seq(Chain)
      <4>1. net.FORWARD \in {<<>>, <<"forward">>} /\ "forward" \in Chain
        BY DEF IInv, NetOK, Chain
      <4>2. <<>> \in Seq(Chain)
        OBVIOUS
      <4>3. <<"forward">> \in Seq(Chain)
        BY <4>1
      <4> QED BY <4>1, <4>2, <4>3
    <3>2. net.POST \in Seq({"bypass", "nat", Masquerade})
      BY DEF IInv, NetOK, PostOK
    <3>3. {"bypass", "nat", Masquerade} \subseteq Chain \union {Masquerade}
      BY DEF Chain
    <3> QED BY <3>1, <3>2, <3>3, SeqMonotonic
  <2>2. net.rules \in Nat
    BY DEF IInv, NetOK
  <2> QED BY <2>1, <2>2, StepsAre DEF IInv, ControlOK, NetOK, TypeOK
<1> QED BY <1>1, Inductive, PTL

\* Whenever workers run, the table has a name and one policy rule, and packets
\* come to each chain once and in the right order, however often the setup was
\* interrupted, repeated or half done before (Run, Setup of director and gateway).
THEOREM SetUpWhenServingHolds == Spec => []SetUpWhenServing
<1>1. IInv => SetUpWhenServing
  <2> SUFFICES ASSUME IInv, phase \in {"serving", "returned"}
               PROVE  /\ tables /\ net.rules = 1
                      /\ Chain \subseteq net.chains
                      /\ OnceBefore(net.FORWARD, "forward", {})
                      /\ OnceBefore(net.POST, "bypass", {"nat", Masquerade})
                      /\ OnceBefore(net.POST, "nat", {Masquerade})
    BY DEF SetUpWhenServing
  <2>1. \A i \in 1..15 : Past(i)
    BY DEF Past
  <2>2. /\ tables /\ net.rules = 1 /\ Chain \subseteq net.chains
        /\ net.FORWARD = <<"forward">>
        /\ Has(net.POST, "nat") /\ Has(net.POST, "bypass")
    BY <2>1 DEF IInv, StepsKept, Chain
  <2>3. OnceBefore(net.FORWARD, "forward", {})
    BY <2>2 DEF OnceBefore
  <2>4. PostOK /\ Masquerade \notin {"bypass", "nat"} /\ Len(net.POST) \in Nat
    BY MasqueradeAssumption DEF IInv, NetOK, PostOK, Chain
  <2>5. OnceBefore(net.POST, "bypass", {"nat", Masquerade})
    <3>1. PICK i \in 1..Len(net.POST) : net.POST[i] = "bypass"
      BY <2>2 DEF Has
    <3>2. \A k \in 1..Len(net.POST) : net.POST[k] \in {"nat", Masquerade} => i < k
      BY <2>4, <3>1 DEF PostOK
    <3>3. \A k \in 1..Len(net.POST) : net.POST[k] = "bypass" => k = i
      BY <2>4, <3>1 DEF PostOK
    <3> QED BY <3>1, <3>2, <3>3 DEF OnceBefore
  <2>6. OnceBefore(net.POST, "nat", {Masquerade})
    <3>1. PICK i \in 1..Len(net.POST) : net.POST[i] = "nat"
      BY <2>2 DEF Has
    <3>2. \A k \in 1..Len(net.POST) : net.POST[k] = Masquerade => i < k
      BY <2>4, <3>1 DEF PostOK
    <3>3. \A k \in 1..Len(net.POST) : net.POST[k] = "nat" => k = i
      BY <2>4, <3>1 DEF PostOK
    <3> QED BY <3>1, <3>2, <3>3 DEF OnceBefore
  <2> QED BY <2>2, <2>3, <2>5, <2>6
<1> QED BY <1>1, Inductive, PTL
=============================================================================
