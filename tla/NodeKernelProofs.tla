-------------------------- MODULE NodeKernelProofs --------------------------
(***************************************************************************)
(* What the commands of NodeKernel do to a node's configuration, field by  *)
(* field, and that the NAT chain never gets a rule twice: facts that the   *)
(* proofs about EgressController and EgressCluster share.                  *)
(***************************************************************************)
EXTENDS NodeKernel, SequenceTheorems, WellFoundedInduction, TLAPS

\* A configuration has the fields of EmptyKernel.
Fields == {"sets", "member", "mark", "bypass", "forward", "snat", "retmark",
           "tunnel", "up", "route", "addr"}

Kernel(K) == K = [f \in Fields |-> K[f]]

\* A chain that holds each of its rules once.
Once(chain) ==
    /\ \E S : chain \in Seq(S)
    /\ \A i, j \in 1..Len(chain) : i # j => chain[i] # chain[j]

-----------------------------------------------------------------------------
\* A set of numbers has a least one.
LEMMA LeastNatural ==
    ASSUME NEW T \in SUBSET Nat, T # {}
    PROVE  \E x \in T : \A y \in T : x <= y
<1> DEFINE R == {ss \in Nat \X Nat : ss[1] < ss[2]}
<1>1. IsWellFoundedOn(R, Nat)
  BY NatLessThanWellFounded DEF OpToRel
<1> HIDE DEF R
<1>2. PICK x \in T : \A y \in T : ~ (<<y, x>> \in R)
  BY <1>1, WFMin
<1>3. ASSUME NEW y \in T PROVE x <= y
  <2>1. x \in Nat /\ y \in Nat /\ <<y, x>> \in Nat \X Nat
    OBVIOUS
  <2>2. ~(y < x)
    BY <1>2, <2>1 DEF R
  <2> QED BY <2>1, <2>2
<1> QED BY <1>3

\* Induction, with the set of the numbers that have a property for the property.
LEMMA SetInduction ==
    ASSUME NEW T, 0 \in T, \A n \in Nat : n \in T => n + 1 \in T
    PROVE  \A n \in Nat : n \in T
<1> SUFFICES ASSUME NEW n \in Nat, n \notin T PROVE FALSE
  OBVIOUS
<1>1. PICK x \in Nat \ T : \A y \in Nat \ T : x <= y
  BY LeastNatural
<1>2. x - 1 \in Nat /\ x = (x - 1) + 1
  BY <1>1
<1>3. x - 1 \in T
  BY <1>1, <1>2
<1> QED BY <1>1, <1>2, <1>3

\* An insertion adds the rule, and no other.
LEMMA InsertShape ==
    ASSUME NEW S, NEW chain \in Seq(S), NEW r
    PROVE  /\ Insert(chain, r) \in Seq(S \union {r})
           /\ ToSet(Insert(chain, r)) = ToSet(chain) \union {r}
<1> DEFINE new == <<r>> \o chain
<1>1. /\ new \in Seq(S \union {r}) /\ Len(new) = Len(chain) + 1 /\ Len(chain) \in Nat
      /\ new[1] = r /\ \A i \in 1..Len(chain) : new[i + 1] = chain[i]
  OBVIOUS
<1> HIDE DEF new
<1>2. ASSUME NEW x \in ToSet(new) PROVE x \in ToSet(chain) \union {r}
  <2>1. PICK i \in 1..Len(new) : x = new[i]
    BY <1>1 DEF ToSet
  <2>2. i # 1 => i - 1 \in 1..Len(chain) /\ new[i] = chain[i - 1]
    BY <1>1
  <2> QED BY <1>1, <2>1, <2>2 DEF ToSet
<1>3. ASSUME NEW x \in ToSet(chain) PROVE x \in ToSet(new)
  <2>1. PICK i \in 1..Len(chain) : x = chain[i]
    BY DEF ToSet
  <2>2. i + 1 \in 1..Len(new) /\ new[i + 1] = x
    BY <1>1, <2>1
  <2> QED BY <1>1, <2>2 DEF ToSet
<1>4. r \in ToSet(new)
  BY <1>1 DEF ToSet
<1>5. Insert(chain, r) = new
  BY DEF Insert, new
<1> QED BY <1>1, <1>2, <1>3, <1>4, <1>5

\* A rule that is inserted where it is not comes to be there once.
LEMMA InsertOnce ==
    ASSUME NEW chain, NEW r, Once(chain), r \notin ToSet(chain)
    PROVE  Once(Insert(chain, r))
<1>1. PICK S : chain \in Seq(S)
  BY DEF Once
<1>2. r \notin ToSet(chain)
  OBVIOUS
<1>3. Once(<<r>> \o chain)
  <2> DEFINE new == <<r>> \o chain
             T == S \union {r}
  <2>1. /\ new \in Seq(T) /\ Len(new) = Len(chain) + 1 /\ Len(chain) \in Nat
        /\ new[1] = r /\ \A i \in 1..Len(chain) : new[i + 1] = chain[i]
    BY <1>1
  <2>2. \A i \in 1..Len(chain) : chain[i] # r
    BY <1>1, <1>2 DEF ToSet
  <2> HIDE DEF new
  <2>3. ASSUME NEW i \in 1..Len(new), NEW j \in 1..Len(new), i # j
        PROVE  new[i] # new[j]
    <3>1. i # 1 => i - 1 \in 1..Len(chain) /\ new[i] = chain[i - 1]
      BY <2>1
    <3>2. j # 1 => j - 1 \in 1..Len(chain) /\ new[j] = chain[j - 1]
      BY <2>1
    <3> QED BY <2>1, <2>2, <2>3, <3>1, <3>2 DEF Once
  <2>4. Once(new)
    BY <2>1, <2>3 DEF Once
  <2> QED BY <2>4 DEF new
<1> QED BY <1>3 DEF Insert

\* deleteRule leaves out one position, or none.
LEMMA DeleteShape ==
    ASSUME NEW S, NEW chain \in Seq(S), NEW r
    PROVE  \/ deleteRule(chain, r) = chain
           \/ \E k \in 1..Len(chain) :
                  /\ deleteRule(chain, r) \in Seq(S)
                  /\ Len(deleteRule(chain, r)) = Len(chain) - 1
                  /\ \A i \in 1..(Len(chain) - 1) :
                         deleteRule(chain, r)[i] = IF i < k THEN chain[i] ELSE chain[i + 1]
<1> DEFINE I == {i \in 1..Len(chain) : chain[i] = r}
<1>1. CASE I = {}
  BY <1>1 DEF deleteRule, RemoveFirst
<1>2. CASE I # {}
  <2>1. PICK k : k = SelectInSeq(chain, LAMBDA v : v = r)
    OBVIOUS
  <2>2. k = Min(I)
    BY <1>2, <2>1 DEF SelectInSeq
  <2>3. k \in I
    <3>1. I \in SUBSET Nat
      OBVIOUS
    <3> HIDE DEF I
    <3>2. \E x \in I : \A y \in I : x <= y
      BY <1>2, <3>1, LeastNatural
    <3> QED BY <2>2, <3>2 DEF Min
  <2>4. k \in 1..Len(chain) /\ Len(chain) \in Nat
    BY <2>3
  <2> HIDE DEF I
  <2> DEFINE a == SubSeq(chain, 1, k - 1)
             b == SubSeq(chain, k + 1, Len(chain))
  <2>5. /\ a \in Seq(S) /\ Len(a) = k - 1
        /\ \A i \in 1..Len(a) : a[i] = chain[i]
    BY <2>4
  <2>6. /\ b \in Seq(S) /\ Len(b) = Len(chain) - k
        /\ \A i \in 1..Len(b) : b[i] = chain[i + k]
    BY <2>4
  <2> HIDE DEF a, b
  <2>7. /\ a \o b \in Seq(S) /\ Len(a \o b) = Len(a) + Len(b)
        /\ \A i \in 1..(Len(a) + Len(b)) :
               (a \o b)[i] = IF i <= Len(a) THEN a[i] ELSE b[i - Len(a)]
    <3>1. a \in Seq(S) /\ b \in Seq(S)
      BY <2>5, <2>6
    <3> QED BY <3>1, ConcatProperties
  <2>8. Len(a \o b) = Len(chain) - 1
    BY <2>4, <2>5, <2>6, <2>7
  <2>9. ASSUME NEW i \in 1..(Len(chain) - 1)
        PROVE  (a \o b)[i] = IF i < k THEN chain[i] ELSE chain[i + 1]
    <3>1. CASE i < k
      BY <2>4, <2>5, <2>6, <2>7, <2>8, <3>1
    <3>2. CASE ~(i < k)
      <4>1. i - Len(a) \in 1..Len(b) /\ (i - Len(a)) + k = i + 1
        BY <2>4, <2>5, <2>6, <3>2
      <4>2. (a \o b)[i] = b[i - Len(a)]
        BY <2>4, <2>5, <2>6, <2>7, <2>8, <3>2
      <4> QED BY <2>6, <3>2, <4>1, <4>2
    <3> QED BY <3>1, <3>2
  <2>10. deleteRule(chain, r) = a \o b
    BY <1>2, <2>1 DEF deleteRule, RemoveFirst, RemoveAt, a, b, I
  <2> QED BY <2>4, <2>7, <2>8, <2>9, <2>10
<1> QED BY <1>1, <1>2

\* So what is left was there, and holds no rule twice if the chain did not.
LEMMA DeleteOnce ==
    ASSUME NEW chain, NEW r, Once(chain)
    PROVE  Once(deleteRule(chain, r))
<1>1. PICK S : chain \in Seq(S)
  BY DEF Once
<1>2. PICK new : new = deleteRule(chain, r)
  OBVIOUS
<1>3. CASE new = chain
  BY <1>2, <1>3
<1>4. ASSUME NEW k \in 1..Len(chain), new \in Seq(S), Len(new) = Len(chain) - 1,
             \A i \in 1..(Len(chain) - 1) :
                 new[i] = IF i < k THEN chain[i] ELSE chain[i + 1]
      PROVE  Once(new)
  <2>1. ASSUME NEW i \in 1..Len(new), NEW j \in 1..Len(new), i # j
        PROVE  new[i] # new[j]
    <3> DEFINE at(m) == IF m < k THEN m ELSE m + 1
    <3>1. Len(chain) \in Nat
      BY <1>1
    <3>2. at(i) \in 1..Len(chain) /\ at(j) \in 1..Len(chain) /\ at(i) # at(j)
      BY <1>4, <2>1, <3>1
    <3>3. new[i] = chain[at(i)] /\ new[j] = chain[at(j)]
      BY <1>4, <2>1, <3>1
    <3> QED BY <3>2, <3>3 DEF Once
  <2> QED BY <1>4, <2>1 DEF Once
<1> QED BY <1>1, <1>2, <1>3, <1>4, DeleteShape

-----------------------------------------------------------------------------
\* The three chains of matching rules.
LEMMA RuleChains ==
    /\ DOMAIN AddTo = {"mark", "bypass", "forward"}
    /\ DOMAIN RemoveFrom = {"unmark", "unbypass", "unforward"}
    /\ AddTo["mark"] = "mark" /\ AddTo["bypass"] = "bypass" /\ AddTo["forward"] = "forward"
    /\ RemoveFrom["unmark"] = "mark" /\ RemoveFrom["unbypass"] = "bypass"
    /\ RemoveFrom["unforward"] = "forward"
  BY DEF AddTo, RemoveFrom

\* Nothing configured is a configuration.
LEMMA EmptyIsKernel == Kernel(EmptyKernel)
  BY DEF Kernel, Fields, EmptyKernel

\* What a command makes of the sets and their members.
SetsWritten(K, c, L) ==
    /\ c.op \notin {"create", "destroy"} => L.sets = K.sets
    /\ c.op = "create" => L.sets = K.sets \union {c.set}
    /\ c.op = "destroy" => L.sets = K.sets \ {c.set}
    /\ c.op \notin {"flush", "add", "destroy"} => L.member = K.member
    /\ c.op \in {"flush", "destroy"} => L.member = {p \in K.member : p[1] # c.set}
    /\ c.op = "add" => L.member = K.member \union {<<c.set, c.to>>}

\* Of a director's rules.
RulesWritten(K, c, L) ==
    /\ c.op \notin {"mark", "unmark"} => L.mark = K.mark
    /\ c.op = "mark" => L.mark = K.mark \union {<<c.set, c.dst>>}
    /\ c.op = "unmark" => L.mark = K.mark \ {<<c.set, c.dst>>}
    /\ c.op \notin {"bypass", "unbypass"} => L.bypass = K.bypass
    /\ c.op = "bypass" => L.bypass = K.bypass \union {<<c.set, c.dst>>}
    /\ c.op = "unbypass" => L.bypass = K.bypass \ {<<c.set, c.dst>>}

\* Of the NAT chain.
NatWritten(K, c, L) ==
    /\ c.op \notin {"snat", "unsnat"} => L.snat = K.snat
    /\ c.op = "snat" => L.snat = Insert(K.snat, <<c.set, c.dst, c.to>>)
    /\ c.op = "unsnat" => L.snat = deleteRule(K.snat, <<c.set, c.dst, c.to>>)

\* Of the tunnels and routes.
LinksWritten(K, c, L) ==
    /\ c.op # "tunnelAdd" => L.tunnel = K.tunnel
    /\ c.op = "tunnelAdd" => L.tunnel = K.tunnel \union {c.to}
    /\ c.op # "linkUp" => L.up = K.up
    /\ c.op = "linkUp" => L.up = K.up \union {c.to}
    /\ c.op # "routeAdd" => L.route = K.route
    /\ c.op = "routeAdd" => L.route = K.route \union {<<c.dst, c.to>>}

\* A command writes one field, or, if it destroys a set, two.
LEMMA EffectFields ==
    ASSUME NEW K, Kernel(K), NEW c, NEW L, L = Effect(K, c)
    PROVE  /\ Kernel(L)
           /\ SetsWritten(K, c, L) /\ RulesWritten(K, c, L)
           /\ NatWritten(K, c, L) /\ LinksWritten(K, c, L)
<1> USE DEF SetsWritten, RulesWritten, NatWritten, LinksWritten
<1>1. CASE c.op = "create"
  <2>1. PICK v : v = K.sets \union {c.set}
    OBVIOUS
  <2>2. L = [K EXCEPT !["sets"] = v] /\ "sets" \in Fields
    BY <1>1, <2>1, RuleChains DEF Effect, Fields
  <2>3. Kernel(L) /\ L.sets = v /\ \A g \in Fields \ {"sets"} : L[g] = K[g]
    BY <2>2 DEF Kernel
  <2> QED BY <1>1, <2>1, <2>3 DEF Fields
<1>2. CASE c.op = "flush"
  <2>1. PICK v : v = {p \in K.member : p[1] # c.set}
    OBVIOUS
  <2>2. L = [K EXCEPT !["member"] = v] /\ "member" \in Fields
    BY <1>2, <2>1, RuleChains DEF Effect, Fields
  <2>3. Kernel(L) /\ L.member = v /\ \A g \in Fields \ {"member"} : L[g] = K[g]
    BY <2>2 DEF Kernel
  <2> QED BY <1>2, <2>1, <2>3 DEF Fields
<1>3. CASE c.op = "add"
  <2>1. PICK v : v = K.member \union {<<c.set, c.to>>}
    OBVIOUS
  <2>2. L = [K EXCEPT !["member"] = v] /\ "member" \in Fields
    BY <1>3, <2>1, RuleChains DEF Effect, Fields
  <2>3. Kernel(L) /\ L.member = v /\ \A g \in Fields \ {"member"} : L[g] = K[g]
    BY <2>2 DEF Kernel
  <2> QED BY <1>3, <2>1, <2>3 DEF Fields
<1>4. CASE c.op = "mark"
  <2>1. PICK v : v = K.mark \union {<<c.set, c.dst>>}
    OBVIOUS
  <2>2. L = [K EXCEPT !["mark"] = v] /\ "mark" \in Fields
    BY <1>4, <2>1, RuleChains DEF Effect, Fields
  <2>3. Kernel(L) /\ L.mark = v /\ \A g \in Fields \ {"mark"} : L[g] = K[g]
    BY <2>2 DEF Kernel
  <2> QED BY <1>4, <2>1, <2>3 DEF Fields
<1>5. CASE c.op = "bypass"
  <2>1. PICK v : v = K.bypass \union {<<c.set, c.dst>>}
    OBVIOUS
  <2>2. L = [K EXCEPT !["bypass"] = v] /\ "bypass" \in Fields
    BY <1>5, <2>1, RuleChains DEF Effect, Fields
  <2>3. Kernel(L) /\ L.bypass = v /\ \A g \in Fields \ {"bypass"} : L[g] = K[g]
    BY <2>2 DEF Kernel
  <2> QED BY <1>5, <2>1, <2>3 DEF Fields
<1>6. CASE c.op = "forward"
  <2>1. PICK v : v = K.forward \union {<<c.set, c.dst>>}
    OBVIOUS
  <2>2. L = [K EXCEPT !["forward"] = v] /\ "forward" \in Fields
    BY <1>6, <2>1, RuleChains DEF Effect, Fields
  <2>3. Kernel(L) /\ L.forward = v /\ \A g \in Fields \ {"forward"} : L[g] = K[g]
    BY <2>2 DEF Kernel
  <2> QED BY <1>6, <2>1, <2>3 DEF Fields
<1>7. CASE c.op = "unmark"
  <2>1. PICK v : v = K.mark \ {<<c.set, c.dst>>}
    OBVIOUS
  <2>2. L = [K EXCEPT !["mark"] = v] /\ "mark" \in Fields
    BY <1>7, <2>1, RuleChains DEF Effect, Fields
  <2>3. Kernel(L) /\ L.mark = v /\ \A g \in Fields \ {"mark"} : L[g] = K[g]
    BY <2>2 DEF Kernel
  <2> QED BY <1>7, <2>1, <2>3 DEF Fields
<1>8. CASE c.op = "unbypass"
  <2>1. PICK v : v = K.bypass \ {<<c.set, c.dst>>}
    OBVIOUS
  <2>2. L = [K EXCEPT !["bypass"] = v] /\ "bypass" \in Fields
    BY <1>8, <2>1, RuleChains DEF Effect, Fields
  <2>3. Kernel(L) /\ L.bypass = v /\ \A g \in Fields \ {"bypass"} : L[g] = K[g]
    BY <2>2 DEF Kernel
  <2> QED BY <1>8, <2>1, <2>3 DEF Fields
<1>9. CASE c.op = "unforward"
  <2>1. PICK v : v = K.forward \ {<<c.set, c.dst>>}
    OBVIOUS
  <2>2. L = [K EXCEPT !["forward"] = v] /\ "forward" \in Fields
    BY <1>9, <2>1, RuleChains DEF Effect, Fields
  <2>3. Kernel(L) /\ L.forward = v /\ \A g \in Fields \ {"forward"} : L[g] = K[g]
    BY <2>2 DEF Kernel
  <2> QED BY <1>9, <2>1, <2>3 DEF Fields
<1>10. CASE c.op = "snat"
  <2>1. PICK v : v = Insert(K.snat, <<c.set, c.dst, c.to>>)
    OBVIOUS
  <2>2. L = [K EXCEPT !["snat"] = v] /\ "snat" \in Fields
    BY <1>10, <2>1, RuleChains DEF Effect, Fields
  <2>3. Kernel(L) /\ L.snat = v /\ \A g \in Fields \ {"snat"} : L[g] = K[g]
    BY <2>2 DEF Kernel
  <2> QED BY <1>10, <2>1, <2>3 DEF Fields
<1>11. CASE c.op = "unsnat"
  <2>1. PICK v : v = deleteRule(K.snat, <<c.set, c.dst, c.to>>)
    OBVIOUS
  <2>2. L = [K EXCEPT !["snat"] = v] /\ "snat" \in Fields
    BY <1>11, <2>1, RuleChains DEF Effect, Fields
  <2>3. Kernel(L) /\ L.snat = v /\ \A g \in Fields \ {"snat"} : L[g] = K[g]
    BY <2>2 DEF Kernel
  <2> QED BY <1>11, <2>1, <2>3 DEF Fields
<1>12. CASE c.op = "retmark"
  <2>1. PICK v : v = K.retmark \union {<<c.dst, c.to>>}
    OBVIOUS
  <2>2. L = [K EXCEPT !["retmark"] = v] /\ "retmark" \in Fields
    BY <1>12, <2>1, RuleChains DEF Effect, Fields
  <2>3. Kernel(L) /\ L.retmark = v /\ \A g \in Fields \ {"retmark"} : L[g] = K[g]
    BY <2>2 DEF Kernel
  <2> QED BY <1>12, <2>1, <2>3 DEF Fields
<1>13. CASE c.op = "tunnelAdd"
  <2>1. PICK v : v = K.tunnel \union {c.to}
    OBVIOUS
  <2>2. L = [K EXCEPT !["tunnel"] = v] /\ "tunnel" \in Fields
    BY <1>13, <2>1, RuleChains DEF Effect, Fields
  <2>3. Kernel(L) /\ L.tunnel = v /\ \A g \in Fields \ {"tunnel"} : L[g] = K[g]
    BY <2>2 DEF Kernel
  <2> QED BY <1>13, <2>1, <2>3 DEF Fields
<1>14. CASE c.op = "linkUp"
  <2>1. PICK v : v = K.up \union {c.to}
    OBVIOUS
  <2>2. L = [K EXCEPT !["up"] = v] /\ "up" \in Fields
    BY <1>14, <2>1, RuleChains DEF Effect, Fields
  <2>3. Kernel(L) /\ L.up = v /\ \A g \in Fields \ {"up"} : L[g] = K[g]
    BY <2>2 DEF Kernel
  <2> QED BY <1>14, <2>1, <2>3 DEF Fields
<1>15. CASE c.op = "routeAdd"
  <2>1. PICK v : v = K.route \union {<<c.dst, c.to>>}
    OBVIOUS
  <2>2. L = [K EXCEPT !["route"] = v] /\ "route" \in Fields
    BY <1>15, <2>1, RuleChains DEF Effect, Fields
  <2>3. Kernel(L) /\ L.route = v /\ \A g \in Fields \ {"route"} : L[g] = K[g]
    BY <2>2 DEF Kernel
  <2> QED BY <1>15, <2>1, <2>3 DEF Fields
<1>16. CASE c.op = "addrAdd"
  <2>1. PICK v : v = K.addr \union {c.to}
    OBVIOUS
  <2>2. L = [K EXCEPT !["addr"] = v] /\ "addr" \in Fields
    BY <1>16, <2>1, RuleChains DEF Effect, Fields
  <2>3. Kernel(L) /\ L.addr = v /\ \A g \in Fields \ {"addr"} : L[g] = K[g]
    BY <2>2 DEF Kernel
  <2> QED BY <1>16, <2>1, <2>3 DEF Fields
<1>17. CASE c.op = "addrDel"
  <2>1. PICK v : v = K.addr \ {c.to}
    OBVIOUS
  <2>2. L = [K EXCEPT !["addr"] = v] /\ "addr" \in Fields
    BY <1>17, <2>1, RuleChains DEF Effect, Fields
  <2>3. Kernel(L) /\ L.addr = v /\ \A g \in Fields \ {"addr"} : L[g] = K[g]
    BY <2>2 DEF Kernel
  <2> QED BY <1>17, <2>1, <2>3 DEF Fields
<1>18. CASE c.op = "destroy"
  <2>1. PICK v, w : v = K.sets \ {c.set} /\ w = {p \in K.member : p[1] # c.set}
    OBVIOUS
  <2>2. L = [K EXCEPT !.sets = v, !.member = w] /\ {"sets", "member"} \subseteq Fields
    <3>1. L = [K EXCEPT !.sets = K.sets \ {c.set},
                        !.member = {p \in K.member : p[1] # c.set}]
      BY <1>18, RuleChains DEF Effect
    <3> QED BY <2>1, <3>1, Zenon DEF Fields
  <2>3. Kernel(L) /\ L.sets = v /\ L.member = w /\ \A g \in Fields \ {"sets", "member"} : L[g] = K[g]
    BY <2>2 DEF Kernel
  <2> QED BY <1>18, <2>1, <2>3 DEF Fields
<1>19. CASE c.op \notin {"create", "flush", "add", "destroy", "mark", "bypass", "forward", "unmark",
                        "unbypass", "unforward", "snat", "unsnat", "retmark", "tunnelAdd",
                        "linkUp", "routeAdd", "addrAdd", "addrDel"}
  <2>1. L = K
    BY <1>19, RuleChains DEF Effect
  <2> QED BY <1>19, <2>1
<1> QED BY <1>1, <1>2, <1>3, <1>4, <1>5, <1>6, <1>7, <1>8, <1>9, <1>10, <1>11, <1>12, <1>13, <1>14, <1>15, <1>16, <1>17, <1>18, <1>19

\* No command puts a rule into the NAT chain a second time, unless it is one to
\* insert a rule that is there.
LEMMA EffectOnce ==
    ASSUME NEW K, Kernel(K), Once(K.snat), NEW c,
           c.op = "snat" => <<c.set, c.dst, c.to>> \notin ToSet(K.snat)
    PROVE  Kernel(Effect(K, c)) /\ Once(Effect(K, c).snat)
<1>1. PICK L : L = Effect(K, c)
  OBVIOUS
<1>2. Kernel(L)
  BY <1>1, EffectFields
<1>3. NatWritten(K, c, L)
  BY <1>1, EffectFields
<1>4. Once(L.snat)
  <2>1. PICK r : r = <<c.set, c.dst, c.to>>
    OBVIOUS
  <2>2. CASE c.op = "snat"
    <3>1. r \notin ToSet(K.snat) /\ L.snat = Insert(K.snat, r)
      BY <1>3, <2>1, <2>2 DEF NatWritten
    <3> QED BY <3>1, InsertOnce
  <2>3. CASE c.op # "snat"
    BY <1>3, <2>3, DeleteOnce DEF NatWritten
  <2> QED BY <2>2, <2>3
<1> QED BY <1>1, <1>2, <1>4

\* The chain of a node on which nothing is configured is empty.
LEMMA EmptyOnce == Kernel(EmptyKernel) /\ Once(EmptyKernel.snat)
<1>1. EmptyKernel.snat = <<>> /\ <<>> \in Seq({})
  BY DEF EmptyKernel
<1> QED BY <1>1, EmptyIsKernel DEF Once
=============================================================================
