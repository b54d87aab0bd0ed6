------------------------- MODULE IpsetRefreshProofs -------------------------
(***************************************************************************)
(* Proof that pkg/ipset implements AtomicSet, for any entries, lists, set  *)
(* types, versions and limits, and any number of failures and crashes.     *)
(***************************************************************************)
EXTENDS IpsetRefresh, SequenceTheorems, TLAPS

\* A call is under way and is of this kind.
Calling(kind) == call # Idle /\ call.kind = kind

\* Once created, the set stays; once flushed, it is empty.
NewSound ==
    Calling("New") => /\ step >= 5 => sets["set"] # NoSet
                      /\ step >= 6 => sets["set"] = {}

AddSound ==
    Calling("Add") /\ step >= 2 => sets["set"] # NoSet /\ call.arg \in sets["set"]

DelSound ==
    Calling("Del") /\ step >= 2 => sets["set"] # NoSet /\ call.arg \notin sets["set"]

\* Whatever an earlier call left in the temporary set, after the flush it holds
\* the entries added so far and nothing else, until the swap hands them over.
RefreshSound ==
    Calling("Refresh") =>
        /\ step \in 3..(Len(call.arg) + 3)
               => sets["temp"] = {call.arg[i] : i \in 1..(step - 3)}
        /\ step >= Len(call.arg) + 4 => sets["set"] = ToSet(call.arg)

IInv == TypeOK /\ NewSound /\ AddSound /\ DelSound /\ RefreshSound

-----------------------------------------------------------------------------
\* The kind and the argument of a call.
LEMMA CallKinds ==
    ASSUME NEW c \in Calls
    PROVE  /\ c # Idle
           /\ c.kind \in {"New", "Add", "Del", "Refresh"}
           /\ c.kind = "New" => c.arg \in HashType
           /\ c.kind \in {"Add", "Del"} => c.arg \in Entry
           /\ c.kind = "Refresh" => c.arg \in Seq(Entry)
  BY IdleAssumption, ListsAssumption DEF Calls

\* The commands of New, Add and Del.
LEMMA ShortCommands ==
    ASSUME NEW c \in Calls
    PROVE  /\ c.kind = "New" =>
                  /\ Len(Commands(c)) = 5
                  /\ Commands(c)[1] = Cmd("prefix", "set", c.arg)
                  /\ Commands(c)[2] = Cmd("lookPath", "set", Idle)
                  /\ Commands(c)[3] = Cmd("version", "set", Idle)
                  /\ Commands(c)[4] = Cmd("create", "set", Idle)
                  /\ Commands(c)[5] = Cmd("flush", "set", Idle)
           /\ c.kind = "Add" => /\ Len(Commands(c)) = 1
                                /\ Commands(c)[1] = Cmd("add", "set", c.arg)
           /\ c.kind = "Del" => /\ Len(Commands(c)) = 1
                                /\ Commands(c)[1] = Cmd("del", "set", c.arg)
  BY DEF Commands, New, initCheck, createHashSet

\* Two commands, then as many as there are entries, then two more.
LEMMA ThreeParts ==
    ASSUME NEW C, NEW a \in C, NEW b \in C, NEW m \in Seq(C), NEW y \in C, NEW z \in C
    PROVE  LET all == <<a, b>> \o m \o <<y, z>>
           IN  /\ Len(m) \in Nat /\ Len(all) = Len(m) + 4
               /\ all[1] = a /\ all[2] = b
               /\ \A i \in 1..Len(m) : all[i + 2] = m[i]
               /\ all[Len(m) + 3] = y /\ all[Len(m) + 4] = z
<1> DEFINE am == <<a, b>> \o m
<1>1. /\ Len(m) \in Nat /\ am \in Seq(C) /\ Len(am) = Len(m) + 2
      /\ am[1] = a /\ am[2] = b
      /\ \A i \in 1..Len(m) : am[i + 2] = m[i]
  OBVIOUS
<1> HIDE DEF am
<1>2. /\ Len(am \o <<y, z>>) = Len(am) + 2
      /\ \A i \in 1..Len(am) : (am \o <<y, z>>)[i] = am[i]
      /\ (am \o <<y, z>>)[Len(am) + 1] = y /\ (am \o <<y, z>>)[Len(am) + 2] = z
  <2>1. am \in Seq(C)
    BY <1>1
  <2> QED BY <2>1
<1> DEFINE all == am \o <<y, z>>
<1> HIDE DEF all
<1>3. \A i \in 1..Len(m) : all[i + 2] = m[i]
  BY <1>1, <1>2 DEF all
<1>4. /\ all[1] = a /\ all[2] = b /\ Len(all) = Len(m) + 4
      /\ all[Len(m) + 3] = y /\ all[Len(m) + 4] = z
  BY <1>1, <1>2 DEF all
<1> QED BY <1>1, <1>3, <1>4 DEF am, all

\* The commands of Refresh.
LEMMA RefreshCommands ==
    ASSUME NEW e \in Seq(Entry)
    PROVE  /\ Len(e) \in Nat /\ Len(Refresh(e)) = Len(e) + 4
           /\ Refresh(e)[1] = Cmd("create", "temp", Idle)
           /\ Refresh(e)[2] = Cmd("flush", "temp", Idle)
           /\ \A i \in 1..Len(e) : Refresh(e)[i + 2] = Cmd("add", "temp", e[i])
           /\ Refresh(e)[Len(e) + 3] = Cmd("swap", "temp", Idle)
           /\ Refresh(e)[Len(e) + 4] = Cmd("destroy", "temp", Idle)
<1> DEFINE C == [op : {"create", "flush", "add", "swap", "destroy"}, set : Name,
                 arg : Entry \union {Idle}]
           m == [i \in 1..Len(e) |-> Cmd("add", "temp", e[i])]
<1>1. /\ Cmd("create", "temp", Idle) \in C /\ Cmd("flush", "temp", Idle) \in C
      /\ Cmd("swap", "temp", Idle) \in C /\ Cmd("destroy", "temp", Idle) \in C
      /\ \A i \in 1..Len(e) : Cmd("add", "temp", e[i]) \in C
  BY DEF Cmd, Name
<1> HIDE DEF C
<1>2. m \in Seq(C) /\ Len(m) = Len(e) /\ \A i \in 1..Len(e) : m[i] = Cmd("add", "temp", e[i])
  BY <1>1
<1>3. Refresh(e) = <<Cmd("create", "temp", Idle), Cmd("flush", "temp", Idle)>> \o m
                      \o <<Cmd("swap", "temp", Idle), Cmd("destroy", "temp", Idle)>>
  BY DEF Refresh, createHashSet
<1> HIDE DEF m
<1> QED BY <1>1, <1>2, <1>3, ThreeParts

\* The set and the temporary one are two.
LEMMA TwoSets ==
    ASSUME TypeOK
    PROVE  /\ DOMAIN sets = {"set", "temp"} /\ sets = [n \in Name |-> sets[n]]
           /\ sets["set"] \in {NoSet} \union SUBSET Entry
           /\ sets["temp"] \in {NoSet} \union SUBSET Entry
  BY DEF TypeOK, Name

\* A set that is written has the new content, and the other one stays.
LEMMA SetOne ==
    ASSUME TypeOK, NEW n \in Name, NEW S, sets' = [sets EXCEPT ![n] = S]
    PROVE  /\ sets'[n] = S
           /\ \A m \in Name : m # n => sets'[m] = sets[m]
           /\ S \in {NoSet} \union SUBSET Entry
                  => sets' \in [Name -> {NoSet} \union SUBSET Entry]
  BY DEF TypeOK, Name

-----------------------------------------------------------------------------
\* What a command of New does.
LEMMA ExecNew ==
    ASSUME IInv, Exec, call.kind = "New"
    PROVE  /\ step \in 1..5 /\ sets' \in [Name -> {NoSet} \union SUBSET Entry]
           /\ step \in 1..3 => sets'["set"] = sets["set"]
           /\ step = 4 => sets'["set"] = IF sets["set"] = NoSet THEN {} ELSE sets["set"]
           /\ step = 5 => sets["set"] # NoSet /\ sets'["set"] = {}
<1>1. call \in Calls /\ step \in 1..5 /\ ~Fails(Commands(call)[step])
      /\ sets' = Effect(Commands(call)[step])
  BY CallKinds, ShortCommands DEF IInv, TypeOK, Exec
<1>2. TypeOK /\ "set" \in Name
  BY DEF IInv, Name
<1>3. CASE step \in 1..3
  <2>0. step = 1 \/ step = 2 \/ step = 3
    BY <1>3
  <2>1. Commands(call)[step].op \in {"prefix", "lookPath", "version"}
    <3>1. /\ Commands(call)[1] = Cmd("prefix", "set", call.arg)
          /\ Commands(call)[2] = Cmd("lookPath", "set", Idle)
          /\ Commands(call)[3] = Cmd("version", "set", Idle)
      BY <1>1, ShortCommands
    <3> QED BY <2>0, <3>1 DEF Cmd
  <2>2. sets' = sets
    BY <1>1, <2>1 DEF Effect
  <2> QED BY <1>1, <1>2, <1>3, <2>2 DEF TypeOK
<1>4. CASE step = 4
  <2>1. Commands(call)[step] = Cmd("create", "set", Idle)
    BY <1>1, <1>4, ShortCommands
  <2>2. sets' = [sets EXCEPT !["set"] = IF sets["set"] = NoSet THEN {} ELSE sets["set"]]
    BY <1>1, <2>1 DEF Effect, Cmd
  <2> DEFINE S == IF sets["set"] = NoSet THEN {} ELSE sets["set"]
  <2>3. S \in {NoSet} \union SUBSET Entry
    BY <1>2, TwoSets
  <2>4. sets' = [sets EXCEPT !["set"] = S]
    BY <2>2
  <2> HIDE DEF S
  <2>5. sets'["set"] = S /\ sets' \in [Name -> {NoSet} \union SUBSET Entry]
    BY <1>2, <2>3, <2>4, SetOne
  <2> QED BY <1>1, <1>4, <2>5 DEF S
<1>5. CASE step = 5
  <2>1. Commands(call)[step] = Cmd("flush", "set", Idle)
    BY <1>1, <1>5, ShortCommands
  <2>2. sets' = [sets EXCEPT !["set"] = {}] /\ sets["set"] # NoSet
    BY <1>1, <2>1 DEF Effect, Fails, Cmd
  <2>3. sets'["set"] = {} /\ sets' \in [Name -> {NoSet} \union SUBSET Entry]
    <3>1. {} \in {NoSet} \union SUBSET Entry
      OBVIOUS
    <3> QED BY <1>2, <2>2, <3>1, SetOne
  <2> QED BY <1>1, <1>5, <2>2, <2>3
<1> QED BY <1>1, <1>3, <1>4, <1>5

\* What the command of Add or Del does.
LEMMA ExecAddDel ==
    ASSUME IInv, Exec, call.kind \in {"Add", "Del"}
    PROVE  /\ step = 1 /\ sets["set"] # NoSet
           /\ sets' \in [Name -> {NoSet} \union SUBSET Entry]
           /\ sets'["set"] = IF call.kind = "Add" THEN sets["set"] \union {call.arg}
                                                  ELSE sets["set"] \ {call.arg}
<1>1. /\ call \in Calls /\ call.arg \in Entry /\ step = 1
      /\ ~Fails(Commands(call)[step]) /\ sets' = Effect(Commands(call)[step])
  BY CallKinds, ShortCommands DEF IInv, TypeOK, Exec
<1>2. TypeOK /\ "set" \in Name
  BY DEF IInv, Name
<1>3. CASE call.kind = "Add"
  <2>1. Commands(call)[step] = Cmd("add", "set", call.arg)
    BY <1>1, <1>3, ShortCommands
  <2>2. sets' = [sets EXCEPT !["set"] = sets["set"] \union {call.arg}] /\ sets["set"] # NoSet
    BY <1>1, <2>1 DEF Effect, Fails, Cmd
  <2>3. sets["set"] \union {call.arg} \in SUBSET Entry
    BY <1>1, <1>2, <2>2, TwoSets
  <2> QED BY <1>1, <1>2, <1>3, <2>2, <2>3, SetOne
<1>4. CASE call.kind = "Del"
  <2>1. Commands(call)[step] = Cmd("del", "set", call.arg)
    BY <1>1, <1>4, ShortCommands
  <2>2. sets' = [sets EXCEPT !["set"] = sets["set"] \ {call.arg}] /\ sets["set"] # NoSet
    BY <1>1, <2>1 DEF Effect, Fails, Cmd
  <2>3. sets["set"] \ {call.arg} \in SUBSET Entry
    BY <1>1, <1>2, <2>2, TwoSets
  <2> QED BY <1>1, <1>2, <1>4, <2>2, <2>3, SetOne
<1> QED BY <1>3, <1>4

\* What a command of Refresh does.
LEMMA ExecRefresh ==
    ASSUME IInv, Exec, call.kind = "Refresh"
    PROVE  /\ call.arg \in Seq(Entry) /\ Len(call.arg) \in Nat
           /\ step \in 1..(Len(call.arg) + 4)
           /\ sets' \in [Name -> {NoSet} \union SUBSET Entry]
           /\ step # Len(call.arg) + 3 => sets'["set"] = sets["set"]
           /\ step = 2 => sets'["temp"] = {}
           /\ step \in 3..(Len(call.arg) + 2) =>
                  sets'["temp"] = sets["temp"] \union {call.arg[step - 2]}
           /\ step = Len(call.arg) + 3 => /\ sets["set"] # NoSet
                                          /\ sets'["set"] = sets["temp"]
<1> DEFINE e == call.arg
           c == Commands(call)[step]
<1>1. call \in Calls /\ e \in Seq(Entry)
  BY CallKinds DEF IInv, TypeOK, Exec
<1>2. Commands(call) = Refresh(e)
  BY DEF Commands
<1>3. /\ Len(e) \in Nat /\ step \in 1..(Len(e) + 4)
      /\ ~Fails(c) /\ sets' = Effect(c)
  BY <1>1, <1>2, RefreshCommands DEF IInv, TypeOK, Exec
<1>4. TypeOK /\ "set" \in Name /\ "temp" \in Name
  BY DEF IInv, Name
<1>5. CASE step = 1
  <2>1. c = Cmd("create", "temp", Idle)
    BY <1>1, <1>2, <1>5, RefreshCommands
  <2>2. sets' = [sets EXCEPT !["temp"] = IF sets["temp"] = NoSet THEN {} ELSE sets["temp"]]
    BY <1>3, <2>1 DEF Effect, Cmd
  <2> DEFINE S == IF sets["temp"] = NoSet THEN {} ELSE sets["temp"]
  <2>3. S \in {NoSet} \union SUBSET Entry
    BY <1>4, TwoSets
  <2>4. sets' = [sets EXCEPT !["temp"] = S]
    BY <2>2
  <2> HIDE DEF S
  <2>5. sets'["set"] = sets["set"] /\ sets' \in [Name -> {NoSet} \union SUBSET Entry]
    BY <1>4, <2>3, <2>4, SetOne
  <2> QED BY <1>1, <1>3, <1>5, <2>5
<1>6. CASE step = 2
  <2>1. c = Cmd("flush", "temp", Idle)
    BY <1>1, <1>2, <1>6, RefreshCommands
  <2>2. sets' = [sets EXCEPT !["temp"] = {}]
    BY <1>3, <2>1 DEF Effect, Cmd
  <2>3. /\ sets'["set"] = sets["set"] /\ sets'["temp"] = {}
        /\ sets' \in [Name -> {NoSet} \union SUBSET Entry]
    BY <1>4, <2>2, SetOne
  <2> QED BY <1>1, <1>3, <1>6, <2>3
<1>7. CASE step \in 3..(Len(e) + 2)
  <2>1. step - 2 \in 1..Len(e) /\ step = (step - 2) + 2
    BY <1>3, <1>7
  <2>2. c = Cmd("add", "temp", e[step - 2]) /\ e[step - 2] \in Entry
    BY <1>1, <1>2, <2>1, RefreshCommands
  <2>3. /\ sets' = [sets EXCEPT !["temp"] = sets["temp"] \union {e[step - 2]}]
        /\ sets["temp"] # NoSet
    BY <1>3, <2>2 DEF Effect, Fails, Cmd
  <2>4. sets["temp"] \union {e[step - 2]} \in SUBSET Entry
    BY <1>4, <2>2, <2>3, TwoSets
  <2> DEFINE S == sets["temp"] \union {e[step - 2]}
  <2>5. sets' = [sets EXCEPT !["temp"] = S] /\ S \in {NoSet} \union SUBSET Entry
    BY <2>3, <2>4
  <2> HIDE DEF S
  <2>6. /\ sets'["set"] = sets["set"] /\ sets'["temp"] = S
        /\ sets' \in [Name -> {NoSet} \union SUBSET Entry]
    BY <1>4, <2>5, SetOne
  <2> QED BY <1>1, <1>3, <1>7, <2>6 DEF S
<1>8. CASE step = Len(e) + 3
  <2>1. c = Cmd("swap", "temp", Idle)
    BY <1>1, <1>2, <1>8, RefreshCommands
  <2>2. /\ sets' = [sets EXCEPT !["set"] = sets["temp"], !["temp"] = sets["set"]]
        /\ sets["set"] # NoSet
    BY <1>3, <2>1 DEF Effect, Fails, Cmd
  <2>3. /\ sets'["set"] = sets["temp"]
        /\ sets' \in [Name -> {NoSet} \union SUBSET Entry]
    BY <1>4, <2>2 DEF TypeOK, Name
  <2> QED BY <1>1, <1>3, <1>8, <2>2, <2>3
<1>9. CASE step = Len(e) + 4
  <2>1. c = Cmd("destroy", "temp", Idle)
    BY <1>1, <1>2, <1>9, RefreshCommands
  <2>2. sets' = [sets EXCEPT !["temp"] = NoSet]
    BY <1>3, <2>1 DEF Effect, Cmd
  <2>3. sets'["set"] = sets["set"] /\ sets' \in [Name -> {NoSet} \union SUBSET Entry]
    BY <1>4, <2>2, SetOne
  <2> QED BY <1>1, <1>3, <1>9, <2>3
<1> QED BY <1>3, <1>5, <1>6, <1>7, <1>8, <1>9

-----------------------------------------------------------------------------
\* A call begins before its first command.
LEMMA BeginIInv ==
    ASSUME IInv, NEW c \in Calls, Begin(c)
    PROVE  IInv'
<1>1. /\ call' = c /\ step' = 1 /\ sets' = sets /\ handle' = handle /\ result' = result
      /\ call' # Idle
  BY CallKinds DEF Begin
<1>2. Len(Commands(c)) \in Nat
  <2>1. c.kind = "Refresh" => Len(Commands(c)) \in Nat
    <3>1. c.kind = "Refresh" => c.arg \in Seq(Entry) /\ Commands(c) = Refresh(c.arg)
      BY CallKinds DEF Commands
    <3> QED BY <3>1, RefreshCommands
  <2> QED BY <2>1, CallKinds, ShortCommands
<1>3. TypeOK'
  <2>1. step' \in 1..(IF call' = Idle THEN 1 ELSE Len(Commands(call')) + 1)
    BY <1>1, <1>2
  <2>2. /\ sets' \in [Name -> {NoSet} \union SUBSET Entry] /\ handle' \in BOOLEAN
        /\ call' \in {Idle} \union Calls /\ result' \in {"none", "ok", "error"}
        /\ handle' => sets'["set"] # NoSet
    BY <1>1 DEF IInv, TypeOK
  <2> QED BY <2>1, <2>2 DEF TypeOK
<1>4. (NewSound /\ AddSound /\ DelSound)'
  BY <1>1 DEF NewSound, AddSound, DelSound
<1>5. RefreshSound'
  <2>1. c.kind = "Refresh" => Len(c.arg) \in Nat
    BY CallKinds
  <2> QED BY <1>1, <2>1 DEF RefreshSound, Calling
<1> QED BY <1>3, <1>4, <1>5 DEF IInv

\* The entries added after one more are those and that one.
LEMMA OneMore ==
    ASSUME NEW e, NEW k \in Nat
    PROVE  {e[i] : i \in 1..(k + 1)} = {e[i] : i \in 1..k} \union {e[k + 1]}
<1>1. 1..(k + 1) = (1..k) \union {k + 1}
  OBVIOUS
<1> QED BY <1>1

\* A command keeps what is known of its call.
LEMMA ExecIInv ==
    ASSUME IInv, Exec
    PROVE  IInv'
<1>1. /\ call \in Calls /\ call # Idle /\ call' = call /\ handle' = handle /\ result' = result
      /\ step' = step + 1 /\ handle \in BOOLEAN /\ result \in {"none", "ok", "error"}
      /\ step \in 1..(Len(Commands(call)) + 1)
  BY DEF IInv, TypeOK, Exec
<1>2. SUFFICES /\ sets' \in [Name -> {NoSet} \union SUBSET Entry]
               /\ sets["set"] # NoSet => sets'["set"] # NoSet
               /\ step' \in 1..(Len(Commands(call)) + 1)
               /\ (NewSound /\ AddSound /\ DelSound /\ RefreshSound)'
  BY <1>1 DEF IInv, TypeOK
<1>3. CASE call.kind = "New"
  <2>1. Len(Commands(call)) = 5
    BY <1>1, <1>3, ShortCommands
  <2>2. sets["set"] = NoSet \/ sets["set"] \in SUBSET Entry
    BY TwoSets DEF IInv
  <2>3. {} # NoSet
    BY NoSetAssumption
  <2>4. NewSound'
    <3>1. step = 4 => sets'["set"] # NoSet
      BY <1>3, <2>3, ExecNew
    <3>2. step = 5 => sets'["set"] = {}
      BY <1>3, ExecNew
    <3>3. step \in 1..5
      BY <1>3, ExecNew
    <3> QED BY <1>1, <2>3, <3>1, <3>2, <3>3 DEF NewSound
  <2>5. (AddSound /\ DelSound /\ RefreshSound)'
    BY <1>1, <1>3 DEF AddSound, DelSound, RefreshSound, Calling
  <2>6. /\ sets' \in [Name -> {NoSet} \union SUBSET Entry]
        /\ step \in 1..5
    BY <1>3, ExecNew
  <2>7. sets["set"] # NoSet => sets'["set"] # NoSet
    BY <1>3, <2>3, ExecNew
  <2> QED BY <1>1, <2>1, <2>4, <2>5, <2>6, <2>7
<1>4. CASE call.kind \in {"Add", "Del"}
  <2>1. Len(Commands(call)) = 1 /\ call.arg \in Entry
    BY <1>1, <1>4, ShortCommands, CallKinds
  <2>2. /\ step = 1 /\ sets["set"] # NoSet
        /\ sets' \in [Name -> {NoSet} \union SUBSET Entry]
        /\ sets'["set"] = IF call.kind = "Add" THEN sets["set"] \union {call.arg}
                                               ELSE sets["set"] \ {call.arg}
    BY <1>4, ExecAddDel
  <2>3. sets["set"] \in SUBSET Entry
    BY <2>2, TwoSets DEF IInv
  <2>4. sets'["set"] \in SUBSET Entry
    BY <2>1, <2>2, <2>3
  <2>5. sets'["set"] # NoSet
    BY <2>4, NoSetAssumption
  <2>6. (AddSound /\ DelSound)'
    BY <1>1, <1>4, <2>2, <2>5 DEF AddSound, DelSound, Calling
  <2>7. (NewSound /\ RefreshSound)'
    BY <1>1, <1>4 DEF NewSound, RefreshSound, Calling
  <2> QED BY <1>1, <2>1, <2>2, <2>5, <2>6, <2>7
<1>5. CASE call.kind = "Refresh"
  <2> DEFINE e == call.arg
  <2>1. /\ e \in Seq(Entry) /\ Len(e) \in Nat
        /\ step \in 1..(Len(e) + 4)
        /\ sets' \in [Name -> {NoSet} \union SUBSET Entry]
        /\ step # Len(e) + 3 => sets'["set"] = sets["set"]
        /\ step = 2 => sets'["temp"] = {}
        /\ step \in 3..(Len(e) + 2) =>
                  sets'["temp"] = sets["temp"] \union {e[step - 2]}
        /\ step = Len(e) + 3 => sets'["set"] = sets["temp"]
    BY <1>5, ExecRefresh
  <2>2. Len(Commands(call)) = Len(e) + 4
    BY <1>5, <2>1, RefreshCommands DEF Commands
  <2>3. /\ step \in 3..(Len(e) + 3) => sets["temp"] = {e[i] : i \in 1..(step - 3)}
        /\ step >= Len(e) + 4 => sets["set"] = ToSet(e)
    BY <1>1, <1>5 DEF IInv, RefreshSound, Calling
  <2> HIDE DEF e
  <2>4. step' \in 3..(Len(e) + 3) => sets'["temp"] = {e[i] : i \in 1..(step' - 3)}
    <3>1. CASE step = 2
      BY <1>1, <2>1, <3>1
    <3>2. CASE step \in 3..(Len(e) + 2)
      <4>1. step - 3 \in Nat /\ (step - 3) + 1 = step - 2 /\ step' - 3 = step - 2
        BY <1>1, <2>1, <3>2
      <4>2. {e[i] : i \in 1..(step - 2)} = {e[i] : i \in 1..(step - 3)} \union {e[step - 2]}
        BY <4>1, OneMore
      <4>3. step \in 3..(Len(e) + 3)
        BY <2>1, <3>2
      <4>4. sets'["temp"] = {e[i] : i \in 1..(step - 3)} \union {e[step - 2]}
        BY <2>1, <2>3, <3>2, <4>3
      <4>5. sets'["temp"] = {e[i] : i \in 1..(step - 2)}
        BY <4>2, <4>4
      <4> QED BY <4>1, <4>5
    <3> QED BY <1>1, <2>1, <3>1, <3>2
  <2>5. step' >= Len(e) + 4 => sets'["set"] = ToSet(e)
    <3>1. CASE step = Len(e) + 3
      <4>1. step - 3 = Len(e) /\ step \in 3..(Len(e) + 3)
        BY <2>1, <3>1
      <4>2. sets'["set"] = {e[i] : i \in 1..Len(e)}
        BY <2>1, <2>3, <3>1, <4>1
      <4>3. ToSet(e) = {e[i] : i \in 1..Len(e)}
        BY <2>1 DEF ToSet
      <4> QED BY <4>2, <4>3
    <3> QED BY <1>1, <2>1, <2>3, <3>1
  <2>6. RefreshSound'
    BY <1>1, <1>5, <2>4, <2>5 DEF RefreshSound, e
  <2>7. (NewSound /\ AddSound /\ DelSound)'
    BY <1>1, <1>5 DEF NewSound, AddSound, DelSound, Calling
  <2>8. sets["set"] # NoSet => sets'["set"] # NoSet
    <3>1. CASE step = Len(e) + 3
      <4>1. sets'["set"] = {e[i] : i \in 1..(step - 3)}
        BY <2>1, <2>3, <3>1
      <4>2. \A i \in 1..(step - 3) : e[i] \in Entry
        BY <2>1, <3>1
      <4>3. sets'["set"] \in SUBSET Entry
        BY <4>1, <4>2
      <4> QED BY <4>3, NoSetAssumption
    <3> QED BY <2>1, <3>1
  <2> QED BY <1>1, <2>1, <2>2, <2>6, <2>7, <2>8
<1> QED BY <1>1, <1>3, <1>4, <1>5, CallKinds

\* Every step keeps the invariant.
LEMMA NextIInv ==
    ASSUME IInv, [Next]_vars
    PROVE  IInv'
<1>1. CASE \E c \in Calls : Begin(c)
  BY <1>1, BeginIInv
<1>2. CASE Exec
  BY <1>2, ExecIInv
<1>3. ASSUME call' = Idle, step' = 1, result' \in {"none", "ok", "error"},
             handle' \in BOOLEAN, sets' \in [Name -> {NoSet} \union SUBSET Entry],
             handle' => sets'["set"] # NoSet
      PROVE  IInv'
  BY <1>3 DEF IInv, TypeOK, NewSound, AddSound, DelSound, RefreshSound, Calling
<1>4. /\ sets \in [Name -> {NoSet} \union SUBSET Entry] /\ handle \in BOOLEAN
      /\ handle => sets["set"] # NoSet
  BY DEF IInv, TypeOK
<1>5. CASE ExecFails
  BY <1>3, <1>4, <1>5 DEF ExecFails
<1>6. CASE Return
  <2>1. /\ call' = Idle /\ step' = 1 /\ result' = "ok" /\ sets' = sets
        /\ handle' = (handle \/ call.kind = "New")
    BY <1>6 DEF Return
  <2>2. call.kind = "New" => sets["set"] # NoSet
    <3>1. call \in Calls /\ call # Idle /\ step > Len(Commands(call)) /\ step \in Nat
      BY <1>6 DEF IInv, TypeOK, Return
    <3> QED BY <3>1, ShortCommands DEF IInv, NewSound, Calling
  <2> QED BY <1>3, <1>4, <2>1, <2>2
<1>7. CASE Crash
  BY <1>3, <1>4, <1>7 DEF Crash
<1>8. CASE UNCHANGED vars
  BY <1>8 DEF vars, IInv, TypeOK, NewSound, AddSound, DelSound, RefreshSound, Calling
<1> QED BY <1>1, <1>2, <1>5, <1>6, <1>7, <1>8 DEF Next

\* The invariant holds.
LEMMA Inductive == Spec => []IInv
<1>1. Init => IInv
  <2> SUFFICES ASSUME Init PROVE IInv
    OBVIOUS
  <2>1. TypeOK
    <3>1. [n \in Name |-> NoSet] \in [Name -> {NoSet} \union SUBSET Entry]
      OBVIOUS
    <3>2. step \in 1..(IF call = Idle THEN 1 ELSE Len(Commands(call)) + 1)
      BY DEF Init
    <3>3. /\ sets \in [Name -> {NoSet} \union SUBSET Entry] /\ handle \in BOOLEAN
          /\ call \in {Idle} \union Calls /\ result \in {"none", "ok", "error"}
          /\ handle = FALSE
      BY <3>1 DEF Init
    <3> QED BY <3>2, <3>3 DEF TypeOK
  <2>2. NewSound /\ AddSound /\ DelSound /\ RefreshSound
    BY DEF Init, NewSound, AddSound, DelSound, RefreshSound, Calling
  <2> QED BY <2>1, <2>2 DEF IInv
<1>2. IInv /\ [Next]_vars => IInv'
  BY NextIInv
<1> QED BY <1>1, <1>2, PTL DEF Spec

\* Type correctness of pkg/ipset: whatever fails and wherever the process stops,
\* a call is at one of its commands or past its last.
THEOREM TypeCorrect == Spec => []TypeOK
  BY Inductive, PTL DEF IInv

-----------------------------------------------------------------------------
(***************************************************************************)
(* The refinement: what the packet filter sees is sets["set"].             *)
(***************************************************************************)
LEMMA InitRefines ==
    ASSUME Init
    PROVE  Atomic!Init
  BY DEF Init, Atomic!Init, Name

\* The create and the flush of New, the add, the del and the swap make the change
\* that the call asks for; the filter sees nothing of the other commands.
LEMMA ExecRefines ==
    ASSUME IInv, Exec
    PROVE  Atomic!Change \/ UNCHANGED <<sets["set"], call, result>>
<1>1. call \in Calls /\ call # Idle /\ call' = call /\ result' = result
  BY DEF IInv, TypeOK, Exec
<1>2. ASSUME sets'["set"] = Atomic!Asked(call, sets["set"]),
             sets["set"] # NoSet \/ call.kind = "New"
      PROVE  Atomic!Change
  BY <1>1, <1>2 DEF Atomic!Change
<1>3. CASE call.kind = "New"
  <2>1. Atomic!Asked(call, sets["set"]) = {}
    BY <1>3 DEF Atomic!Asked
  <2>2. sets'["set"] = sets["set"] \/ sets'["set"] = {}
    BY <1>3, ExecNew
  <2> QED BY <1>1, <1>2, <1>3, <2>1, <2>2
<1>4. CASE call.kind \in {"Add", "Del"}
  <2>1. sets["set"] # NoSet
    BY <1>4, ExecAddDel
  <2>2. sets'["set"] = IF call.kind = "Add" THEN sets["set"] \union {call.arg}
                                           ELSE sets["set"] \ {call.arg}
    BY <1>4, ExecAddDel
  <2>3. Atomic!Asked(call, sets["set"])
            = IF call.kind = "Add" THEN sets["set"] \union {call.arg}
                                   ELSE sets["set"] \ {call.arg}
    BY <1>4 DEF Atomic!Asked
  <2> QED BY <1>2, <2>1, <2>2, <2>3
<1>5. CASE call.kind = "Refresh"
  <2> DEFINE n == Len(call.arg)
  <2>1. n \in Nat /\ call.arg \in Seq(Entry)
    BY <1>5, ExecRefresh
  <2>2. CASE step = n + 3
    <3>1. sets["set"] # NoSet /\ sets'["set"] = sets["temp"]
      BY <1>5, <2>2, ExecRefresh
    <3>2. step \in 3..(n + 3) /\ step - 3 = n
      BY <2>1, <2>2
    <3>3. sets["temp"] = {call.arg[i] : i \in 1..n}
      BY <1>1, <1>5, <3>2 DEF IInv, RefreshSound, Calling
    <3>4. Atomic!Asked(call, sets["set"]) = ToSet(call.arg)
      BY <1>5 DEF Atomic!Asked, Atomic!ToSet, ToSet
    <3>5. ToSet(call.arg) = {call.arg[i] : i \in 1..n}
      BY <2>1 DEF ToSet
    <3> QED BY <1>2, <3>1, <3>3, <3>4, <3>5
  <2>3. CASE step # n + 3
    <3>1. sets'["set"] = sets["set"]
      BY <1>5, <2>3, ExecRefresh
    <3> QED BY <1>1, <3>1
  <2> QED BY <2>2, <2>3
<1> QED BY <1>1, <1>3, <1>4, <1>5, CallKinds

\* A call that returns without an error has made its change.
LEMMA ReturnRefines ==
    ASSUME IInv, Return
    PROVE  Atomic!Succeed
<1>1. call \in Calls /\ call # Idle /\ call' = Idle /\ result' = "ok" /\ sets' = sets
  BY DEF IInv, TypeOK, Return
<1>2. step = Len(Commands(call)) + 1
  <2>1. step > Len(Commands(call)) /\ step \in 1..(Len(Commands(call)) + 1)
    BY <1>1 DEF IInv, TypeOK, Return
  <2>2. Len(Commands(call)) \in Nat
    <3>1. call.kind = "Refresh" => call.arg \in Seq(Entry) /\ Commands(call) = Refresh(call.arg)
      BY <1>1, CallKinds DEF Commands
    <3>2. call.kind = "Refresh" => Len(Commands(call)) \in Nat
      BY <3>1, RefreshCommands
    <3> QED BY <1>1, <3>2, CallKinds, ShortCommands
  <2> QED BY <2>1, <2>2
<1>3. SUFFICES sets["set"] # NoSet /\ sets["set"] = Atomic!Asked(call, sets["set"])
  BY <1>1 DEF Atomic!Succeed
<1>4. CASE call.kind = "New"
  <2>0. Len(Commands(call)) = 5
    BY <1>1, <1>4, ShortCommands
  <2>1. step = 6
    BY <1>2, <2>0
  <2>2. sets["set"] = {} /\ sets["set"] # NoSet
    BY <1>1, <1>4, <2>1 DEF IInv, NewSound, Calling
  <2> QED BY <1>4, <2>2 DEF Atomic!Asked
<1>5. CASE call.kind = "Add"
  <2>0. Len(Commands(call)) = 1
    BY <1>1, <1>5, ShortCommands
  <2>1. step = 2
    BY <1>2, <2>0
  <2>2. sets["set"] # NoSet /\ call.arg \in sets["set"]
    BY <1>1, <1>5, <2>1 DEF IInv, AddSound, Calling
  <2> QED BY <1>5, <2>2 DEF Atomic!Asked
<1>6. CASE call.kind = "Del"
  <2>0. Len(Commands(call)) = 1
    BY <1>1, <1>6, ShortCommands
  <2>1. step = 2
    BY <1>2, <2>0
  <2>2. sets["set"] # NoSet /\ call.arg \notin sets["set"]
    BY <1>1, <1>6, <2>1 DEF IInv, DelSound, Calling
  <2> QED BY <1>6, <2>2 DEF Atomic!Asked
<1>7. CASE call.kind = "Refresh"
  <2> DEFINE n == Len(call.arg)
  <2>1. call.arg \in Seq(Entry) /\ Commands(call) = Refresh(call.arg)
    BY <1>1, <1>7, CallKinds DEF Commands
  <2>2. n \in Nat /\ step = n + 5
    BY <1>2, <2>1, RefreshCommands
  <2>3. sets["set"] = ToSet(call.arg)
    BY <1>1, <1>7, <2>2 DEF IInv, RefreshSound, Calling
  <2>4. ToSet(call.arg) \in SUBSET Entry
    BY <2>1 DEF ToSet
  <2>5. sets["set"] # NoSet
    BY <2>3, <2>4, NoSetAssumption
  <2>6. Atomic!Asked(call, sets["set"]) = ToSet(call.arg)
    BY <1>7 DEF Atomic!Asked, Atomic!ToSet, ToSet
  <2> QED BY <2>3, <2>5, <2>6
<1> QED BY <1>1, <1>4, <1>5, <1>6, <1>7, CallKinds

\* Every step is one of AtomicSet or leaves the set as it is.
LEMMA NextRefines ==
    ASSUME IInv, [Next]_vars
    PROVE  [Atomic!Next]_(Atomic!asVars)
<1>1. CASE \E c \in Calls : Begin(c)
  <2> PICK c \in Calls : Begin(c)
    BY <1>1
  <2>1. Atomic!Begin(c)
    BY DEF Begin, Atomic!Begin
  <2> QED BY <2>1 DEF Atomic!Next
<1>2. CASE Exec
  BY <1>2, ExecRefines DEF Atomic!Next, Atomic!asVars
<1>3. CASE ExecFails
  <2>1. Atomic!Fail
    BY <1>3 DEF ExecFails, Atomic!Fail
  <2> QED BY <2>1 DEF Atomic!Next
<1>4. CASE Return
  BY <1>4, ReturnRefines DEF Atomic!Next
<1>5. CASE Crash
  <2>1. sets'["set"] \in {sets["set"], NoSet}
    BY <1>5 DEF Crash, Name
  <2>2. Atomic!Lost
    BY <1>5, <2>1 DEF Crash, Atomic!Lost
  <2> QED BY <2>2 DEF Atomic!Next
<1>6. CASE UNCHANGED vars
  BY <1>6 DEF vars, Atomic!asVars
<1> QED BY <1>1, <1>2, <1>3, <1>4, <1>5, <1>6 DEF Next

\* The hot swap of Refresh and the other calls of pkg/ipset, with failures and
\* crashes between any two commands, implement a set that changes in one step.
THEOREM Implementation == Spec => ImplementsAtomicSet
<1>1. IInv /\ [Next]_vars => [Atomic!Next]_(Atomic!asVars)
  BY NextRefines
<1>2. Init => Atomic!Init
  BY InitRefines
<1> QED BY <1>1, <1>2, Inductive, PTL DEF Spec, Atomic!Spec, ImplementsAtomicSet
=============================================================================
