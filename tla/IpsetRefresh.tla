---------------------------- MODULE IpsetRefresh ----------------------------
(***************************************************************************)
(* pkg/ipset: New, Add, Del and Refresh on one set, command by command.    *)
(* Every command may fail and the process or the node may stop between two *)
(* of them.  Refresh fills a second set, <name>-temp, and swaps the two.   *)
(* Entries have no timeout (Add with timeout 0).                           *)
(***************************************************************************)
EXTENDS Naturals, Sequences, SequencesExt, FiniteSets

CONSTANTS
    Entry,
    Lists,           \* the arguments of Refresh: sequences of entries
    HashType,        \* the set types New is asked for
    IsHash,          \* the ones that begin with "hash:"
    Version,         \* <<X, Y>> of the "vX.Y" that ipset --version shows
    ParamMaxElem,    \* Params.MaxElem, 0 if it is not given
    DefaultMaxElem,  \* and what stands for it then
    Idle,
    NoSet

ASSUME ListsAssumption == Lists \subseteq Seq(Entry)
ASSUME IsHashAssumption == IsHash \subseteq HashType
ASSUME NoSetAssumption == \A S \in SUBSET Entry : S # NoSet

VARIABLES
    sets,     \* the content of the set and of the temporary one
    handle,   \* the process has an IPSet that New returned
    call,     \* the call under way
    step,     \* its next command
    result    \* how the last one ended

vars == <<sets, handle, call, step, result>>

Name == {"set", "temp"}

Calls ==
    [kind : {"New"}, arg : HashType] \union [kind : {"Add", "Del"}, arg : Entry]
        \union [kind : {"Refresh"}, arg : Lists]

ASSUME IdleAssumption == \A c \in Calls : c # Idle

MaxElem == IF ParamMaxElem = 0 THEN DefaultMaxElem ELSE ParamMaxElem

minIpsetVersion == <<6, 0>>

\* getIpsetSupportedVersion.
Supported ==
    \/ Version[1] > minIpsetVersion[1]
    \/ Version[1] = minIpsetVersion[1] /\ Version[2] >= minIpsetVersion[2]

(***************************************************************************)
(* The commands of each call.                                              *)
(***************************************************************************)
Cmd(op, name, arg) == [op |-> op, set |-> name, arg |-> arg]

createHashSet(name) == <<Cmd("create", name, Idle), Cmd("flush", name, Idle)>>

initCheck == <<Cmd("lookPath", "set", Idle), Cmd("version", "set", Idle)>>

New(type) == <<Cmd("prefix", "set", type)>> \o initCheck \o createHashSet("set")

\* Mutant: the set is emptied and filled in place.
RefreshInPlace(entries) ==
    createHashSet("set")
        \o [i \in 1..Len(entries) |-> Cmd("add", "set", entries[i])]

\* Mutant: after the swap the set itself is destroyed.
RefreshDestroysSet(entries) ==
    createHashSet("temp")
        \o [i \in 1..Len(entries) |-> Cmd("add", "temp", entries[i])]
        \o <<Cmd("swap", "temp", Idle), Cmd("destroy", "set", Idle)>>

Refresh(entries) ==
    createHashSet("temp")
        \o [i \in 1..Len(entries) |-> Cmd("add", "temp", entries[i])]
        \o <<Cmd("swap", "temp", Idle), Cmd("destroy", "temp", Idle)>>

Commands(c) ==
    CASE c.kind = "New" -> New(c.arg)
      [] c.kind = "Add" -> <<Cmd("add", "set", c.arg)>>
      [] c.kind = "Del" -> <<Cmd("del", "set", c.arg)>>
      [] c.kind = "Refresh" -> Refresh(c.arg)

Full(S, e) == e \notin S /\ Cardinality(S) >= MaxElem

\* When a command, or the check that stands for it, fails of itself.
Fails(c) ==
    \/ c.op = "prefix" /\ c.arg \notin IsHash
    \/ c.op = "version" /\ ~Supported
    \/ c.op \in {"flush", "add", "del", "destroy", "swap"} /\ sets[c.set] = NoSet
    \/ c.op = "swap" /\ sets["set"] = NoSet
    \/ c.op = "add" /\ Full(sets[c.set], c.arg)

Effect(c) ==
    CASE c.op = "create" ->
             [sets EXCEPT ![c.set] = IF @ = NoSet THEN {} ELSE @]
      [] c.op = "flush" -> [sets EXCEPT ![c.set] = {}]
      [] c.op = "add" -> [sets EXCEPT ![c.set] = @ \union {c.arg}]
      [] c.op = "del" -> [sets EXCEPT ![c.set] = @ \ {c.arg}]
      [] c.op = "swap" -> [sets EXCEPT !["set"] = sets["temp"], !["temp"] = sets["set"]]
      [] c.op = "destroy" -> [sets EXCEPT ![c.set] = NoSet]
      [] OTHER -> sets

(***************************************************************************)
(* The calls.                                                              *)
(***************************************************************************)
\* The methods are called on what New returned.
Begin(c) ==
    /\ call = Idle
    /\ c.kind = "New" \/ handle
    /\ call' = c /\ step' = 1
    /\ UNCHANGED <<sets, handle, result>>

Exec ==
    /\ call # Idle /\ step <= Len(Commands(call))
    /\ ~Fails(Commands(call)[step])
    /\ sets' = Effect(Commands(call)[step])
    /\ step' = step + 1
    /\ UNCHANGED <<handle, call, result>>

\* The first command that fails, for a reason shown here or for any other,
\* ends the call with its error.
ExecFails ==
    /\ call # Idle /\ step <= Len(Commands(call))
    /\ call' = Idle /\ step' = 1 /\ result' = "error"
    /\ UNCHANGED <<sets, handle>>

Return ==
    /\ call # Idle /\ step > Len(Commands(call))
    /\ handle' = (handle \/ call.kind = "New")
    /\ call' = Idle /\ step' = 1 /\ result' = "ok"
    /\ UNCHANGED sets

\* The process ends, alone or with the node.
Crash ==
    /\ handle' = FALSE
    /\ call' = Idle /\ step' = 1 /\ result' = "none"
    /\ sets' \in {sets, [n \in Name |-> NoSet]}

-----------------------------------------------------------------------------
Init ==
    /\ sets = [n \in Name |-> NoSet]
    /\ handle = FALSE
    /\ call = Idle /\ step = 1 /\ result = "none"

Next ==
    \/ \E c \in Calls : Begin(c)
    \/ Exec
    \/ ExecFails
    \/ Return
    \/ Crash

Spec == Init /\ [][Next]_vars

(***************************************************************************)
(* Properties.                                                             *)
(***************************************************************************)
\* The shape of the state: an IPSet that New returned names a set that is there,
\* whatever calls have failed or were cut off since.
TypeOK ==
    /\ sets \in [Name -> {NoSet} \union SUBSET Entry]
    /\ handle \in BOOLEAN /\ (handle => sets["set"] # NoSet)
    /\ call \in {Idle} \union Calls
    /\ step \in 1..(IF call = Idle THEN 1 ELSE Len(Commands(call)) + 1)
    /\ result \in {"none", "ok", "error"}

Atomic == INSTANCE AtomicSet WITH content <- sets["set"]

\* "The ipset is updated on the fly by hot swapping it with a temporary set":
\* whatever a failed, interrupted or oversized Refresh left behind, the packet
\* filter sees the old content or the new one, and after a success the new one.
ImplementsAtomicSet == Atomic!Spec
=============================================================================
