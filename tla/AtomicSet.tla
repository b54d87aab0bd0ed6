------------------------------ MODULE AtomicSet ------------------------------
(***************************************************************************)
(* What the ipset wrapper of this repository (pkg/ipset) promises a packet *)
(* filter that looks at a set while it is being changed: the set changes   *)
(* only from its old content to the one the call asks for, in one step,    *)
(* and a call that reports success has made that change.                   *)
(***************************************************************************)
EXTENDS Sequences, SequencesExt

CONSTANTS
    Calls,    \* the calls users make: [kind, arg]
    Idle,     \* no call is under way
    NoSet     \* the content of a set that does not exist

VARIABLES
    content,  \* what the packet filter sees under the set's name
    call,     \* the call under way
    result    \* how the last one ended

asVars == <<content, call, result>>

\* The content that a call asks for.
Asked(c, S) ==
    CASE c.kind = "New" -> {}
      [] c.kind = "Add" -> S \union {c.arg}
      [] c.kind = "Del" -> S \ {c.arg}
      [] c.kind = "Refresh" -> ToSet(c.arg)

Init == content = NoSet /\ call = Idle /\ result = "none"

Begin(c) ==
    /\ call = Idle
    /\ call' = c
    /\ UNCHANGED <<content, result>>

\* The one change of a call; New also makes the set.
Change ==
    /\ call # Idle
    /\ content # NoSet \/ call.kind = "New"
    /\ content' = Asked(call, content)
    /\ UNCHANGED <<call, result>>

Succeed ==
    /\ call # Idle
    /\ content # NoSet /\ content = Asked(call, content)
    /\ call' = Idle /\ result' = "ok"
    /\ UNCHANGED content

\* With or without the change.
Fail ==
    /\ call # Idle
    /\ call' = Idle /\ result' = "error"
    /\ UNCHANGED content

\* The process ends; the set goes only with the kernel.
Lost ==
    /\ call' = Idle /\ result' = "none"
    /\ content' \in {content, NoSet}

Next ==
    \/ \E c \in Calls : Begin(c)
    \/ Change
    \/ Succeed
    \/ Fail
    \/ Lost

Spec == Init /\ [][Next]_asVars
=============================================================================
