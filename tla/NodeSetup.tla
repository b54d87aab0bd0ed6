------------------------------ MODULE NodeSetup ------------------------------
(***************************************************************************)
(* The life of the controller process on one node: main, the one-time      *)
(* setup that Run does before it starts the workers (Setup of pkg/gateway  *)
(* and pkg/director), and the way it ends: a fatal error, a signal, a      *)
(* crash, a reboot of the node.  The kernel's chains and rules outlive the *)
(* process, /etc/iproute2/rt_tables of the host outlives a reboot, and the *)
(* process is always started again (a DaemonSet).                          *)
(***************************************************************************)
EXTENDS Naturals, Sequences, SequencesExt

CONSTANTS
    Worker,       \* the goroutines Run starts
    Addresses,    \* the addresses of the node object: [type, ip]
    None,         \* an argument a step does not have
    Masquerade,   \* the jump of the CNI plugin in POSTROUTING
    MaxFaults     \* bound on crashes, reboots, signals and failing steps

\* STATIC-EGRESS-FORWARD-CHAIN, STATIC-EGRESS-NAT-CHAIN, STATIC-EGRESS-BYPASS-CNI
Chain == {"forward", "nat", "bypass"}

ASSUME SetupBoundAssumption == MaxFaults \in Nat
ASSUME MasqueradeAssumption == Masquerade \notin Chain

VARIABLES
    phase,     \* how far main has come
    pc,        \* the step of Setup that is next
    listed,    \* egressIPsSynced
    busy,      \* the workers that process an item
    stop,      \* stopCh is closed
    tables,    \* rt_tables names the table kube-static-egress-ip
    net,       \* what Setup configures in the kernel
    faults

vars == <<phase, pc, listed, busy, stop, tables, net, faults>>

EmptyNet ==
    [rpOff   |-> {},     \* where rp_filter is disabled
     chains  |-> {},     \* the chains that were made
     FORWARD |-> <<>>,   \* the jumps in FORWARD of filter
     POST    |-> <<>>,   \* the jumps in POSTROUTING of nat
     rules   |-> 0]      \* policy rules that look up the table

Fault == faults < MaxFaults /\ faults' = faults + 1

(***************************************************************************)
(* The steps.  The error of a step ends the process, or is only logged.    *)
(***************************************************************************)
Do(op, arg) == [op |-> op, arg |-> arg]

NewEgressIPController == <<Do("GetNodeObject", None)>>

\* Run: the two files of /proc/sys/net/ipv4/conf.
DisableRpFilter == <<Do("rp_filter", "all"), Do("rp_filter", "default")>>

NewEgressGateway == <<Do("iptables", None)>>

\* Mutant: the NAT chain is made under the name of defaultEgressChainName.
GatewaySetupDefaultName ==
    <<Do("NewChain", "forward"), Do("AppendJump", "forward"),
      Do("NewChain", "default"), Do("InsertJump", "default")>>

GatewaySetup ==
    <<Do("NewChain", "forward"), Do("AppendJump", "forward"),
      Do("NewChain", "nat"), Do("InsertJump", "nat")>>

NewEgressDirector ==
    <<Do("iptables", None), Do("GetNodeObject", None), Do("GetNodeIP", None)>>

DirectorSetup ==
    <<Do("AddTable", None), Do("AddRule", None),
      Do("NewChain", "bypass"), Do("InsertJump", "bypass")>>

Steps == NewEgressIPController \o DisableRpFilter \o NewEgressGateway
             \o GatewaySetup \o NewEgressDirector \o DirectorSetup

\* The address of a node: its first internal one, or else its first external
\* one, or none.
GetNodeIP(addresses) ==
    LET Of(type) == SelectSeq(addresses, LAMBDA a : a.type = type)
        found == Of("InternalIP") \o Of("ExternalIP")
    IN  IF found = <<>> THEN None ELSE Head(found).ip

\* ip rule list shows a table by its name if rt_tables has one for it.
RuleListed == tables /\ net.rules > 0

\* Mutant: NewChain's exit status is not looked at.
StepFailsOnChain(c) == c.op = "NewChain" /\ c.arg \in net.chains

\* NewChain reports exit status 1 for a chain that exists, which is accepted.
StepFails(c) ==
    \/ c.op = "GetNodeIP" /\ GetNodeIP(Addresses) = None
    \/ c.op \in {"AppendJump", "InsertJump"} /\ c.arg \notin net.chains
    \/ c.op = "AddRule" /\ ~tables

\* A jump is added unless it exists.
appendJump(chain, j) == IF j \in ToSet(chain) THEN chain ELSE Append(chain, j)

\* Mutant: the jump is inserted without looking whether it exists.
insertJumpAlways(chain, j) == <<j>> \o chain

insertJump(chain, j) == IF j \in ToSet(chain) THEN chain ELSE <<j>> \o chain

\* What a step does to the kernel.
StepEffect(c) ==
    CASE c.op = "rp_filter" -> [net EXCEPT !.rpOff = @ \union {c.arg}]
      [] c.op = "NewChain" -> [net EXCEPT !.chains = @ \union {c.arg}]
      [] c.op = "AppendJump" -> [net EXCEPT !.FORWARD = appendJump(@, c.arg)]
      [] c.op = "InsertJump" -> [net EXCEPT !.POST = insertJump(@, c.arg)]
      [] c.op = "AddRule" -> [net EXCEPT !.rules = IF RuleListed THEN @ ELSE @ + 1]
      [] OTHER -> net

(***************************************************************************)
(* The process.                                                            *)
(***************************************************************************)
\* The process is gone.
Ends ==
    /\ phase' = "down" /\ pc' = 1
    /\ listed' = FALSE /\ busy' = {} /\ stop' = FALSE

\* main sets up the signals, makes the controller and calls Run.
Start ==
    /\ phase = "down"
    /\ phase' = "setup"
    /\ UNCHANGED <<pc, listed, busy, stop, tables, net, faults>>

Step ==
    /\ phase = "setup" /\ ~StepFails(Steps[pc])
    /\ net' = StepEffect(Steps[pc])
    /\ tables' = (tables \/ Steps[pc].op = "AddTable")
    /\ IF pc = Len(Steps) THEN phase' = "sync" /\ pc' = pc
                          ELSE phase' = phase /\ pc' = pc + 1
    /\ UNCHANGED <<listed, busy, stop, faults>>

\* glog.Fatalf, or, where NewEgressIPController ignores the error, a panic.
Fatal ==
    /\ phase = "setup" /\ Steps[pc].op # "rp_filter"
    /\ IF StepFails(Steps[pc]) THEN UNCHANGED faults ELSE Fault
    /\ Ends
    /\ UNCHANGED <<tables, net>>

\* The error is only logged.
FilterStays ==
    /\ phase = "setup" /\ Steps[pc].op = "rp_filter"
    /\ Fault
    /\ pc' = pc + 1
    /\ UNCHANGED <<phase, listed, busy, stop, tables, net>>

\* The informers run since before Run.
List ==
    /\ phase # "down" /\ ~listed
    /\ listed' = TRUE
    /\ UNCHANGED <<phase, pc, busy, stop, tables, net, faults>>

\* WaitForCacheSync returns true and the workers are started.
Serve ==
    /\ phase = "sync" /\ listed
    /\ phase' = "serving"
    /\ UNCHANGED <<pc, listed, busy, stop, tables, net, faults>>

\* WaitForCacheSync finds stopCh closed; main makes Run's error fatal.
SyncStopped ==
    /\ phase = "sync" /\ stop
    /\ Ends
    /\ UNCHANGED <<tables, net, faults>>

\* A worker goes on until the queue is shut down and empty.
Get(w) ==
    /\ phase \in {"serving", "returned"} /\ w \notin busy
    /\ busy' = busy \union {w}
    /\ UNCHANGED <<phase, pc, listed, stop, tables, net, faults>>

Done(w) ==
    /\ w \in busy
    /\ busy' = busy \ {w}
    /\ UNCHANGED <<phase, pc, listed, stop, tables, net, faults>>

\* Run shuts the queue down and returns.
Return ==
    /\ phase = "serving" /\ stop
    /\ phase' = "returned"
    /\ UNCHANGED <<pc, listed, busy, stop, tables, net, faults>>

\* main returns.
Exit ==
    /\ phase = "returned"
    /\ Ends
    /\ UNCHANGED <<tables, net, faults>>

\* The first signal closes stopCh, the second one ends the process.
Signal ==
    /\ phase # "down" /\ Fault
    /\ IF stop THEN Ends ELSE stop' = TRUE /\ UNCHANGED <<phase, pc, listed, busy>>
    /\ UNCHANGED <<tables, net>>

Crash ==
    /\ phase # "down" /\ Fault
    /\ Ends
    /\ UNCHANGED <<tables, net>>

\* The kernel starts empty; the file is there still, or restored from an image.
Reboot ==
    /\ Fault
    /\ Ends
    /\ net' = EmptyNet /\ tables' \in {tables, FALSE}

\* The CNI plugin appends its jump.  (With an agent that inserts one at position
\* 1 after the setup the bypass is not the first jump any more: the code looks
\* whether its jumps are there, not where.)
Cni ==
    /\ Masquerade \notin ToSet(net.POST)
    /\ net' = [net EXCEPT !.POST = Append(@, Masquerade)]
    /\ UNCHANGED <<phase, pc, listed, busy, stop, tables, faults>>

-----------------------------------------------------------------------------
Init ==
    /\ phase = "down" /\ pc = 1
    /\ listed = FALSE /\ busy = {} /\ stop = FALSE
    /\ tables = FALSE /\ net = EmptyNet
    /\ faults = 0

Process ==
    \/ Start
    \/ Step
    \/ Fatal
    \/ FilterStays
    \/ Serve
    \/ SyncStopped
    \/ Return
    \/ Exit

Next ==
    \/ Process
    \/ List
    \/ \E w \in Worker : Get(w) \/ Done(w)
    \/ Signal
    \/ Crash
    \/ Reboot
    \/ Cni

Spec == Init /\ [][Next]_vars

\* kubelet starts the process, its goroutines run and the list arrives.
FairSpec == Spec /\ WF_vars(Process) /\ WF_vars(List) /\ WF_vars(Cni)

(***************************************************************************)
(* Properties.                                                             *)
(***************************************************************************)
\* The shape of the state.
TypeOK ==
    /\ phase \in {"down", "setup", "sync", "serving", "returned"}
    /\ pc \in 1..Len(Steps)
    /\ listed \in BOOLEAN /\ stop \in BOOLEAN /\ tables \in BOOLEAN
    /\ busy \subseteq Worker
    /\ net.rpOff \subseteq {"all", "default"} /\ net.chains \subseteq Chain
    /\ net.FORWARD \in Seq(Chain) /\ net.POST \in Seq(Chain \union {Masquerade})
    /\ net.rules \in Nat /\ faults \in 0..MaxFaults

\* Jump j is in the chain once, before every jump in S.
OnceBefore(chain, j, S) ==
    \E i \in 1..Len(chain) :
        /\ chain[i] = j
        /\ \A k \in 1..Len(chain) : chain[k] = j => k = i
        /\ \A k \in 1..Len(chain) : chain[k] \in S => i < k

\* Whenever workers run, after however many interrupted setups, restarts and
\* reboots, the node is as Setup has to leave it: the table has a name and one
\* policy rule, the chains are there, and traffic comes to each of them once, to
\* the bypass before the SNAT rules and to both before the CNI's masquerade.
SetUpWhenServing ==
    phase \in {"serving", "returned"} =>
        /\ tables /\ net.rules = 1
        /\ Chain \subseteq net.chains
        /\ OnceBefore(net.FORWARD, "forward", {})
        /\ OnceBefore(net.POST, "bypass", {"nat", Masquerade})
        /\ OnceBefore(net.POST, "nat", {Masquerade})

\* What earlier incarnations left in the kernel and in rt_tables never keeps
\* the controller from coming up: when crashes, signals and reboots end, it
\* serves for good.
Serves == <>[](phase = "serving" /\ Masquerade \in ToSet(net.POST))

\* "it will shutdown the workqueue and wait for workers to finish processing
\* their current work items" (Run).
WaitsForWorkers == phase = "returned" => busy = {}
=============================================================================
