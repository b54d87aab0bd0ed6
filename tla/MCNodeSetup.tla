---------------------------- MODULE MCNodeSetup ----------------------------
(***************************************************************************)
(* Small instances of NodeSetup for TLC.                                   *)
(***************************************************************************)
EXTENDS NodeSetup, TLC

CONSTANTS a1, a2

\* A node whose external address is listed first.
MCAddresses == <<[type |-> "ExternalIP", ip |-> a1], [type |-> "InternalIP", ip |-> a2]>>
=============================================================================
