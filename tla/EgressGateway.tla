---------------------------- MODULE EgressGateway ----------------------------
(***************************************************************************)
(* The operations of pkg/gateway as the commands they run, in order.       *)
(* DeleteStaticIptablesRule, which nothing calls, is the same text as      *)
(* ClearStaticIptablesRule.                                                *)
(***************************************************************************)
EXTENDS NodeKernel

AddStaticIptablesRule(s, ips, dst, eip) ==
    FillSet(s, ips) \o
    <<Cmd("forward", s, dst, None)>> \o
    insertRule(s, dst, eip) \o
    <<Cmd("retmark", None, dst, eip)>>

ClearStaticIptablesRule(s, dst, eip) ==
    <<Cmd("unsnat", s, dst, eip), Cmd("unforward", s, dst, None)>> \o
    NewSet(s) \o
    <<Cmd("destroy", s, None, None)>>

ConfigureStaticIP(eip) == <<Cmd("addrAdd", None, None, eip)>>

RemoveStaticIP(eip) == <<Cmd("addrDel", None, None, eip)>>
=============================================================================
