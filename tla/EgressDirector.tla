--------------------------- MODULE EgressDirector ---------------------------
(***************************************************************************)
(* The operations of pkg/director as the commands they run, in order.  The *)
(* first command that fails ends the operation with its error.             *)
(***************************************************************************)
EXTENDS NodeKernel

AddRouteToGateway(s, ips, dst, gw) ==
    FillSet(s, ips) \o
    <<Cmd("mark", s, dst, None), Cmd("bypass", s, dst, None)>> \o
    EnsureTunnel(gw) \o
    <<Cmd("routeListAddr", None, dst, None), Cmd("routeAdd", None, dst, gw)>>

\* The route is deleted, by its next hop, where it is not listed.
DeleteRoute(dst) ==
    <<Cmd("routeList", None, dst, None), Cmd("routeDeleteVia", None, dst, None)>>

ClearStaleRouteToGateway(s, dst) ==
    <<Cmd("unmark", s, dst, None), Cmd("unbypass", s, dst, None)>> \o
    DeleteRoute(dst)

DeleteRouteToGateway(s, dst) ==
    NewSet(s) \o
    ClearStaleRouteToGateway(s, dst) \o
    <<Cmd("destroy", s, None, None)>>
=============================================================================
