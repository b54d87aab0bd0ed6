--------------------------- MODULE MCIpsetRefresh ---------------------------
(***************************************************************************)
(* A small instance of IpsetRefresh for TLC.                               *)
(***************************************************************************)
EXTENDS IpsetRefresh, TLC

CONSTANTS e1, e2, e3

\* Nothing, one entry, two, one twice, and more than the set can hold.
MCLists == {<<>>, <<e1>>, <<e2, e1>>, <<e1, e1>>, <<e3, e2, e1>>}

MCVersion == <<6, 38>>
=============================================================================
