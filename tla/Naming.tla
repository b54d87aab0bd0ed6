------------------------------- MODULE Naming -------------------------------
(***************************************************************************)
(* The texts by which the code tells addresses, tunnels and rules apart.   *)
(* A text is a sequence of characters; an address is its four octets.      *)
(***************************************************************************)
EXTENDS Naturals, SequencesExt

\* Characters: the digits are 0 to 9.
Dot == 10
Tun == 11      \* "tun"

\* strconv.Itoa.
Itoa[n \in Nat] == IF n < 10 THEN <<n>> ELSE Append(Itoa[n \div 10], n % 10)

\* net.IP.String.
IPString(ip) ==
    Itoa[ip[1]] \o <<Dot>> \o Itoa[ip[2]] \o <<Dot>> \o Itoa[ip[3]] \o <<Dot>> \o Itoa[ip[4]]

\* strings.Contains.
Occurs(part, text) == part \in SubSeqs(text)

\* "tun" and the address without its dots.
tunnelName(ip) == <<Tun>> \o SelectSeq(IPString(ip), LAMBDA c : c # Dot)

\* What generateRuleId makes of the name of an object: the namespace and the
\* name follow each other.
fullName(namespace, name) == namespace \o name
=============================================================================
