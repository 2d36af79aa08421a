------------------------------- MODULE MCRules -------------------------------
(***************************************************************************)
(* The two specifications that use Heuristics, TTLPath and Scanner, in one *)
(* run.  They share no variable, so each is explored while the other one   *)
(* has not begun: the packet has passed no router while vendors are added, *)
(* and it is one packet for them all, and nothing was added while packets  *)
(* are on their way.                                                       *)
(***************************************************************************)
EXTENDS TTLPath, Scanner

(* The addresses next to every border of the local ranges.                 *)
MCAddresses ==
  {IPv4(a, b) : a \in {10, 127}, b \in {0, 255}}
    \cup {IPv4(9, 255), IPv4(11, 0)}
    \cup {IPv4(172, b) : b \in {15, 16, 31, 32}}
    \cup {IPv4(192, 168), IPv4(192, 169), IPv4(169, 254), IPv4(169, 253)}
    \cup {IPv6(c) : c \in IPv6Class}

(* The TTLs at the borders of what the rules tell apart, and numbers that  *)
(* are the TTL of no packet.                                               *)
MCTypedTTLs == {-1, 0, 1, 63, 64, 65, 127, 128, 129, 254, 255, 256}

MCNewVendors == {Vendor("renamed", "server"), Vendor("microsoft", "workstation")}

OnePacket == <<64, 0, "other", IPv4(10, 0)>>

RulesInit == Init /\ ScannerInit

RulesNext ==
  \/ entered = <<>> /\ Forward /\ UNCHANGED scannerVars
  \/ pathVars = OnePacket /\ Add /\ UNCHANGED pathVars

RulesSpec == RulesInit /\ [][RulesNext]_<<pathVars, scannerVars>>
=============================================================================
