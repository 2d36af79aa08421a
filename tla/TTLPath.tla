------------------------------- MODULE TTLPath -------------------------------
(***************************************************************************)
(* The TTL heuristics (parser.go) against the truth they estimate: packets *)
(* leave a host with one of the usual initial TTLs, every router on the    *)
(* way takes one off, and the monitor may be at any point of the path.     *)
(* The routers are external; the same packets may be seen on a local       *)
(* subnet, when a device there forwards them.                              *)
(***************************************************************************)
EXTENDS Heuristics, Interfaces

CONSTANT Addresses  \* the source addresses tried, on both sides of the borders

ASSUME TTLPathAssumption ==
  Addresses \subseteq [family : {4}, bytes : (0..255) \X (0..255)]
                        \cup [family : {6}, class : IPv6Class]

VARIABLES
  initial,  \* the initial TTL of the host
  routers,  \* how many routers the packet went through
  mac,      \* the class of its source MAC address
  ip        \* its source address

pathVars == <<initial, routers, mac, ip>>

ttl == initial - routers

local == IsLocalSubnet(ip)

isIPv6 == ip.family = 6

Init ==
  /\ initial \in {64, 128, 255}
  /\ routers = 0
  /\ mac \in MAC
  /\ ip \in Addresses

(* A router forwards the packet; it would discard it at TTL 0.             *)
Forward ==
  /\ ttl > 1
  /\ routers' = routers + 1
  /\ UNCHANGED <<initial, mac, ip>>

Spec == Init /\ [][Forward]_pathVars

-----------------------------------------------------------------------------
(* The initial TTL, the number of hops and the system are estimated right  *)
(* for every packet that went through less than 64 routers, and each of    *)
(* them wrong for one that left with 128 or 255 and went through so many   *)
(* that a lower baseline is closer (FingerprintOS).  The system is the one *)
(* that is known to send with that initial TTL, not what a baseline is     *)
(* labelled with.                                                          *)
EstimateRightWhenClose ==
  LET estimate == FingerprintOS(ttl)
      system   == IF initial = 64 THEN "Unix"
                  ELSE IF initial = 128 THEN "Windows" ELSE "Cisco"
      close    == routers < (IF initial = 64 THEN 64 ELSE IF initial = 128 THEN 64 ELSE 127)
  IN  /\ close <=> (estimate.initialTTL = initial)
      /\ close <=> (estimate.hops = routers)
      /\ close <=> (estimate.os = system)
      /\ estimate.hops <= routers

(* A local packet of a Unix or Windows host that went through exactly one  *)
(* router is flagged as such; flagged for another reason than exhaustion,  *)
(* a packet went through a router (DetectTTLAnomaly).                      *)
OneHopIsFlagged ==
  LET kinds == {a[1] : a \in DetectTTLAnomaly(ttl, local, isIPv6)}
  IN  /\ local /\ routers = 1 /\ initial # 255 =>
           kinds = {IF isIPv6 THEN "hop6" ELSE "hop"}
      /\ kinds \cap {"hop", "hop6"} # {} => routers > 0

(* A discrepancy is reported for Apple hardware and network gear that run  *)
(* Windows and for Microsoft hardware that runs a network system, and for  *)
(* no other host (DetectIdentityMismatch on LookupVendor, FingerprintOS).  *)
MismatchIsTrue ==
  LET reported == DetectIdentityMismatch(LookupVendor(mac), FingerprintOS(ttl).os)
  IN  reported # {} <=> \/ initial = 128 /\ mac \in {"apple", "cisco", "group"}
                        \/ initial = 255 /\ mac = "microsoft"

(* Both kinds of findings are true, that of the mismatch as long as the    *)
(* system is estimated right.                                              *)
FindingsTrueWhenClose == OneHopIsFlagged /\ (routers < 64 => MismatchIsTrue)

(* The ranges of IPv4 that count as local are exactly the prefixes that    *)
(* the comments of the code name, 127.0.0.0/8, 10.0.0.0/8, 172.16.0.0/12,  *)
(* 192.168.0.0/16 and 169.254.0.0/16, at both ends of each; a hop is only  *)
(* ever reported of an address in one of them (IsLocalSubnet).  A size is  *)
(* the number of two-byte prefixes in a range.                             *)
LocalIsPrivate ==
  LET bits(a, b) == 256 * a + b
      under(prefix, size) == bits(ip.bytes[1], ip.bytes[2]) \div size = prefix \div size
      private == \/ under(bits(127, 0), 256) \/ under(bits(10, 0), 256)
                 \/ under(bits(172, 16), 16) \/ under(bits(192, 168), 1)
                 \/ under(bits(169, 254), 1)
  IN  ~isIPv6 =>
        /\ local <=> private
        /\ "hop" \in {a[1] : a \in DetectTTLAnomaly(ttl, local, isIPv6)} => private
=============================================================================
