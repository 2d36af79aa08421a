---------------------------- MODULE MCPacketAudit ----------------------------
(* PacketAudit with two workers and a handful of packets.                  *)
EXTENDS PacketAudit, TLC

CONSTANTS w1, w2

(* Host 1 is an Apple computer that looks like Windows when its packets    *)
(* start at 128.                                                           *)
Web == [src |-> 1, dst |-> 2, mac |-> "apple", ttl |-> 128, isIPv6 |-> FALSE,
        protocol |-> "TCP", layer |-> "TCP", sport |-> 5000, dport |-> 80,
        payload |-> "http",
        flags |-> {"ACK"}, questions |-> 0, response |-> FALSE]

(* A name looked up through a router on the same local network.            *)
LLMNR == [Web EXCEPT !.ttl = 63, !.protocol = "UDP", !.layer = "UDP",
                     !.dport = 5355, !.flags = {}]

(* Its answer, from a host whose MAC address is not known at first.        *)
Answer == [Web EXCEPT !.src = 2, !.dst = 1, !.mac = "none", !.ttl = 255,
                      !.sport = 80, !.dport = 5000, !.payload = "binary"]

(* A lookup behind an IPv6 extension header.                               *)
Query == [Answer EXCEPT !.mac = "microsoft", !.protocol = "IPv6HopByHop",
                        !.layer = "UDP", !.isIPv6 = TRUE, !.flags = {},
                        !.sport = 5000, !.dport = 53, !.questions = 1]

(* A later fragment: TCP by its IP header, with nothing of TCP in it.      *)
Fragment == [Answer EXCEPT !.ttl = 2, !.layer = "none", !.sport = 0, !.dport = 0,
                           !.payload = "none", !.flags = {}]

Response == [Query EXCEPT !.src = 1, !.dst = 2, !.sport = 53, !.dport = 5000,
                          !.response = TRUE]

(* A connection attempt to the POP3 port.                                  *)
POP3 == [Web EXCEPT !.dport = 110, !.payload = "none", !.flags = {"SYN"}]

(* The workers run the same code.                                          *)
WorkersAlike == Permutations({w1, w2})

MCPackets == {Web, LLMNR, Answer, Query, Fragment}

AllPackets == MCPackets \cup {Response, POP3}
=============================================================================
