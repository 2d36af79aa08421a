----------------------------- MODULE PacketAudit -----------------------------
(***************************************************************************)
(* The workers inside processPacket (capture.go), on the state they share: *)
(* NetworkState and, through an instance, the connection tracker.          *)
(*                                                                         *)
(* processPacket is a sequence of calls, each of which takes a lock and    *)
(* releases it, so the calls of two packets interleave.  A worker has a    *)
(* packet and the calls it still has to make for it.  RecordHostPacket is  *)
(* two steps, so that one worker can be inside it while another one runs;  *)
(* every other call is one step, at a time when s.mu is free.  Flows do    *)
(* not age here: ConnTrack is where time passes.  A packet without an IP   *)
(* header makes no call at all and is left out.                            *)
(***************************************************************************)
EXTENDS NetworkState, FiniteSetsExt

CONSTANTS
  Worker,
  Packet,       \* the packets that may arrive
  NoPacket,     \* a worker between two packets; s.mu when it is free
  LocalSubnet,  \* the addresses IsLocalSubnet accepts
  MaxFlows,     \* maxFlows, as given to NewConnectionTracker
  MaxPackets    \* bound: packets that arrive

Port == 0..65535

(* What gopacket decodes of a packet.  The protocol is the one that the IP *)
(* header names, the layer the transport layer found behind it.  A later   *)
(* fragment has the protocol and not the layer, a datagram behind an IPv6  *)
(* extension header the layer and the protocol of the extension.           *)
Decoded ==
  [src : Address, dst : Address, mac : MAC, ttl : TTL, isIPv6 : BOOLEAN,
   protocol : STRING, layer : {"TCP", "UDP", "none"},
   sport : Port, dport : Port, payload : Payload,
   flags : SUBSET {"SYN", "ACK", "FIN", "RST"}, questions : Nat, response : BOOLEAN]

ASSUME PacketAuditAssumption ==
  /\ Address \subseteq Nat
  /\ IsFiniteSet(Worker) /\ NoPacket \notin Worker
  /\ Packet \subseteq Decoded /\ NoPacket \notin Packet
  /\ MaxFlows \in Int /\ MaxPackets \in Nat

VARIABLES
  flows,   \* ct.flows
  mu,      \* the worker inside RecordHostPacket
  packet,  \* the packet of each worker
  todo,    \* the calls it has still to make
  taken    \* history: the packets received, in that order

vars == <<nsvars, flows, mu, packet, todo, taken>>

CT == INSTANCE ConnTrack WITH
        IP <- Address, Port <- Port, Proto <- {"TCP", "UDP"},
        FlagSets <- {p.flags : p \in Packet}, FlowTimeout <- 0, MaxTime <- 0,
        now <- 0

-----------------------------------------------------------------------------
Call(op, arg) == [op |-> op, arg |-> arg]

AnomalyCall(anomaly, isAlert) ==
  Call("AddAnomaly", [anomaly |-> anomaly, isAlert |-> isAlert])

EventCall(p, category, severity) ==
  Call("AddEvent", Event(p.src, category, severity))

(* What follows a report of at most one element.                           *)
ForEach(report, calls(_)) ==
  IF report = {} THEN <<>> ELSE calls(CHOOSE r \in report : TRUE)

(* Mutant: a host is announced with each of its packets.                   *)
AnnouncementAlways(p, isNew) == <<EventCall(p, "NEW_HOST", "INFO")>>

Announcement(p, isNew) ==
  IF isNew THEN <<EventCall(p, "NEW_HOST", "INFO")>> ELSE <<>>

TTLCalls(p) ==
  ForEach(DetectTTLAnomaly(p.ttl, p.src \in LocalSubnet, p.isIPv6),
          LAMBDA a : <<AnomalyCall(a, FALSE),
                       EventCall(p, "TTL_HOP_INDICATOR", "SUSPICIOUS")>>)

MismatchCalls(p, host) ==
  ForEach(DetectIdentityMismatch(host.vendor, host.os),
          LAMBDA a : <<AnomalyCall(a, TRUE),
                       EventCall(p, "HARDWARE_OS_DISCREPANCY", "ALERT")>>)

CleartextCalls(p) ==
  ForEach(InspectUnencryptedProtocols(p.sport, p.dport, p.payload),
          LAMBDA a : <<EventCall(p, "CLEARTEXT_TRAFFIC", "ALERT"),
                       AnomalyCall(<<a, 0>>, TRUE), Call("IncrementProtocol", a)>>)

(* An event for each question that has a name, of a query or of an answer. *)
DNSCalls(p) ==
  IF 53 \notin {p.sport, p.dport} THEN <<>>
  ELSE <<Call("IncrementProtocol", "DNS")>>
         \o [i \in 1..p.questions |-> EventCall(p, "DNS_QUERY", "INFO")]

LegacyCalls(p) ==
  ForEach(InspectLegacyNameResolution(p.sport, p.dport),
          LAMBDA a : <<EventCall(p, "LEGACY_NAME_RES", "SUSPICIOUS"),
                       AnomalyCall(<<a, 0>>, FALSE), Call("IncrementProtocol", a)>>)

FlowCall == Call("RecordPacket", "flow")

(* Mutant: only TCP has flows.                                             *)
TCPOnlyTransport(p) ==
  CASE p.layer = "TCP" -> <<FlowCall>> \o CleartextCalls(p)
    [] p.layer = "UDP" -> DNSCalls(p) \o LegacyCalls(p)
    [] OTHER              -> <<>>

TransportCalls(p) ==
  CASE p.layer = "TCP" -> <<FlowCall>> \o CleartextCalls(p)
    [] p.layer = "UDP" -> <<FlowCall>> \o DNSCalls(p) \o LegacyCalls(p)
    [] OTHER              -> <<>>

-----------------------------------------------------------------------------
Init ==
  /\ NSInit
  /\ flows = [k \in {} |-> {}]
  /\ mu = NoPacket
  /\ packet = [w \in Worker |-> NoPacket]
  /\ todo = [w \in Worker |-> <<>>]
  /\ taken = <<>>

NextCallIs(w, op) == todo[w] # <<>> /\ Head(todo[w]).op = op

(* The call at the head is made; calls come before those that remain.      *)
Made(w, calls) ==
  /\ todo' = [todo EXCEPT ![w] = calls \o Tail(@)]
  /\ packet' = IF calls \o Tail(todo[w]) = <<>>
                 THEN [packet EXCEPT ![w] = NoPacket] ELSE packet
  /\ UNCHANGED taken

(* The worker receives a packet from packetChan.                           *)
Receive(w, p) ==
  /\ todo[w] = <<>>
  /\ Len(taken) < MaxPackets
  /\ packet' = [packet EXCEPT ![w] = p]
  /\ todo' = [todo EXCEPT ![w] = <<Call("RecordHostPacket", "host")>>]
  /\ taken' = Append(taken, p)
  /\ UNCHANGED <<nsvars, flows, mu>>

(* It is inside RecordHostPacket: it holds s.mu.                           *)
LockHost(w) ==
  /\ NextCallIs(w, "RecordHostPacket")
  /\ mu = NoPacket
  /\ mu' = w
  /\ UNCHANGED <<nsvars, flows, packet, todo, taken>>

(* RecordHostPacket writes and releases s.mu.  The rest of the calls is    *)
(* settled by the packet and by whether the host is new, except for what   *)
(* the identity check finds.                                               *)
UpdateHost(w) ==
  LET p     == packet[w]
      isNew == p.src \notin DOMAIN hosts
  IN  /\ mu = w
      /\ mu' = NoPacket
      /\ RecordHostPacket(p.src, p.mac, p.ttl, p.protocol)
      /\ Made(w, Announcement(p, isNew) \o TTLCalls(p)
                   \o <<Call("DetectIdentityMismatch", "host")>>
                   \o TransportCalls(p))
      /\ UNCHANGED flows

(* The identity check reads the fields of the host it was given a pointer  *)
(* to, as they are now, without s.mu.  It may read while they are being    *)
(* written, and then either all or none of the new values; that a string   *)
(* may be read in half is left out, but see HostReadsAreSafe.              *)
CheckIdentity(w) ==
  /\ NextCallIs(w, "DetectIdentityMismatch")
  /\ Made(w, MismatchCalls(packet[w], hosts[packet[w].src]))
  /\ UNCHANGED <<nsvars, flows, mu>>

ReportEvent(w) ==
  /\ NextCallIs(w, "AddEvent")
  /\ mu = NoPacket
  /\ AddEvent(Head(todo[w]).arg)
  /\ Made(w, <<>>)
  /\ UNCHANGED <<flows, mu>>

ReportAnomaly(w) ==
  /\ NextCallIs(w, "AddAnomaly")
  /\ mu = NoPacket
  /\ AddAnomaly(packet[w].src, Head(todo[w]).arg.anomaly, Head(todo[w]).arg.isAlert)
  /\ Made(w, <<>>)
  /\ UNCHANGED <<flows, mu>>

CountProtocol(w) ==
  /\ NextCallIs(w, "IncrementProtocol")
  /\ mu = NoPacket
  /\ IncrementProtocol(Head(todo[w]).arg)
  /\ Made(w, <<>>)
  /\ UNCHANGED <<flows, mu>>

(* The tracker has a lock of its own.                                      *)
TrackFlow(w) ==
  LET p == packet[w]
  IN  /\ NextCallIs(w, "RecordPacket")
      /\ CT!RecordPacket(p.src, p.dst, p.sport, p.dport, p.layer, p.flags)
      /\ Made(w, <<>>)
      /\ UNCHANGED <<nsvars, mu>>

Next ==
  \E w \in Worker :
    \/ \E p \in Packet : Receive(w, p)
    \/ LockHost(w)
    \/ UpdateHost(w)
    \/ CheckIdentity(w)
    \/ ReportEvent(w)
    \/ ReportAnomaly(w)
    \/ CountProtocol(w)
    \/ TrackFlow(w)

Spec == Init /\ [][Next]_vars

-----------------------------------------------------------------------------
(* Between packets.                                                        *)
AtRest == \A w \in Worker : todo[w] = <<>>

(* How many of the packets received satisfy the condition.                 *)
Received(condition(_)) == Quantify(DOMAIN taken, LAMBDA i : condition(taken[i]))

(* One element for each unit of a counter: their number is the sum of all. *)
Units(f) == UNION {{x} \X (1..f[x]) : x \in DOMAIN f}

(* The events of a category in the log.                                    *)
Logged(category) == {i \in DOMAIN events : events[i].event.category = category}

Rank(severity) == CASE severity = "ALERT" -> 2 [] severity = "SUSPICIOUS" -> 1
                    [] OTHER -> 0

(* The severity of an indicator, in the terms of processPacket.            *)
RankOf(anomaly) ==
  IF anomaly[1] \in {"hop", "hop6", "depleted", "LLMNR", "NBT-NS"} THEN 1 ELSE 2

(* A host is shown at least as bad as each of the indicators listed for    *)
(* it; and when no packet is being processed, exactly as bad as the worst, *)
(* so that an alert has its reason on the screen.  AddEvent and AddAnomaly *)
(* raise the status independently, in both orders, for several packets at  *)
(* once.                                                                   *)
StatusIsExplained ==
  \A a \in DOMAIN hosts :
    LET ranks == {RankOf(x) : x \in ToSet(hosts[a].anomalies)} \cup {0}
    IN  /\ Rank(hosts[a].status) >= Max(ranks)
        /\ AtRest => Rank(hosts[a].status) = Max(ranks)

(* No two workers list the same indicator twice (AddAnomaly), and a host   *)
(* is announced once, although several workers may see its first packets   *)
(* at the same time (isNew, RecordHostPacket), as long as the log has not  *)
(* lost its oldest events.                                                 *)
ListedAndAnnouncedOnce ==
  \A a \in DOMAIN hosts :
    LET news == {i \in Logged("NEW_HOST") : events[i].event.source = a}
    IN  /\ IsInjective(hosts[a].anomalies)
        /\ eventIDSeq <= maxEvents =>
             /\ Cardinality(news) <= 1
             /\ AtRest => Cardinality(news) = 1

(* What is known of a host fits together whenever s.mu is free: the system *)
(* is the fingerprint of the last TTL, the vendor that of the MAC address. *)
FingerprintIsCurrent ==
  \A a \in DOMAIN hosts :
    LET h     == hosts[a]
        print == FingerprintOS(h.ttl)
    IN  /\ <<h.os, h.initialTTL, h.hops>> = <<print.os, print.initialTTL, print.hops>>
        /\ h.vendor = LookupVendor(h.mac)

(* The three counts of packets agree: the total, those by address and      *)
(* those of the inventory (RecordHostPacket).  And when no packet is being *)
(* processed, every packet was audited, whichever worker took it: the      *)
(* counters of the banner are those of the packets received, and so are    *)
(* the packets of the flows as long as the table had room for every        *)
(* conversation.                                                           *)
PacketCountsAgree ==
  /\ counts.total = Cardinality(Units([a \in DOMAIN hosts |-> ipPacketCounts[a]]))
  /\ \A a \in DOMAIN hosts : hosts[a].packets = ipPacketCounts[a]

EveryPacketIsAudited ==
  /\ PacketCountsAgree
  /\ AtRest =>
       /\ counts.total = Len(taken)
       /\ counts.unencrypted = Received(LAMBDA p : p.layer = "TCP" /\
            InspectUnencryptedProtocols(p.sport, p.dport, p.payload) # {})
       /\ counts.legacy = Received(LAMBDA p : p.layer = "UDP" /\
            InspectLegacyNameResolution(p.sport, p.dport) # {})
       /\ Cardinality(DOMAIN flows) < CT!maxFlows =>
            Cardinality(Units([k \in DOMAIN flows |-> flows[k].packets]))
              = Received(LAMBDA p : p.layer \in {"TCP", "UDP"})

(* The anomaly counter counts findings, not indicators: a cleartext or     *)
(* legacy finding once, by AddAnomaly, a TTL or identity finding twice, by *)
(* AddAnomaly and by AddEvent, and repeated ones again each time.          *)
AnomaliesAccountedFor ==
  AtRest /\ eventIDSeq <= maxEvents =>
    counts.anomalies = counts.unencrypted + counts.legacy
      + 2 * Cardinality(Logged("TTL_HOP_INDICATOR")
                          \cup Logged("HARDWARE_OS_DISCREPANCY"))

(* A host is never shown in a better light than before: there is no way    *)
(* back from an alert (AddAnomaly, AddEvent).                              *)
StatusNeverLowered ==
  [][\A a \in DOMAIN hosts : /\ a \in DOMAIN hosts'
                            /\ Rank(hosts'[a].status) >= Rank(hosts[a].status)]_vars

-----------------------------------------------------------------------------
(* What the documentation says and the code does not do.                   *)

(* The state of the hosts is thread-safe (stats.go:10): no worker reads    *)
(* the vendor and the system of a host while another one is inside         *)
(* RecordHostPacket to write them.  processPacket reads them through the   *)
(* pointer that RecordHostPacket returned, without s.mu.                   *)
ReadsHost(w) ==
  \/ NextCallIs(w, "DetectIdentityMismatch")
  \/ NextCallIs(w, "AddEvent") /\ Head(todo[w]).arg.category = "NEW_HOST"

WritesHost(w) ==
  LET p == packet[w]
  IN  /\ mu = w
      /\ p.src \in DOMAIN hosts
      /\ LearnsMAC(hosts[p.src], p.mac) \/ ChangesTTL(hosts[p.src], p.ttl)

HostReadsAreSafe ==
  \A v, w \in Worker :
    v # w /\ WritesHost(v) /\ ReadsHost(w) => packet[v].src # packet[w].src

(* A cleartext alert is confirmed by the payload, the port alone being     *)
(* only a hint (parser.go:103).                                            *)
Signature(p) == p.payload # "none" /\ p.payload # "binary"

AlertsAreConfirmed ==
  [][counts'.unencrypted > counts.unencrypted =>
       \E w \in Worker : todo'[w] # todo[w] /\ Signature(packet[w])]_vars

(* The logged DNS activity is that of queries (parser.go:217): the host it *)
(* names as requesting a lookup asked a question.                          *)
OnlyQueriesAreLogged ==
  [][counts'.dns > counts.dns =>
       \E w \in Worker : todo'[w] # todo[w] /\ ~packet[w].response]_vars
=============================================================================
