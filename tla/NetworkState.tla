---------------------------- MODULE NetworkState ----------------------------
(***************************************************************************)
(* The shared state of the monitor (stats.go): the inventory of hosts, the *)
(* bounded log of security events and the counters of the banner.          *)
(*                                                                         *)
(* Every method holds s.mu from its first access to its return, so a call  *)
(* is one action here, whoever makes it; PacketAudit makes the calls of    *)
(* the workers in the order of processPacket.  The byte volumes and the    *)
(* per-host protocol counts, which move in step with the packet counts,    *)
(* and the time stamps are left out, and so are the two counters of lost   *)
(* packets, which the capture and maintenance loops alone set.             *)
(***************************************************************************)
EXTENDS Heuristics, Sequences, SequencesExt, FiniteSets

CONSTANTS
  Address,   \* host addresses
  MaxEvents  \* maxEvents, as given to NewNetworkState

ASSUME NetworkStateAssumption == MaxEvents \in Int

VARIABLES
  hosts,           \* from the known addresses to what is known of them
  ipPacketCounts,  \* from the known addresses to their packet counts
  protocolCounts,  \* from protocol names to packet counts
  events,          \* the ring of security events
  eventIDSeq,      \* the ID given last
  counts           \* the scalar counters

nsvars == <<hosts, ipPacketCounts, protocolCounts, events, eventIDSeq, counts>>

maxEvents == IF MaxEvents <= 0 THEN 1000 ELSE MaxEvents

Status == {"SAFE", "SUSPICIOUS", "ALERT"}

Severity == {"INFO", "SUSPICIOUS", "ALERT"}

Category == {"CLEARTEXT_TRAFFIC", "DNS_QUERY", "LEGACY_NAME_RES",
             "TTL_HOP_INDICATOR", "HARDWARE_OS_DISCREPANCY", "NEW_HOST"}

Event(source, category, severity) ==
  [source |-> source, category |-> category, severity |-> severity]

NSInit ==
  /\ hosts = [a \in {} |-> {}]
  /\ ipPacketCounts = [a \in {} |-> 0]
  /\ protocolCounts = [p \in {} |-> 0]
  /\ events = <<>>
  /\ eventIDSeq = 0
  /\ counts = [total |-> 0, alert |-> 0, suspicious |-> 0, unencrypted |-> 0,
               dns |-> 0, legacy |-> 0, anomalies |-> 0]

-----------------------------------------------------------------------------
(* f with one more at x, where it may not be defined yet.                  *)
Incremented(f, x) ==
  [y \in DOMAIN f \cup {x} |->
     (IF y \in DOMAIN f THEN f[y] ELSE 0) + (IF y = x THEN 1 ELSE 0)]

NewHost(mac, ttl) ==
  LET print == FingerprintOS(ttl)
  IN  [mac |-> mac, vendor |-> LookupVendor(mac), ttl |-> ttl, os |-> print.os,
       initialTTL |-> print.initialTTL, hops |-> print.hops,
       status |-> "SAFE", anomalies |-> <<>>, packets |-> 1]

(* Mutant: the TTL changes without a new fingerprint.                      *)
SeenWithoutFingerprint(host, mac, ttl) ==
  [host EXCEPT !.packets = @ + 1, !.ttl = ttl]

LearnsMAC(host, mac) == host.mac = "none" /\ mac # "none"

ChangesTTL(host, ttl) == ttl > 0 /\ host.ttl # ttl

(* One more packet of a known host: its first MAC address is kept, a TTL   *)
(* of zero is ignored, and a new TTL changes the fingerprint.              *)
SeenAgain(host, mac, ttl) ==
  LET newMAC == IF LearnsMAC(host, mac) THEN mac ELSE host.mac
      newTTL == IF ChangesTTL(host, ttl) THEN ttl ELSE host.ttl
      print  == FingerprintOS(newTTL)
  IN  [host EXCEPT !.packets = @ + 1, !.mac = newMAC,
                   !.vendor = IF LearnsMAC(host, mac) THEN LookupVendor(mac) ELSE @,
                   !.ttl = newTTL,
                   !.os = IF ChangesTTL(host, ttl) THEN print.os ELSE @,
                   !.initialTTL = IF ChangesTTL(host, ttl) THEN print.initialTTL ELSE @,
                   !.hops = IF ChangesTTL(host, ttl) THEN print.hops ELSE @]

RecordHostPacket(ip, mac, ttl, protocol) ==
  /\ counts' = [counts EXCEPT !.total = @ + 1]
  /\ ipPacketCounts' = Incremented(ipPacketCounts, ip)
  /\ protocolCounts' = Incremented(protocolCounts, protocol)
  /\ hosts' = [a \in DOMAIN hosts \cup {ip} |->
                 IF a # ip THEN hosts[a]
                 ELSE IF ip \in DOMAIN hosts THEN SeenAgain(hosts[ip], mac, ttl)
                 ELSE NewHost(mac, ttl)]
  /\ UNCHANGED <<events, eventIDSeq>>

IncrementProtocol(protocol) ==
  /\ protocolCounts' = Incremented(protocolCounts, protocol)
  /\ UNCHANGED <<hosts, ipPacketCounts, events, eventIDSeq, counts>>

-----------------------------------------------------------------------------
(* Mutant: a later suspicion overwrites an alert.                          *)
LatestStatus(status, severity) ==
  IF severity \in {"ALERT", "SUSPICIOUS"} THEN severity ELSE status

(* The status of a host after one more finding.                            *)
Elevated(status, severity) ==
  CASE severity = "ALERT"                           -> "ALERT"
    [] severity = "SUSPICIOUS" /\ status # "ALERT" -> "SUSPICIOUS"
    [] OTHER                                        -> status

(* An indicator that is already there leaves the host as it is.            *)
WithAnomaly(host, anomaly, severity) ==
  IF anomaly \in ToSet(host.anomalies) THEN host
  ELSE [host EXCEPT !.anomalies = Append(@, anomaly),
                    !.status = Elevated(@, severity)]

(* Mutant: an indicator that is already there is not counted.              *)
AddNewAnomaly(ip, anomaly, isAlert) ==
  /\ counts' = [counts EXCEPT
                  !.anomalies = @ + IF anomaly \in ToSet(hosts[ip].anomalies)
                                      THEN 0 ELSE 1]
  /\ hosts' = [a \in DOMAIN hosts |->
                 IF a = ip
                   THEN WithAnomaly(hosts[a], anomaly,
                                    IF isAlert THEN "ALERT" ELSE "SUSPICIOUS")
                   ELSE hosts[a]]
  /\ UNCHANGED <<ipPacketCounts, protocolCounts, events, eventIDSeq>>

AddAnomaly(ip, anomaly, isAlert) ==
  /\ counts' = [counts EXCEPT !.anomalies = @ + 1]
  /\ hosts' = [a \in DOMAIN hosts |->
                 IF a = ip
                   THEN WithAnomaly(hosts[a], anomaly,
                                    IF isAlert THEN "ALERT" ELSE "SUSPICIOUS")
                   ELSE hosts[a]]
  /\ UNCHANGED <<ipPacketCounts, protocolCounts, events, eventIDSeq>>

(* The counters that an event moves.                                       *)
Counted(event) ==
  LET one(condition) == IF condition THEN 1 ELSE 0
  IN  [counts EXCEPT
        !.alert = @ + one(event.severity = "ALERT"),
        !.suspicious = @ + one(event.severity = "SUSPICIOUS"),
        !.unencrypted = @ + one(event.category = "CLEARTEXT_TRAFFIC"),
        !.dns = @ + one(event.category = "DNS_QUERY"),
        !.legacy = @ + one(event.category = "LEGACY_NAME_RES"),
        !.anomalies = @ + one(event.category \in {"TTL_HOP_INDICATOR",
                                                  "HARDWARE_OS_DISCREPANCY"})]

(* Mutant: a full ring is allowed one more.                                *)
PushedPastFull(entry) ==
  IF Len(events) > maxEvents THEN Append(Tail(events), entry)
                             ELSE Append(events, entry)

(* The ring with one more event: a full one loses its oldest.              *)
Pushed(entry) ==
  IF Len(events) >= maxEvents THEN Append(Tail(events), entry)
                              ELSE Append(events, entry)

AddEvent(event) ==
  /\ eventIDSeq' = eventIDSeq + 1
  /\ events' = Pushed([id |-> eventIDSeq + 1, event |-> event])
  /\ counts' = Counted(event)
  /\ hosts' = [a \in DOMAIN hosts |->
                 IF a = event.source
                   THEN [hosts[a] EXCEPT !.status = Elevated(@, event.severity)]
                   ELSE hosts[a]]
  /\ UNCHANGED <<ipPacketCounts, protocolCounts>>

(* The key c of the terminal interface.                                    *)
ClearEvents ==
  /\ events' = <<>>
  /\ UNCHANGED <<hosts, ipPacketCounts, protocolCounts, eventIDSeq, counts>>

(* GetEventsSnapshot: the last limit events, all of them when limit is 0.  *)
GetEventsSnapshot(limit) ==
  IF limit > 0 /\ Len(events) > limit
    THEN SubSeq(events, Len(events) - limit + 1, Len(events))
    ELSE events
=============================================================================
