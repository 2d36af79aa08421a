--------------------------- MODULE PacketAuditProofs ---------------------------
(***************************************************************************)
(* What TLAPS proves about the workers inside processPacket, for every     *)
(* number of workers, every choice of packets and every size of the ring   *)
(* of events and of the table of flows.                                    *)
(*                                                                         *)
(* The proofs see the calls a worker has still to make by their stages:    *)
(* processPacket makes its calls in the order of these numbers, and what   *)
(* the shared state owes to a worker depends on which stages are left.     *)
(***************************************************************************)
EXTENDS PacketAudit, SequenceTheorems, FiniteSetTheorems, TLAPS

HostCall     == Call("RecordHostPacket", "host")
IdentityCall == Call("DetectIdentityMismatch", "host")

IsCleartext(p) ==
  p.layer = "TCP" /\ InspectUnencryptedProtocols(p.sport, p.dport, p.payload) # {}

IsLegacy(p) ==
  p.layer = "UDP" /\ InspectLegacyNameResolution(p.sport, p.dport) # {}

IsTransport(p) == p.layer \in {"TCP", "UDP"}

(* The kinds of indicators.                                                *)
TTLKinds       == {"hop", "hop6", "depleted"}
MismatchKinds  == {"apple mismatch", "gear mismatch", "microsoft mismatch"}
CleartextKinds == {"Telnet", "FTP", "POP3", "IMAP", "HTTP"}
LegacyKinds    == {"LLMNR", "NBT-NS"}

SeverityOf(category) ==
  CASE category \in {"HARDWARE_OS_DISCREPANCY", "CLEARTEXT_TRAFFIC"} -> "ALERT"
    [] category \in {"TTL_HOP_INDICATOR", "LEGACY_NAME_RES"} -> "SUSPICIOUS"
    [] category \in {"NEW_HOST", "DNS_QUERY"} -> "INFO"

(* The events and the indicators that a packet may give rise to.           *)
EventOf(p, category) == EventCall(p, category, SeverityOf(category))

CategoriesOf(p) ==
  {c \in Category : /\ c = "CLEARTEXT_TRAFFIC" => IsCleartext(p)
                    /\ c = "LEGACY_NAME_RES" => IsLegacy(p)}

KindsOf(p) ==
  TTLKinds \cup MismatchKinds \cup (IF IsCleartext(p) THEN CleartextKinds ELSE {})
                              \cup (IF IsLegacy(p) THEN LegacyKinds ELSE {})

IndicatorCall(kind, n) ==
  AnomalyCall(<<kind, n>>, kind \in MismatchKinds \cup CleartextKinds)

CallsOf(p) ==
  {HostCall, IdentityCall}
    \cup {c \in {FlowCall} : IsTransport(p)}
    \cup {EventOf(p, c) : c \in CategoriesOf(p)}
    \cup {IndicatorCall(k, n) : k \in KindsOf(p), n \in TTL}
    \cup {Call("IncrementProtocol", a) : a \in CleartextKinds \cup LegacyKinds \cup {"DNS"}}

(* The place of a call in processPacket.                                   *)
EventStage(category) ==
  CASE category = "NEW_HOST" -> 1
    [] category = "TTL_HOP_INDICATOR" -> 3
    [] category = "HARDWARE_OS_DISCREPANCY" -> 6
    [] category = "DNS_QUERY" -> 9
    [] OTHER -> 10

IndicatorStage(kind) ==
  CASE kind \in TTLKinds -> 2 [] kind \in MismatchKinds -> 5 [] OTHER -> 11

Stage(call) ==
  CASE call.op = "RecordHostPacket"       -> 0
    [] call.op = "DetectIdentityMismatch" -> 4
    [] call.op = "RecordPacket"           -> 7
    [] call.op = "AddEvent"               -> EventStage(call.arg.category)
    [] call.op = "AddAnomaly"             -> IndicatorStage(call.arg.anomaly[1])
    [] call.op = "IncrementProtocol"      -> IF call.arg = "DNS" THEN 8 ELSE 12

Stages(s) == {Stage(s[i]) : i \in 1..Len(s)}

(* The call after which the next one belongs to the same finding: a TTL    *)
(* and an identity finding are first listed, then logged, a cleartext and  *)
(* a legacy one are first logged, then listed.                             *)
First  == {2, 5, 10}
Second == {3, 6, 11}

(* The calls of a packet that are left are in the order of processPacket.  *)
Legal(p, s) ==
  /\ s \in Seq(CallsOf(p))
  /\ \A i, j \in 1..Len(s) :
       i < j => Stage(s[i]) < Stage(s[j]) \/ (Stage(s[i]) = 9 /\ Stage(s[j]) = 9)
  /\ \A i \in 1..Len(s) :
       Stage(s[i]) \in First => i < Len(s) /\ Stage(s[i + 1]) = Stage(s[i]) + 1
  /\ \A i \in 2..Len(s) :
       Stage(s[i]) \in Second => Stage(s[i - 1]) = Stage(s[i]) - 1

(* The stages a worker has before it.                                      *)
Left(w) == Stages(todo[w])

-----------------------------------------------------------------------------
(* The inductive invariant, part by part.                                  *)
Indicator == (TTLKinds \cup MismatchKinds \cup CleartextKinds \cup LegacyKinds) \X TTL

Vendors   == {LookupVendor(m) : m \in MAC}
Systems   == {FingerprintOS(t).os : t \in TTL}
Baselines == {FingerprintOS(t).initialTTL : t \in TTL}
Distances == {FingerprintOS(t).hops : t \in TTL}

Host ==
  [mac : MAC, vendor : Vendors, ttl : TTL, os : Systems, initialTTL : Baselines,
   hops : Distances, status : Status, anomalies : Seq(Indicator), packets : Nat]

Counters == [total : Nat, alert : Nat, suspicious : Nat, unencrypted : Nat, dns : Nat,
             legacy : Nat, anomalies : Nat]

(* Every worker is at a place of processPacket for its packet, and only    *)
(* the first call of a packet finds its source unknown.                    *)
WorkersOK ==
  /\ mu \in Worker \cup {NoPacket}
  /\ packet \in [Worker -> Packet \cup {NoPacket}]
  /\ DOMAIN todo = Worker
  /\ taken \in Seq(Packet)
  /\ \A w \in Worker :
       /\ todo[w] # <<>> => packet[w] \in Packet /\ Legal(packet[w], todo[w])
       /\ 0 \in Left(w) => todo[w] = <<HostCall>>
       /\ todo[w] # <<>> /\ 0 \notin Left(w) => packet[w].src \in DOMAIN hosts
       /\ 4 \in Left(w) => 5 \notin Left(w) /\ 6 \notin Left(w)
       /\ mu = w => todo[w] = <<HostCall>>

StateOK ==
  /\ DOMAIN hosts \subseteq Address /\ IsFiniteSet(DOMAIN hosts)
  /\ hosts \in [DOMAIN hosts -> Host]
  /\ ipPacketCounts \in [DOMAIN hosts -> Nat]
  /\ counts \in Counters
  /\ eventIDSeq \in Nat
  /\ events \in Seq([id : Nat, event : [source : Address, category : Category,
                                        severity : Severity]])

(* Nothing is lost from the ring before it is full.                        *)
RingComplete ==
  eventIDSeq <= maxEvents => Len(events) = eventIDSeq

Listed(a, rank) == \E x \in ToSet(hosts[a].anomalies) : RankOf(x) = rank

(* The worker has still to list an indicator of this rank.                 *)
WillList(w, rank) ==
  \/ rank = 1 /\ (2 \in Left(w) \/ (11 \in Left(w) /\ IsLegacy(packet[w])))
  \/ rank = 2 /\ (5 \in Left(w) \/ (11 \in Left(w) /\ IsCleartext(packet[w])))

(* A status has its reason, listed or about to be, and so has every event  *)
(* that is going to raise one.                                             *)
Reasoned(a) ==
  /\ \A x \in ToSet(hosts[a].anomalies) : Rank(hosts[a].status) >= RankOf(x)
  /\ \A r \in {1, 2} :
       Rank(hosts[a].status) = r =>
         \/ Listed(a, r)
         \/ \E w \in Worker : packet[w].src = a /\ WillList(w, r)
  /\ \A w \in Worker :
       packet[w].src = a =>
         /\ 3 \in Left(w) => 2 \in Left(w) \/ Listed(a, 1)
         /\ 6 \in Left(w) => 5 \in Left(w) \/ Listed(a, 2)

StatusReasoned == \A a \in DOMAIN hosts : Reasoned(a)

IndicatorsOnce == \A a \in DOMAIN hosts : IsInjective(hosts[a].anomalies)

News(a) == {i \in DOMAIN events : events[i].event.category = "NEW_HOST"
                                   /\ events[i].event.source = a}

Announcing(a) == {w \in Worker : 1 \in Left(w) /\ packet[w].src = a}

(* Each known host was announced, or one worker is about to announce it.   *)
Announced ==
  eventIDSeq <= maxEvents =>
    \A a \in Address :
      /\ \A i, j \in News(a) : i = j
      /\ \A v, w \in Announcing(a) : v = w
      /\ News(a) = {} \/ Announcing(a) = {}
      /\ a \in DOMAIN hosts <=> News(a) \cup Announcing(a) # {}

(* The packets of a kind that were received, and the workers that have one *)
(* for which they have not made the call of a stage.                       *)
ReceivedIn(S) == {i \in DOMAIN taken : taken[i] \in S}

Owing(S, stage) == {w \in Worker : packet[w] \in S /\ Left(w) \cap {0, stage} # {}}

CleartextPackets == {p \in Packet : IsCleartext(p)}
LegacyPackets    == {p \in Packet : IsLegacy(p)}
TransportPackets == {p \in Packet : IsTransport(p)}

Balance(count, S, stage) ==
  count + Cardinality(Owing(S, stage)) = Cardinality(ReceivedIn(S))

HostUnits == Units([a \in DOMAIN hosts |-> ipPacketCounts[a]])

FlowUnits == Units([k \in DOMAIN flows |-> flows[k].packets])

Counting ==
  /\ Balance(counts.total, Packet, 0)
  /\ Balance(counts.unencrypted, CleartextPackets, 10)
  /\ Balance(counts.legacy, LegacyPackets, 10)
  /\ IsFiniteSet(HostUnits) /\ Cardinality(HostUnits) = counts.total
  /\ \A a \in DOMAIN hosts : hosts[a].packets = ipPacketCounts[a]

(* As long as the table had room no flow was lost, and none gets stale.    *)
FlowsCounted ==
  /\ IsFiniteSet(DOMAIN flows)
  /\ \A k \in DOMAIN flows : flows[k].packets \in Nat /\ flows[k].lastSeen = 0
  /\ Cardinality(DOMAIN flows) < CT!maxFlows =>
       /\ IsFiniteSet(FlowUnits)
       /\ Balance(Cardinality(FlowUnits), TransportPackets, 7)

(* The workers that have counted a finding once more than they have logged *)
(* it, and those that have logged it and not counted it.                   *)
Ahead  == {w \in Worker : todo[w] # <<>> /\ Stage(Head(todo[w])) \in {3, 6}}
Behind == {w \in Worker : todo[w] # <<>> /\ Stage(Head(todo[w])) = 11}

TwiceCounted == Logged("TTL_HOP_INDICATOR") \cup Logged("HARDWARE_OS_DISCREPANCY")

AnomaliesCounted ==
  eventIDSeq <= maxEvents =>
    counts.anomalies + Cardinality(Behind) =
      counts.unencrypted + counts.legacy + 2 * Cardinality(TwiceCounted)
        + Cardinality(Ahead)

IInv ==
  /\ WorkersOK /\ StateOK /\ RingComplete
  /\ FingerprintIsCurrent /\ StatusReasoned /\ IndicatorsOnce /\ Announced
  /\ Counting /\ FlowsCounted /\ AnomaliesCounted

-----------------------------------------------------------------------------
(* What gopacket decodes of a packet.                                      *)
LEMMA PacketFields ==
  ASSUME NEW p \in Packet
  PROVE  /\ p.src \in Address /\ p.mac \in MAC /\ p.ttl \in TTL
         /\ p.questions \in Nat /\ p.payload \in Payload
<1>1. p \in Decoded
  BY PacketAuditAssumption
<1> QED
  BY <1>1 DEF Decoded

(* The stages of the calls.                                                *)
LEMMA StageOfCall ==
  /\ Stage(HostCall) = 0 /\ Stage(IdentityCall) = 4 /\ Stage(FlowCall) = 7
  /\ \A p, category, severity :
       Stage(EventCall(p, category, severity)) = EventStage(category)
  /\ \A kind, n, isAlert : Stage(AnomalyCall(<<kind, n>>, isAlert)) = IndicatorStage(kind)
  /\ \A a : Stage(Call("IncrementProtocol", a)) = IF a = "DNS" THEN 8 ELSE 12
<1>1. Stage(HostCall) = 0 /\ Stage(IdentityCall) = 4 /\ Stage(FlowCall) = 7
  BY DEF Stage, HostCall, IdentityCall, FlowCall, Call
<1>2. ASSUME NEW p, NEW category, NEW severity
      PROVE  Stage(EventCall(p, category, severity)) = EventStage(category)
  BY DEF Stage, EventCall, Call, Event
<1>3. ASSUME NEW kind, NEW n, NEW isAlert
      PROVE  Stage(AnomalyCall(<<kind, n>>, isAlert)) = IndicatorStage(kind)
  BY DEF Stage, AnomalyCall, Call
<1>4. ASSUME NEW a
      PROVE  Stage(Call("IncrementProtocol", a)) = IF a = "DNS" THEN 8 ELSE 12
  BY DEF Stage, Call
<1> QED
  BY <1>1, <1>2, <1>3, <1>4

(* And of the two kinds of calls that have several.                        *)
LEMMA StageOfKind ==
  /\ EventStage("NEW_HOST") = 1 /\ EventStage("TTL_HOP_INDICATOR") = 3
  /\ EventStage("HARDWARE_OS_DISCREPANCY") = 6 /\ EventStage("DNS_QUERY") = 9
  /\ EventStage("CLEARTEXT_TRAFFIC") = 10 /\ EventStage("LEGACY_NAME_RES") = 10
  /\ \A kind \in TTLKinds : IndicatorStage(kind) = 2
  /\ \A kind \in MismatchKinds : IndicatorStage(kind) = 5
  /\ \A kind \in CleartextKinds \cup LegacyKinds : IndicatorStage(kind) = 11
BY DEF EventStage, IndicatorStage, TTLKinds, MismatchKinds, CleartextKinds, LegacyKinds

LEMMA StageIsNatural ==
  ASSUME NEW p, NEW c \in CallsOf(p)
  PROVE  Stage(c) \in 0..12
<1>1. \A category : EventStage(category) \in 0..12
  BY DEF EventStage
<1>2. \A kind : IndicatorStage(kind) \in 0..12
  BY DEF IndicatorStage
<1>3. CASE c \in {HostCall, IdentityCall, FlowCall}
  BY <1>3, StageOfCall
<1>4. CASE \E category \in CategoriesOf(p) : c = EventOf(p, category)
  BY <1>1, <1>4, StageOfCall DEF EventOf
<1>5. CASE \E kind \in KindsOf(p), n \in TTL : c = IndicatorCall(kind, n)
  BY <1>2, <1>5, StageOfCall DEF IndicatorCall
<1>6. CASE \E a \in CleartextKinds \cup LegacyKinds \cup {"DNS"} :
             c = Call("IncrementProtocol", a)
  BY <1>6, StageOfCall
<1> QED
  BY <1>3, <1>4, <1>5, <1>6 DEF CallsOf

-----------------------------------------------------------------------------
(* Stages of sequences.                                                    *)
LEMMA EmptyIsLegal ==
  ASSUME NEW p
  PROVE  Legal(p, <<>>) /\ Stages(<<>>) = {}
BY DEF Legal, Stages

(* One call less.                                                          *)
LEMMA TailIsLegal ==
  ASSUME NEW p, NEW s, Legal(p, s), s # <<>>
  PROVE  /\ Legal(p, Tail(s))
         /\ Head(s) \in CallsOf(p)
         /\ Stages(s) = {Stage(Head(s))} \cup Stages(Tail(s))
         /\ \A n \in Stages(Tail(s)) : Stage(Head(s)) < n \/ (Stage(Head(s)) = 9 /\ n = 9)
         /\ Stage(Head(s)) \in First =>
              Tail(s) # <<>> /\ Stage(Head(Tail(s))) = Stage(Head(s)) + 1
         /\ Tail(s) # <<>> /\ Stage(Head(Tail(s))) \in Second =>
              Stage(Head(s)) = Stage(Head(Tail(s))) - 1
<1>1. /\ s \in Seq(CallsOf(p)) /\ Len(s) \in Nat \ {0}
      /\ Head(s) = s[1] /\ s[1] \in CallsOf(p)
      /\ Tail(s) \in Seq(CallsOf(p)) /\ Len(Tail(s)) = Len(s) - 1
      /\ \A i \in 1..Len(s) - 1 : Tail(s)[i] = s[i + 1]
  BY DEF Legal
<1>2. Tail(s) # <<>> => Len(s) > 1 /\ Head(Tail(s)) = s[2]
  BY <1>1
<1>3. \A i \in 1..Len(Tail(s)) : i + 1 \in 2..Len(s) /\ Tail(s)[i] = s[i + 1]
  BY <1>1
<1>4. \A i \in 2..Len(s) : i - 1 \in 1..Len(Tail(s)) /\ Tail(s)[i - 1] = s[i]
  BY <1>1
<1>5. Legal(p, Tail(s))
  <2>1. ASSUME NEW i \in 1..Len(Tail(s)), NEW j \in 1..Len(Tail(s)), i < j
        PROVE  \/ Stage(Tail(s)[i]) < Stage(Tail(s)[j])
               \/ Stage(Tail(s)[i]) = 9 /\ Stage(Tail(s)[j]) = 9
    <3>1. i + 1 \in 1..Len(s) /\ j + 1 \in 1..Len(s) /\ i + 1 < j + 1
      BY <1>1, <2>1
    <3> QED
      BY <1>3, <3>1 DEF Legal
  <2>2. ASSUME NEW i \in 1..Len(Tail(s)), Stage(Tail(s)[i]) \in First
        PROVE  i < Len(Tail(s)) /\ Stage(Tail(s)[i + 1]) = Stage(Tail(s)[i]) + 1
    <3>1. i + 1 \in 1..Len(s) /\ Stage(s[i + 1]) \in First
      BY <1>1, <1>3, <2>2
    <3>2. i + 1 < Len(s) /\ Stage(s[(i + 1) + 1]) = Stage(s[i + 1]) + 1
      BY <3>1 DEF Legal
    <3> QED
      BY <1>1, <1>3, <3>2
  <2>3. ASSUME NEW i \in 2..Len(Tail(s)), Stage(Tail(s)[i]) \in Second
        PROVE  Stage(Tail(s)[i - 1]) = Stage(Tail(s)[i]) - 1
    <3>1. i + 1 \in 2..Len(s) /\ Tail(s)[i] = s[i + 1] /\ Tail(s)[i - 1] = s[i]
      BY <1>1
    <3>2. Stage(s[(i + 1) - 1]) = Stage(s[i + 1]) - 1
      BY <2>3, <3>1 DEF Legal
    <3> QED
      BY <3>1, <3>2
  <2> QED
    BY <1>1, <2>1, <2>2, <2>3 DEF Legal
<1>6. Stages(s) = {Stage(Head(s))} \cup Stages(Tail(s))
  <2>1. ASSUME NEW n \in Stages(s) PROVE n \in {Stage(Head(s))} \cup Stages(Tail(s))
    <3>1. PICK i \in 1..Len(s) : n = Stage(s[i])
      BY DEF Stages
    <3>2. CASE i = 1
      BY <1>1, <3>1, <3>2
    <3>3. CASE i \in 2..Len(s)
      BY <1>4, <3>1, <3>3 DEF Stages
    <3> QED
      BY <1>1, <3>2, <3>3
  <2>2. \A n \in Stages(Tail(s)) : n \in Stages(s)
    BY <1>1, <1>3 DEF Stages
  <2>3. Stage(Head(s)) \in Stages(s)
    BY <1>1 DEF Stages
  <2> QED
    BY <2>1, <2>2, <2>3
<1>7. ASSUME NEW n \in Stages(Tail(s))
      PROVE  Stage(Head(s)) < n \/ (Stage(Head(s)) = 9 /\ n = 9)
  <2>1. PICK i \in 1..Len(Tail(s)) : n = Stage(Tail(s)[i])
    BY DEF Stages
  <2>2. n = Stage(s[i + 1]) /\ i + 1 \in 1..Len(s) /\ 1 < i + 1
    BY <1>1, <1>3, <2>1
  <2> QED
    BY <1>1, <2>2 DEF Legal
<1>8. Stage(Head(s)) \in First =>
        Tail(s) # <<>> /\ Stage(Head(Tail(s))) = Stage(Head(s)) + 1
  <2> SUFFICES ASSUME Stage(s[1]) \in First
               PROVE  Tail(s) # <<>> /\ Stage(s[2]) = Stage(s[1]) + 1
    BY <1>1, <1>2
  <2>1. 1 < Len(s) /\ Stage(s[1 + 1]) = Stage(s[1]) + 1
    BY <1>1 DEF Legal
  <2>2. Tail(s) # <<>>
    <3>1. Len(<<>>) = 0 /\ Len(Tail(s)) # 0
      BY <1>1, <2>1
    <3> QED
      BY <3>1
  <2>3. Stage(s[2]) = Stage(s[1]) + 1
    BY ONLY <2>1
  <2> QED
    BY <2>2, <2>3
<1>9. Tail(s) # <<>> /\ Stage(Head(Tail(s))) \in Second =>
        Stage(Head(s)) = Stage(Head(Tail(s))) - 1
  <2> SUFFICES ASSUME Tail(s) # <<>>, Stage(s[2]) \in Second
               PROVE  Stage(s[1]) = Stage(s[2]) - 1
    BY <1>1, <1>2
  <2>1. 2 \in 2..Len(s)
    BY <1>1, <1>2
  <2>2. Stage(s[2 - 1]) = Stage(s[2]) - 1
    BY <2>1 DEF Legal
  <2> QED
    BY <2>2
<1> QED
  BY <1>1, <1>5, <1>6, <1>7, <1>8, <1>9

(* A sequence that does not begin in the middle of a finding.              *)
Fresh(s) == s # <<>> => Stage(Head(s)) \notin Second

Before(s, t) == \A m \in Stages(s), n \in Stages(t) : m < n

(* Two parts of the calls, one after the other.                            *)
LEMMA ConcatIsLegal ==
  ASSUME NEW p, NEW s, NEW t, Legal(p, s), Legal(p, t), Fresh(s), Fresh(t), Before(s, t)
  PROVE  /\ Legal(p, s \o t) /\ Fresh(s \o t)
         /\ Stages(s \o t) = Stages(s) \cup Stages(t)
<1> DEFINE u == s \o t
<1>1. /\ s \in Seq(CallsOf(p)) /\ t \in Seq(CallsOf(p)) /\ u \in Seq(CallsOf(p))
      /\ Len(s) \in Nat /\ Len(t) \in Nat /\ Len(u) = Len(s) + Len(t)
      /\ \A i \in 1..Len(u) : u[i] = IF i <= Len(s) THEN s[i] ELSE t[i - Len(s)]
  BY ConcatProperties DEF Legal
<1> HIDE DEF u
<1>0. Len(s) \in Nat /\ Len(t) \in Nat /\ Len(u) = Len(s) + Len(t)
  BY <1>1
<1>2. \A i \in 1..Len(s) : i \in 1..Len(u) /\ u[i] = s[i] /\ Stage(u[i]) \in Stages(s)
  BY <1>1 DEF Stages
<1>3. \A i \in 1..Len(u) : ~(i <= Len(s)) =>
         i - Len(s) \in 1..Len(t) /\ u[i] = t[i - Len(s)] /\ Stage(u[i]) \in Stages(t)
  BY <1>1 DEF Stages
<1>4. ASSUME NEW i \in 1..Len(t) PROVE i + Len(s) \in 1..Len(u) /\ u[i + Len(s)] = t[i]
  <2>1. /\ i + Len(s) \in 1..Len(u) /\ ~(i + Len(s) <= Len(s))
        /\ (i + Len(s)) - Len(s) = i
    BY <1>0
  <2> QED
    BY <1>1, <2>1
<1>5. ASSUME NEW i \in 1..Len(u), NEW j \in 1..Len(u), i < j
      PROVE  Stage(u[i]) < Stage(u[j]) \/ (Stage(u[i]) = 9 /\ Stage(u[j]) = 9)
  <2>1. CASE j <= Len(s)
    <3>1. i \in 1..Len(s) /\ j \in 1..Len(s)
      BY <1>1, <1>5, <2>1
    <3> QED
      BY <1>2, <1>5, <3>1 DEF Legal
  <2>2. CASE i <= Len(s) /\ ~(j <= Len(s))
    <3>1. Stage(u[i]) \in Stages(s) /\ Stage(u[j]) \in Stages(t)
      BY <1>1, <1>2, <1>3, <2>2
    <3> QED
      BY <3>1 DEF Before
  <2>3. CASE ~(i <= Len(s)) /\ ~(j <= Len(s))
    <3>1. /\ i - Len(s) \in 1..Len(t) /\ j - Len(s) \in 1..Len(t)
          /\ i - Len(s) < j - Len(s)
      BY <1>1, <1>3, <1>5, <2>3
    <3>2. u[i] = t[i - Len(s)] /\ u[j] = t[j - Len(s)]
      BY <1>3, <2>3
    <3>3. \/ Stage(t[i - Len(s)]) < Stage(t[j - Len(s)])
          \/ Stage(t[i - Len(s)]) = 9 /\ Stage(t[j - Len(s)]) = 9
      BY <3>1 DEF Legal
    <3> QED
      BY <3>2, <3>3
  <2> QED
    BY <1>1, <1>5, <2>1, <2>2, <2>3
<1>6. ASSUME NEW i \in 1..Len(u), Stage(u[i]) \in First
      PROVE  i < Len(u) /\ Stage(u[i + 1]) = Stage(u[i]) + 1
  <2>1. CASE i <= Len(s)
    <3>1. i \in 1..Len(s) /\ u[i] = s[i]
      BY <1>1, <1>2, <2>1
    <3>2. i < Len(s) /\ Stage(s[i + 1]) = Stage(s[i]) + 1
      BY <1>6, <3>1 DEF Legal
    <3>3. i + 1 \in 1..Len(s)
      BY <1>1, <3>2
    <3> QED
      BY <1>1, <1>2, <3>1, <3>2, <3>3
  <2>2. CASE ~(i <= Len(s))
    <3>1. i - Len(s) \in 1..Len(t) /\ u[i] = t[i - Len(s)]
      BY <1>3, <2>2
    <3>2. i - Len(s) < Len(t) /\ Stage(t[(i - Len(s)) + 1]) = Stage(t[i - Len(s)]) + 1
      BY <1>6, <3>1 DEF Legal
    <3>3. /\ (i - Len(s)) + 1 \in 1..Len(t) /\ i < Len(u)
          /\ ((i - Len(s)) + 1) + Len(s) = i + 1
      <4>1. i \in Int /\ i - Len(s) \in 1..Len(t) /\ i - Len(s) < Len(t)
        BY <3>1, <3>2
      <4> QED
        BY ONLY <1>0, <4>1
    <3>4. u[i + 1] = t[(i - Len(s)) + 1] /\ i < Len(u)
      BY <1>4, <3>3
    <3> QED
      BY <3>1, <3>2, <3>4
  <2> QED
    BY <2>1, <2>2
<1>7. ASSUME NEW i \in 2..Len(u), Stage(u[i]) \in Second
      PROVE  Stage(u[i - 1]) = Stage(u[i]) - 1
  <2>0. i - 1 \in 1..Len(u) /\ i \in 1..Len(u)
    BY <1>1
  <2>1. CASE i <= Len(s)
    <3>1. i \in 2..Len(s) /\ u[i] = s[i] /\ u[i - 1] = s[i - 1]
      BY <1>1, <2>0, <2>1
    <3>2. Stage(s[i - 1]) = Stage(s[i]) - 1
      BY <1>7, <3>1 DEF Legal
    <3> QED
      BY <3>1, <3>2
  <2>2. CASE i = Len(s) + 1
    <3>1. i - Len(s) = 1 /\ Len(t) > 0
      BY <1>1, <2>0, <2>2
    <3>2. u[i] = t[1] /\ t # <<>> /\ Head(t) = t[1]
      BY <1>1, <1>3, <2>0, <2>2, <3>1
    <3> QED
      BY <1>7, <3>2 DEF Fresh
  <2>3. CASE i > Len(s) + 1
    <3>0. /\ i - Len(s) \in 2..Len(t) /\ (i - 1) - Len(s) = (i - Len(s)) - 1
          /\ ~(i <= Len(s)) /\ ~(i - 1 <= Len(s))
      BY ONLY <1>0, <2>0, <2>3
    <3>1. /\ i - Len(s) \in 2..Len(t) /\ u[i] = t[i - Len(s)]
          /\ u[i - 1] = t[(i - Len(s)) - 1]
      BY <1>3, <2>0, <3>0
    <3>2. Stage(t[(i - Len(s)) - 1]) = Stage(t[i - Len(s)]) - 1
      BY <1>7, <3>1 DEF Legal
    <3> QED
      BY <3>1, <3>2
  <2> QED
    BY <1>1, <2>0, <2>1, <2>2, <2>3
<1>8. Legal(p, u)
  BY <1>1, <1>5, <1>6, <1>7 DEF Legal
<1>9. Fresh(u)
  <2>1. CASE s = <<>>
    <3>1. u = t
      BY <1>1, <2>1, ConcatEmptySeq DEF u
    <3> QED
      BY <3>1
  <2>2. CASE s # <<>>
    <3>1. Head(u) = u[1] /\ u[1] = s[1] /\ Head(s) = s[1]
      BY <1>1, <1>2, <2>2
    <3> QED
      BY <2>2, <3>1 DEF Fresh
  <2> QED
    BY <2>1, <2>2
<1>10. Stages(u) = Stages(s) \cup Stages(t)
  <2>1. ASSUME NEW n \in Stages(u) PROVE n \in Stages(s) \cup Stages(t)
    <3>1. PICK i \in 1..Len(u) : n = Stage(u[i])
      BY DEF Stages
    <3> QED
      BY <1>1, <1>2, <1>3, <3>1
  <2>2. \A n \in Stages(s) : n \in Stages(u)
    BY <1>2 DEF Stages
  <2>3. ASSUME NEW n \in Stages(t) PROVE n \in Stages(u)
    <3>1. PICK i \in 1..Len(t) : n = Stage(t[i])
      BY DEF Stages
    <3> QED
      BY <1>4, <3>1 DEF Stages
  <2> QED
    BY <2>1, <2>2, <2>3
<1> QED
  BY <1>8, <1>9, <1>10 DEF u

LEMMA StagesOfConcat ==
  \A p, x, y :
    Legal(p, x) /\ Legal(p, y) /\ Fresh(x) /\ Fresh(y) /\ Before(x, y) =>
      Stages(x \o y) = Stages(x) \cup Stages(y)
<1>1. ASSUME NEW p, NEW x, NEW y,
             Legal(p, x), Legal(p, y), Fresh(x), Fresh(y), Before(x, y)
      PROVE  Stages(x \o y) = Stages(x) \cup Stages(y)
  BY <1>1, ConcatIsLegal
<1> QED
  BY <1>1

(* Short parts.                                                            *)
LEMMA SingleIsLegal ==
  ASSUME NEW p, NEW c \in CallsOf(p), Stage(c) \notin First \cup Second
  PROVE  Legal(p, <<c>>) /\ Fresh(<<c>>) /\ Stages(<<c>>) = {Stage(c)}
<1>1. <<c>> \in Seq(CallsOf(p)) /\ Len(<<c>>) = 1 /\ <<c>>[1] = c /\ Head(<<c>>) = c
  OBVIOUS
<1> QED
  BY <1>1 DEF Legal, Fresh, Stages

LEMMA PairIsLegal ==
  ASSUME NEW p, NEW c \in CallsOf(p), NEW d \in CallsOf(p),
         Stage(c) \in First, Stage(d) = Stage(c) + 1
  PROVE  Legal(p, <<c, d>>) /\ Fresh(<<c, d>>) /\ Stages(<<c, d>>) = {Stage(c), Stage(d)}
<1> DEFINE s == <<c, d>>
<1>1. /\ s \in Seq(CallsOf(p)) /\ Len(s) = 2 /\ s[1] = c /\ s[2] = d /\ Head(s) = c
  OBVIOUS
<1> HIDE DEF s
<1>2. Stage(c) \in {2, 5, 10} /\ Stage(d) \in {3, 6, 11}
  BY DEF First
<1>3. \A i \in 1..Len(s) : i = 1 \/ i = 2
  BY <1>1
<1>4. Legal(p, s)
  <2>1. \A i, j \in 1..Len(s) : i < j => Stage(s[i]) < Stage(s[j])
    BY <1>1, <1>2, <1>3
  <2>2. \A i \in 1..Len(s) :
          Stage(s[i]) \in First => i < Len(s) /\ Stage(s[i + 1]) = Stage(s[i]) + 1
    <3>1. Stage(s[2]) \notin First
      BY <1>1, <1>2 DEF First
    <3> QED
      BY <1>1, <1>3, <3>1
  <2>3. \A i \in 2..Len(s) : Stage(s[i - 1]) = Stage(s[i]) - 1
    BY <1>1, <1>2
  <2> QED
    BY <1>1, <2>1, <2>2, <2>3 DEF Legal
<1>5. Fresh(s)
  BY <1>1, <1>2 DEF Fresh, Second
<1>6. Stages(s) = {Stage(c), Stage(d)}
  BY <1>1, <1>3 DEF Stages
<1> QED
  BY <1>4, <1>5, <1>6 DEF s

LEMMA TripleIsLegal ==
  ASSUME NEW p, NEW c \in CallsOf(p), NEW d \in CallsOf(p), NEW e \in CallsOf(p),
         Stage(c) = 10, Stage(d) = 11, Stage(e) = 12
  PROVE  /\ Legal(p, <<c, d, e>>) /\ Fresh(<<c, d, e>>)
         /\ Stages(<<c, d, e>>) = {10, 11, 12}
<1> DEFINE s == <<c, d, e>>
<1>1. /\ s \in Seq(CallsOf(p)) /\ Len(s) = 3 /\ s[1] = c /\ s[2] = d /\ s[3] = e
      /\ Head(s) = c
  OBVIOUS
<1> HIDE DEF s
<1>2. \A i \in 1..Len(s) : (i = 1 \/ i = 2 \/ i = 3) /\ Stage(s[i]) = 9 + i
  BY <1>1
<1>3. Legal(p, s)
  <2>1. \A i, j \in 1..Len(s) : i < j => Stage(s[i]) < Stage(s[j])
    BY <1>2
  <2>2. \A i \in 1..Len(s) :
          Stage(s[i]) \in First => i < Len(s) /\ Stage(s[i + 1]) = Stage(s[i]) + 1
    BY <1>1, <1>2 DEF First
  <2>3. \A i \in 2..Len(s) : Stage(s[i - 1]) = Stage(s[i]) - 1
    BY <1>1, <1>2
  <2> QED
    BY <1>1, <2>1, <2>2, <2>3 DEF Legal
<1>4. Fresh(s)
  BY <1>1 DEF Fresh, Second
<1>5. Stages(s) = {10, 11, 12}
  <2>1. \A i \in 1..Len(s) : Stage(s[i]) \in {10, 11, 12}
    BY <1>2
  <2>2. 10 \in Stages(s) /\ 11 \in Stages(s) /\ 12 \in Stages(s)
    BY <1>1 DEF Stages
  <2> QED
    BY <2>1, <2>2 DEF Stages
<1> QED
  BY <1>3, <1>4, <1>5 DEF s

-----------------------------------------------------------------------------
(* The parts that processPacket is made of.                                *)
LEMMA AnnouncementIsLegal ==
  ASSUME NEW p, NEW isNew \in BOOLEAN
  PROVE  LET s == Announcement(p, isNew)
         IN  /\ Legal(p, s) /\ Fresh(s)
             /\ Stages(s) = IF isNew THEN {1} ELSE {}
<1>1. CASE isNew
  <2>1. Announcement(p, isNew) = <<EventOf(p, "NEW_HOST")>>
    BY <1>1 DEF Announcement, EventOf, SeverityOf
  <2>2. EventOf(p, "NEW_HOST") \in CallsOf(p)
    BY DEF CallsOf, CategoriesOf, Category
  <2>3. Stage(EventOf(p, "NEW_HOST")) = 1
    BY StageOfCall, StageOfKind DEF EventOf
  <2>4. 1 \notin First \cup Second
    BY DEF First, Second
  <2> HIDE DEF EventOf
  <2> QED
    BY <1>1, <2>1, <2>2, <2>3, <2>4, SingleIsLegal
<1>2. CASE ~isNew
  BY <1>2, EmptyIsLegal DEF Announcement, Fresh
<1> QED
  BY <1>1, <1>2

(* A finding of the packet that is first listed, then logged.              *)
LEMMA ListedFirst ==
  ASSUME NEW p, NEW category \in {"TTL_HOP_INDICATOR", "HARDWARE_OS_DISCREPANCY"},
         NEW kind \in IF category = "TTL_HOP_INDICATOR" THEN TTLKinds ELSE MismatchKinds,
         NEW n \in TTL
  PROVE  LET s == <<IndicatorCall(kind, n), EventOf(p, category)>>
         IN  /\ Legal(p, s) /\ Fresh(s)
             /\ Stages(s) = IF category = "TTL_HOP_INDICATOR" THEN {2, 3} ELSE {5, 6}
<1>1. IndicatorCall(kind, n) \in CallsOf(p) /\ EventOf(p, category) \in CallsOf(p)
  BY DEF CallsOf, KindsOf, CategoriesOf, Category
<1>2. Stage(EventOf(p, category)) = IF category = "TTL_HOP_INDICATOR" THEN 3 ELSE 6
  BY StageOfCall, StageOfKind DEF EventOf
<1>3. Stage(IndicatorCall(kind, n)) = IF category = "TTL_HOP_INDICATOR" THEN 2 ELSE 5
  BY StageOfCall, StageOfKind DEF IndicatorCall
<1> QED
  BY <1>1, <1>2, <1>3, PairIsLegal DEF First

LEMMA TTLCallsLegal ==
  ASSUME NEW p \in Packet
  PROVE  LET s == TTLCalls(p)
         IN  Legal(p, s) /\ Fresh(s) /\ Stages(s) \in {{}, {2, 3}}
<1> DEFINE report == DetectTTLAnomaly(p.ttl, p.src \in LocalSubnet, p.isIPv6)
<1>1. CASE report = {}
  <2>1. TTLCalls(p) = <<>>
    BY <1>1 DEF TTLCalls, ForEach
  <2> QED
    BY <2>1, EmptyIsLegal DEF Fresh
<1>2. CASE report # {}
  <2>1. PICK r : r \in report /\ r = CHOOSE x \in report : TRUE
    BY <1>2
  <2>2. TTLCalls(p) = <<AnomalyCall(r, FALSE),
                        EventCall(p, "TTL_HOP_INDICATOR", "SUSPICIOUS")>>
    BY <1>2, <2>1 DEF TTLCalls, ForEach
  <2>3. p.ttl \in TTL
    BY PacketFields
  <2>4. PICK kind \in TTLKinds : r = <<kind, p.ttl>>
    BY <2>1 DEF DetectTTLAnomaly, TTLKinds
  <2>5. IndicatorCall(kind, p.ttl) = AnomalyCall(r, FALSE)
    <3>1. kind \notin MismatchKinds \cup CleartextKinds
      BY DEF TTLKinds, MismatchKinds, CleartextKinds
    <3>2. (kind \in MismatchKinds \cup CleartextKinds) = FALSE
      BY <3>1
    <3> QED
      BY <2>4, <3>2 DEF IndicatorCall
  <2>6. EventOf(p, "TTL_HOP_INDICATOR")
          = EventCall(p, "TTL_HOP_INDICATOR", "SUSPICIOUS")
    BY DEF EventOf, SeverityOf
  <2> QED
    <3>1. TTLCalls(p) = <<IndicatorCall(kind, p.ttl), EventOf(p, "TTL_HOP_INDICATOR")>>
      BY <2>2, <2>5, <2>6
    <3> HIDE DEF report
    <3>2. LET s == <<IndicatorCall(kind, p.ttl), EventOf(p, "TTL_HOP_INDICATOR")>>
          IN  Legal(p, s) /\ Fresh(s) /\ Stages(s) = {2, 3}
      BY <2>3, ListedFirst
    <3> QED
      BY <3>1, <3>2
<1> QED
  BY <1>1, <1>2

LEMMA MismatchCallsLegal ==
  ASSUME NEW p, NEW host
  PROVE  LET s == MismatchCalls(p, host)
         IN  Legal(p, s) /\ Fresh(s) /\ Stages(s) \in {{}, {5, 6}}
<1> DEFINE report == DetectIdentityMismatch(host.vendor, host.os)
<1>1. CASE report = {}
  <2>1. MismatchCalls(p, host) = <<>>
    BY <1>1 DEF MismatchCalls, ForEach
  <2> QED
    BY <2>1, EmptyIsLegal DEF Fresh
<1>2. CASE report # {}
  <2>1. PICK r : r \in report /\ r = CHOOSE x \in report : TRUE
    BY <1>2
  <2>2. MismatchCalls(p, host) =
          <<AnomalyCall(r, TRUE), EventCall(p, "HARDWARE_OS_DISCREPANCY", "ALERT")>>
    BY <1>2, <2>1 DEF MismatchCalls, ForEach
  <2>3. report \in {{}, {<<"apple mismatch", 0>>}, {<<"gear mismatch", 0>>},
                     {<<"microsoft mismatch", 0>>}}
    BY DEF DetectIdentityMismatch
  <2> HIDE DEF report
  <2>4. PICK kind \in MismatchKinds : r = <<kind, 0>>
    BY <2>1, <2>3 DEF MismatchKinds
  <2>6. IndicatorCall(kind, 0) = AnomalyCall(r, TRUE)
    <3>1. (kind \in MismatchKinds \cup CleartextKinds) = TRUE
      OBVIOUS
    <3> QED
      BY <2>4, <3>1 DEF IndicatorCall
  <2>7. EventOf(p, "HARDWARE_OS_DISCREPANCY")
          = EventCall(p, "HARDWARE_OS_DISCREPANCY", "ALERT")
    BY DEF EventOf, SeverityOf
  <2>5. 0 \in TTL
    BY DEF TTL
  <2> QED
    <3>1. MismatchCalls(p, host) =
            <<IndicatorCall(kind, 0), EventOf(p, "HARDWARE_OS_DISCREPANCY")>>
      BY <2>2, <2>6, <2>7
    <3>2. LET s == <<IndicatorCall(kind, 0), EventOf(p, "HARDWARE_OS_DISCREPANCY")>>
          IN  Legal(p, s) /\ Fresh(s) /\ Stages(s) = {5, 6}
      BY <2>5, ListedFirst
    <3> QED
      BY <3>1, <3>2
<1> QED
  BY <1>1, <1>2

(* A finding of the packet that is first logged, then listed and counted.  *)
LEMMA LoggedFirst ==
  ASSUME NEW p, NEW category \in {"CLEARTEXT_TRAFFIC", "LEGACY_NAME_RES"},
         category \in CategoriesOf(p),
         NEW kind \in IF category = "CLEARTEXT_TRAFFIC" THEN CleartextKinds ELSE LegacyKinds
  PROVE  LET s == <<EventOf(p, category), IndicatorCall(kind, 0),
                    Call("IncrementProtocol", kind)>>
         IN  Legal(p, s) /\ Fresh(s) /\ Stages(s) = {10, 11, 12}
<1>1. kind \in KindsOf(p)
  BY DEF CategoriesOf, KindsOf
<1>2. 0 \in TTL
  BY DEF TTL
<1>3. /\ EventOf(p, category) \in CallsOf(p) /\ IndicatorCall(kind, 0) \in CallsOf(p)
      /\ Call("IncrementProtocol", kind) \in CallsOf(p)
  BY <1>1, <1>2 DEF CallsOf
<1>4. Stage(EventOf(p, category)) = 10
  BY StageOfCall, StageOfKind DEF EventOf
<1>5. Stage(IndicatorCall(kind, 0)) = 11
  BY StageOfCall, StageOfKind DEF IndicatorCall
<1>6. Stage(Call("IncrementProtocol", kind)) = 12
  BY StageOfCall DEF CleartextKinds, LegacyKinds
<1> QED
  BY <1>3, <1>4, <1>5, <1>6, TripleIsLegal

LEMMA CleartextCallsLegal ==
  ASSUME NEW p, p.layer = "TCP"
  PROVE  LET s == CleartextCalls(p)
         IN  /\ Legal(p, s) /\ Fresh(s)
             /\ Stages(s) = IF IsCleartext(p) THEN {10, 11, 12} ELSE {}
<1> DEFINE report == InspectUnencryptedProtocols(p.sport, p.dport, p.payload)
<1>1. CASE report = {}
  <2>1. CleartextCalls(p) = <<>> /\ ~IsCleartext(p)
    BY <1>1 DEF CleartextCalls, ForEach, IsCleartext
  <2> QED
    BY <2>1, EmptyIsLegal DEF Fresh
<1>2. CASE report # {}
  <2>1. PICK kind : kind \in report /\ kind = CHOOSE x \in report : TRUE
    BY <1>2
  <2>2. CleartextCalls(p) =
          <<EventCall(p, "CLEARTEXT_TRAFFIC", "ALERT"), AnomalyCall(<<kind, 0>>, TRUE),
            Call("IncrementProtocol", kind)>>
    BY <1>2, <2>1 DEF CleartextCalls, ForEach
  <2>3. kind \in CleartextKinds
    BY <2>1 DEF InspectUnencryptedProtocols, CleartextKinds
  <2>4. IsCleartext(p) /\ "CLEARTEXT_TRAFFIC" \in CategoriesOf(p)
    BY <1>2 DEF IsCleartext, CategoriesOf, Category
  <2>5. IndicatorCall(kind, 0) = AnomalyCall(<<kind, 0>>, TRUE)
    <3>1. (kind \in MismatchKinds \cup CleartextKinds) = TRUE
      BY <2>3
    <3> QED
      BY <3>1 DEF IndicatorCall
  <2>6. EventOf(p, "CLEARTEXT_TRAFFIC") = EventCall(p, "CLEARTEXT_TRAFFIC", "ALERT")
    BY DEF EventOf, SeverityOf
  <2> HIDE DEF report
  <2>7. LET s == <<EventOf(p, "CLEARTEXT_TRAFFIC"), IndicatorCall(kind, 0),
                   Call("IncrementProtocol", kind)>>
        IN  Legal(p, s) /\ Fresh(s) /\ Stages(s) = {10, 11, 12}
    BY <2>3, <2>4, LoggedFirst
  <2> QED
    BY <2>2, <2>4, <2>5, <2>6, <2>7
<1> QED
  BY <1>1, <1>2

LEMMA LegacyCallsLegal ==
  ASSUME NEW p, p.layer = "UDP"
  PROVE  LET s == LegacyCalls(p)
         IN  /\ Legal(p, s) /\ Fresh(s)
             /\ Stages(s) = IF IsLegacy(p) THEN {10, 11, 12} ELSE {}
<1> DEFINE report == InspectLegacyNameResolution(p.sport, p.dport)
<1>1. CASE report = {}
  <2>1. LegacyCalls(p) = <<>> /\ ~IsLegacy(p)
    BY <1>1 DEF LegacyCalls, ForEach, IsLegacy
  <2> QED
    BY <2>1, EmptyIsLegal DEF Fresh
<1>2. CASE report # {}
  <2>1. PICK kind : kind \in report /\ kind = CHOOSE x \in report : TRUE
    BY <1>2
  <2>2. LegacyCalls(p) =
          <<EventCall(p, "LEGACY_NAME_RES", "SUSPICIOUS"), AnomalyCall(<<kind, 0>>, FALSE),
            Call("IncrementProtocol", kind)>>
    BY <1>2, <2>1 DEF LegacyCalls, ForEach
  <2>3. kind \in LegacyKinds
    BY <2>1 DEF InspectLegacyNameResolution, LegacyKinds
  <2>4. IsLegacy(p) /\ "LEGACY_NAME_RES" \in CategoriesOf(p)
    BY <1>2 DEF IsLegacy, CategoriesOf, Category
  <2>5. IndicatorCall(kind, 0) = AnomalyCall(<<kind, 0>>, FALSE)
    <3>1. kind \notin MismatchKinds \cup CleartextKinds
      BY <2>3 DEF LegacyKinds, MismatchKinds, CleartextKinds
    <3>2. (kind \in MismatchKinds \cup CleartextKinds) = FALSE
      BY <3>1
    <3> QED
      BY <3>2 DEF IndicatorCall
  <2>6. EventOf(p, "LEGACY_NAME_RES") = EventCall(p, "LEGACY_NAME_RES", "SUSPICIOUS")
    BY DEF EventOf, SeverityOf
  <2> HIDE DEF report
  <2>7. LET s == <<EventOf(p, "LEGACY_NAME_RES"), IndicatorCall(kind, 0),
                   Call("IncrementProtocol", kind)>>
        IN  Legal(p, s) /\ Fresh(s) /\ Stages(s) = {10, 11, 12}
    BY <2>3, <2>4, LoggedFirst
  <2> QED
    BY <2>2, <2>4, <2>5, <2>6, <2>7
<1> QED
  BY <1>1, <1>2

(* Any number of DNS events may follow each other.                         *)
LEMMA DNSCallsLegal ==
  ASSUME NEW p \in Packet
  PROVE  LET s == DNSCalls(p)
         IN  Legal(p, s) /\ Fresh(s) /\ Stages(s) \subseteq {8, 9}
<1>1. CASE 53 \notin {p.sport, p.dport}
  <2>1. DNSCalls(p) = <<>>
    BY <1>1 DEF DNSCalls
  <2> QED
    BY <2>1, EmptyIsLegal DEF Fresh
<1>2. CASE 53 \in {p.sport, p.dport}
  <2> DEFINE c == EventCall(p, "DNS_QUERY", "INFO")
             t == [i \in 1..p.questions |-> c]
             h == Call("IncrementProtocol", "DNS")
             s == <<h>>
  <2>1. DNSCalls(p) = s \o t
    BY <1>2 DEF DNSCalls
  <2>2. h \in CallsOf(p) /\ Stage(h) = 8
    BY StageOfCall DEF CallsOf
  <2>3. c \in CallsOf(p) /\ Stage(c) = 9
    <3>1. c = EventOf(p, "DNS_QUERY")
      BY DEF EventOf, SeverityOf
    <3>2. "DNS_QUERY" \in CategoriesOf(p)
      BY DEF CategoriesOf, Category
    <3> QED
      BY <3>1, <3>2, StageOfCall, StageOfKind DEF CallsOf
  <2>4. p.questions \in Nat
    BY PacketFields
  <2> HIDE DEF c, h
  <2>5. t \in Seq(CallsOf(p)) /\ Len(t) = p.questions /\ \A i \in 1..Len(t) : t[i] = c
    BY <2>3, <2>4
  <2> HIDE DEF t
  <2>6. Legal(p, t) /\ Stages(t) \subseteq {9}
    BY <2>3, <2>4, <2>5 DEF Legal, First, Second, Stages
  <2>7. Fresh(t)
    <3> SUFFICES ASSUME t # <<>> PROVE Stage(Head(t)) = 9
      BY DEF Fresh, Second
    <3>1. Head(t) = t[1] /\ 1 \in 1..Len(t)
      BY <2>5
    <3> QED
      BY <2>3, <2>5, <3>1
  <2>8. Legal(p, s) /\ Fresh(s) /\ Stages(s) = {8}
    BY <2>2, SingleIsLegal DEF First, Second
  <2> HIDE DEF s
  <2>9. Before(s, t)
    BY <2>6, <2>8 DEF Before
  <2>10. Legal(p, s \o t) /\ Fresh(s \o t) /\ Stages(s \o t) = Stages(s) \cup Stages(t)
    BY <2>6, <2>7, <2>8, <2>9, ConcatIsLegal
  <2> QED
    BY <2>1, <2>6, <2>8, <2>10
<1> QED
  BY <1>1, <1>2

LEMMA TransportCallsLegal ==
  ASSUME NEW p \in Packet
  PROVE  LET s == TransportCalls(p)
         IN  /\ Legal(p, s) /\ Fresh(s) /\ Stages(s) \subseteq 7..12
             /\ 7 \in Stages(s) <=> IsTransport(p)
             /\ 10 \in Stages(s) <=> IsCleartext(p) \/ IsLegacy(p)
<1>0. IsTransport(p) =>
        Legal(p, <<FlowCall>>) /\ Fresh(<<FlowCall>>) /\ Stages(<<FlowCall>>) = {7}
  <2> SUFFICES ASSUME IsTransport(p)
               PROVE  /\ Legal(p, <<FlowCall>>) /\ Fresh(<<FlowCall>>)
                      /\ Stages(<<FlowCall>>) = {7}
    OBVIOUS
  <2>1. FlowCall \in CallsOf(p) /\ Stage(FlowCall) = 7
    BY StageOfCall DEF CallsOf
  <2> QED
    BY <2>1, SingleIsLegal DEF First, Second
<1>1. CASE p.layer = "TCP"
  <2> DEFINE f == <<FlowCall>>
             c == CleartextCalls(p)
  <2>1. TransportCalls(p) = f \o c /\ IsTransport(p) /\ ~IsLegacy(p)
    BY <1>1 DEF TransportCalls, IsTransport, IsLegacy
  <2>2. Legal(p, c) /\ Fresh(c) /\ Stages(c) = IF IsCleartext(p) THEN {10, 11, 12} ELSE {}
    BY <1>1, CleartextCallsLegal
  <2>3. Legal(p, f) /\ Fresh(f) /\ Stages(f) = {7}
    BY <1>0, <2>1
  <2> HIDE DEF c, f
  <2>4. Before(f, c)
    BY <2>2, <2>3 DEF Before
  <2>5. Legal(p, f \o c) /\ Fresh(f \o c)
    BY <2>2, <2>3, <2>4, ConcatIsLegal
  <2>6. Stages(f \o c) = {7} \cup Stages(c)
    BY <2>2, <2>3, <2>4, StagesOfConcat
  <2> QED
    BY <2>1, <2>2, <2>5, <2>6
<1>2. CASE p.layer = "UDP"
  <2> DEFINE c == <<FlowCall>>
             d == DNSCalls(p)
             e == LegacyCalls(p)
             f == c \o d
  <2>1. TransportCalls(p) = f \o e /\ IsTransport(p) /\ ~IsCleartext(p)
    BY <1>2 DEF TransportCalls, IsTransport, IsCleartext
  <2>2. Legal(p, d) /\ Fresh(d) /\ Stages(d) \subseteq {8, 9}
    BY DNSCallsLegal
  <2>3. Legal(p, e) /\ Fresh(e) /\ Stages(e) = IF IsLegacy(p) THEN {10, 11, 12} ELSE {}
    BY <1>2, LegacyCallsLegal
  <2>0. Legal(p, c) /\ Fresh(c) /\ Stages(c) = {7}
    BY <1>0, <2>1
  <2> HIDE DEF c, d, e
  <2>4. Before(c, d)
    BY <2>0, <2>2 DEF Before
  <2>5. Legal(p, f) /\ Fresh(f) /\ Stages(f) = {7} \cup Stages(d)
    <3>1. Legal(p, c \o d) /\ Fresh(c \o d) /\ Stages(c \o d) = Stages(c) \cup Stages(d)
      BY <2>0, <2>2, <2>4, ConcatIsLegal, ZenonT(30)
    <3> QED
      BY <2>0, <3>1
  <2> HIDE DEF f
  <2>6. Before(f, e)
    BY <2>2, <2>3, <2>5 DEF Before
  <2>7. Legal(p, f \o e) /\ Fresh(f \o e)
    BY <2>3, <2>5, <2>6, ConcatIsLegal
  <2>8. Stages(f \o e) = Stages(f) \cup Stages(e)
    BY <2>3, <2>5, <2>6, ConcatIsLegal
  <2> QED
    BY <2>1, <2>2, <2>3, <2>5, <2>7, <2>8
<1>3. CASE p.layer \notin {"TCP", "UDP"}
  <2>1. /\ TransportCalls(p) = <<>>
        /\ ~IsTransport(p) /\ ~IsCleartext(p) /\ ~IsLegacy(p)
    BY <1>3 DEF TransportCalls, IsTransport, IsCleartext, IsLegacy
  <2> QED
    BY <2>1, EmptyIsLegal DEF Fresh
<1> QED
  BY <1>1, <1>2, <1>3

(* What follows RecordHostPacket.                                          *)
RestOf(p, isNew) ==
  Announcement(p, isNew) \o TTLCalls(p) \o <<Call("DetectIdentityMismatch", "host")>>
    \o TransportCalls(p)

LEMMA RestIsLegal ==
  ASSUME NEW p \in Packet, NEW isNew \in BOOLEAN
  PROVE  LET s == RestOf(p, isNew)
         IN  /\ Legal(p, s) /\ Fresh(s) /\ Stages(s) \subseteq {1, 2, 3, 4} \cup 7..12
             /\ s # <<>>
             /\ 1 \in Stages(s) <=> isNew
             /\ 3 \in Stages(s) => 2 \in Stages(s)
             /\ 7 \in Stages(s) <=> IsTransport(p)
             /\ 10 \in Stages(s) <=> IsCleartext(p) \/ IsLegacy(p)
<1> DEFINE a == Announcement(p, isNew)
           b == TTLCalls(p)
           c == <<IdentityCall>>
           d == TransportCalls(p)
           ab == a \o b
           abc == ab \o c
           abcd == abc \o d
<1>1. RestOf(p, isNew) = abcd
  BY DEF RestOf, IdentityCall
<1>2. Legal(p, a) /\ Fresh(a) /\ Stages(a) = IF isNew THEN {1} ELSE {}
  BY AnnouncementIsLegal
<1>3. Legal(p, b) /\ Fresh(b) /\ Stages(b) \in {{}, {2, 3}}
  BY TTLCallsLegal
<1>4. Legal(p, c) /\ Fresh(c) /\ Stages(c) = {4}
  <2>1. IdentityCall \in CallsOf(p) /\ Stage(IdentityCall) = 4
    BY StageOfCall DEF CallsOf
  <2> QED
    BY <2>1, SingleIsLegal DEF First, Second
<1>5. /\ Legal(p, d) /\ Fresh(d) /\ Stages(d) \subseteq 7..12
      /\ 7 \in Stages(d) <=> IsTransport(p)
      /\ 10 \in Stages(d) <=> IsCleartext(p) \/ IsLegacy(p)
  BY TransportCallsLegal
<1> HIDE DEF a, b, c, d
<1>6. Legal(p, ab) /\ Fresh(ab) /\ Stages(ab) = Stages(a) \cup Stages(b)
  <2>1. Before(a, b)
    BY <1>2, <1>3 DEF Before
  <2> QED
    BY <1>2, <1>3, <2>1, ConcatIsLegal
<1> HIDE DEF ab
<1>7. Legal(p, abc) /\ Fresh(abc) /\ Stages(abc) = Stages(ab) \cup Stages(c)
  <2>1. Before(ab, c)
    BY <1>2, <1>3, <1>4, <1>6 DEF Before
  <2> QED
    BY <1>4, <1>6, <2>1, ConcatIsLegal
<1> HIDE DEF abc
<1>8. Legal(p, abcd) /\ Fresh(abcd) /\ Stages(abcd) = Stages(abc) \cup Stages(d)
  <2>1. Before(abc, d)
    BY <1>2, <1>3, <1>4, <1>5, <1>6, <1>7 DEF Before
  <2>2. Legal(p, abc) /\ Fresh(abc) /\ Legal(p, d) /\ Fresh(d)
    BY <1>5, <1>7
  <2> HIDE DEF abcd
  <2>3. abcd = abc \o d
    BY DEF abcd
  <2>4. Legal(p, abc \o d) /\ Fresh(abc \o d)
    BY ONLY <2>1, <2>2, ConcatIsLegal
  <2>5. Stages(abc \o d) = Stages(abc) \cup Stages(d)
    BY ONLY <2>1, <2>2, StagesOfConcat
  <2> QED
    BY ONLY <2>3, <2>4, <2>5
<1> HIDE DEF abcd
<1>9. /\ Stages(abcd) = Stages(a) \cup Stages(b) \cup {4} \cup Stages(d)
      /\ abcd # <<>>
  <2>1. 4 \in Stages(abcd)
    BY <1>4, <1>7, <1>8
  <2>2. abcd # <<>>
    BY <2>1, EmptyIsLegal
  <2> QED
    BY <1>4, <1>6, <1>7, <1>8, <2>2
<1> QED
  BY <1>1, <1>2, <1>3, <1>5, <1>8, <1>9

-----------------------------------------------------------------------------
(* What the operation of a call says of it.                                *)
LEMMA EventsCalled ==
  ASSUME NEW p, NEW c \in CallsOf(p), c.op = "AddEvent"
  PROVE  \E category \in CategoriesOf(p) :
           /\ c.arg = Event(p.src, category, SeverityOf(category))
           /\ Stage(c) = EventStage(category)
<1>1. PICK category \in CategoriesOf(p) : c = EventOf(p, category)
  BY DEF CallsOf, HostCall, IdentityCall, FlowCall, IndicatorCall, AnomalyCall, Call
<1>2. Stage(c) = EventStage(category)
  BY <1>1, StageOfCall DEF EventOf
<1>3. c.arg = Event(p.src, category, SeverityOf(category))
  BY <1>1 DEF EventOf, EventCall, Call
<1> QED
  BY <1>2, <1>3

LEMMA IndicatorsCalled ==
  ASSUME NEW p, NEW c \in CallsOf(p), c.op = "AddAnomaly"
  PROVE  \E kind \in KindsOf(p), n \in TTL :
           /\ c.arg.anomaly = <<kind, n>>
           /\ c.arg.isAlert = (kind \in MismatchKinds \cup CleartextKinds)
           /\ Stage(c) = IndicatorStage(kind)
<1>1. PICK kind \in KindsOf(p), n \in TTL : c = IndicatorCall(kind, n)
  BY DEF CallsOf, HostCall, IdentityCall, FlowCall, EventOf, EventCall, Call
<1>2. Stage(c) = IndicatorStage(kind)
  BY <1>1, StageOfCall DEF IndicatorCall
<1>3. /\ c.arg.anomaly = <<kind, n>>
      /\ c.arg.isAlert = (kind \in MismatchKinds \cup CleartextKinds)
  BY <1>1 DEF IndicatorCall, AnomalyCall, Call
<1> QED
  BY <1>2, <1>3

LEMMA OthersCalled ==
  ASSUME NEW p, NEW c \in CallsOf(p)
  PROVE  /\ c.op = "RecordHostPacket" => Stage(c) = 0
         /\ c.op = "DetectIdentityMismatch" => Stage(c) = 4
         /\ c.op = "RecordPacket" => Stage(c) = 7
         /\ c.op = "IncrementProtocol" => Stage(c) \in {8, 12}
BY DEF Stage

LEMMA FlowCalled ==
  ASSUME NEW p, NEW c \in CallsOf(p), c.op = "RecordPacket"
  PROVE  IsTransport(p)
BY DEF CallsOf, HostCall, IdentityCall, EventOf, EventCall, IndicatorCall, AnomalyCall, Call

(* The events at a stage, and the ranks of the indicators at a stage.      *)
LEMMA EventAtStage ==
  ASSUME NEW p, NEW category \in CategoriesOf(p)
  PROVE  /\ EventStage(category) \in {1, 3, 6, 9, 10}
         /\ category = "NEW_HOST" <=> EventStage(category) = 1
         /\ category = "TTL_HOP_INDICATOR" <=> EventStage(category) = 3
         /\ category = "HARDWARE_OS_DISCREPANCY" <=> EventStage(category) = 6
         /\ category = "CLEARTEXT_TRAFFIC" => IsCleartext(p) /\ ~IsLegacy(p)
         /\ category = "LEGACY_NAME_RES" => IsLegacy(p) /\ ~IsCleartext(p)
         /\ category \in {"CLEARTEXT_TRAFFIC", "LEGACY_NAME_RES"} <=>
              EventStage(category) = 10
         /\ SeverityOf(category) \in Severity /\ category \in Category
BY DEF CategoriesOf, Category, EventStage, SeverityOf, Severity, IsCleartext, IsLegacy

LEMMA IndicatorAtStage ==
  ASSUME NEW p, NEW kind \in KindsOf(p), NEW n \in TTL
  PROVE  /\ IndicatorStage(kind) \in {2, 5, 11}
         /\ IndicatorStage(kind) = 11 => IsCleartext(p) \/ IsLegacy(p)
         /\ RankOf(<<kind, n>>) \in {1, 2}
         /\ IndicatorStage(kind) = 2 => RankOf(<<kind, n>>) = 1
         /\ IndicatorStage(kind) = 5 => RankOf(<<kind, n>>) = 2
         /\ IndicatorStage(kind) = 11 /\ IsCleartext(p) => RankOf(<<kind, n>>) = 2
         /\ IndicatorStage(kind) = 11 /\ IsLegacy(p) => RankOf(<<kind, n>>) = 1
         /\ kind \in MismatchKinds \cup CleartextKinds <=> RankOf(<<kind, n>>) = 2
         /\ <<kind, n>> \in Indicator
<1>1. ~(IsCleartext(p) /\ IsLegacy(p))
  BY DEF IsCleartext, IsLegacy
<1>2. /\ kind \in TTLKinds \cup MismatchKinds \cup CleartextKinds \cup LegacyKinds
      /\ kind \in CleartextKinds => IsCleartext(p)
      /\ kind \in LegacyKinds => IsLegacy(p)
  BY DEF KindsOf, TTLKinds, MismatchKinds, CleartextKinds, LegacyKinds
<1>3. RankOf(<<kind, n>>) = IF kind \in TTLKinds \cup LegacyKinds THEN 1 ELSE 2
  BY DEF RankOf, TTLKinds, LegacyKinds
<1>4. /\ kind \in TTLKinds => IndicatorStage(kind) = 2
      /\ kind \in MismatchKinds => IndicatorStage(kind) = 5
      /\ kind \in CleartextKinds \cup LegacyKinds => IndicatorStage(kind) = 11
  BY StageOfKind
<1>5. <<kind, n>> \in Indicator
  BY <1>2 DEF Indicator
<1>6. /\ kind \in TTLKinds => kind \notin MismatchKinds \cup CleartextKinds \cup LegacyKinds
      /\ kind \in LegacyKinds => kind \notin MismatchKinds \cup CleartextKinds
  BY DEF TTLKinds, MismatchKinds, CleartextKinds, LegacyKinds
<1> HIDE DEF IsCleartext, IsLegacy
<1> QED
  BY <1>1, <1>2, <1>3, <1>4, <1>5, <1>6

-----------------------------------------------------------------------------
(* What a worker that makes a call changes of its own state: the calls it  *)
(* has still to make become s.                                             *)
Goes(w, s) ==
  /\ todo' = [todo EXCEPT ![w] = s]
  /\ packet' = IF s = <<>> THEN [packet EXCEPT ![w] = NoPacket] ELSE packet
  /\ taken' = taken

LEMMA MadeGoes ==
  ASSUME WorkersOK, NEW w \in Worker, NEW calls, Made(w, calls)
  PROVE  Goes(w, calls \o Tail(todo[w]))
BY DEF Made, Goes, WorkersOK

LEMMA GoesOn ==
  ASSUME WorkersOK, NEW w \in Worker, NEW s, Goes(w, s)
  PROVE  /\ todo'[w] = s /\ Left(w)' = Stages(s) /\ DOMAIN todo' = Worker
         /\ s # <<>> => packet'[w] = packet[w]
         /\ packet' \in [Worker -> Packet \cup {NoPacket}]
         /\ \A v \in Worker \ {w} :
              todo'[v] = todo[v] /\ packet'[v] = packet[v] /\ Left(v)' = Left(v)
<1>1. /\ todo'[w] = s /\ DOMAIN todo' = Worker
      /\ \A v \in Worker \ {w} : todo'[v] = todo[v]
  BY DEF Goes, WorkersOK
<1>2. Left(w)' = Stages(s) /\ \A v \in Worker \ {w} : Left(v)' = Left(v)
  BY <1>1 DEF Left, Stages
<1>3. /\ s # <<>> => packet'[w] = packet[w]
      /\ packet' \in [Worker -> Packet \cup {NoPacket}]
      /\ \A v \in Worker \ {w} : packet'[v] = packet[v]
  BY DEF Goes, WorkersOK
<1> QED
  BY <1>1, <1>2, <1>3

LEMMA WorkersPreserved ==
  ASSUME WorkersOK, NEW w \in Worker, NEW s, Goes(w, s), todo[w] # <<>>,
         Legal(packet[w], s), 0 \notin Stages(s),
         DOMAIN hosts \subseteq DOMAIN hosts', packet[w].src \in DOMAIN hosts',
         4 \in Stages(s) => 5 \notin Stages(s) /\ 6 \notin Stages(s),
         mu' = mu \/ mu' = NoPacket, mu' # w
  PROVE  WorkersOK'
<1>1. /\ todo'[w] = s /\ Left(w)' = Stages(s) /\ DOMAIN todo' = Worker
      /\ s # <<>> => packet'[w] = packet[w]
      /\ packet' \in [Worker -> Packet \cup {NoPacket}]
      /\ \A v \in Worker \ {w} :
           todo'[v] = todo[v] /\ packet'[v] = packet[v] /\ Left(v)' = Left(v)
  BY GoesOn
<1>2. packet[w] \in Packet
  BY DEF WorkersOK
<1>3. mu' \in Worker \cup {NoPacket} /\ taken' \in Seq(Packet)
  BY DEF WorkersOK, Goes
<1>4. /\ todo'[w] # <<>> => packet'[w] \in Packet /\ Legal(packet'[w], todo'[w])
      /\ 0 \notin Left(w)'
      /\ todo'[w] # <<>> => packet'[w].src \in DOMAIN hosts'
      /\ 4 \in Left(w)' => 5 \notin Left(w)' /\ 6 \notin Left(w)'
  BY <1>1, <1>2
<1>5. ASSUME NEW v \in Worker, v # w
      PROVE  /\ todo'[v] # <<>> => packet'[v] \in Packet /\ Legal(packet'[v], todo'[v])
             /\ 0 \in Left(v)' => todo'[v] = <<HostCall>>
             /\ todo'[v] # <<>> /\ 0 \notin Left(v)' => packet'[v].src \in DOMAIN hosts'
             /\ 4 \in Left(v)' => 5 \notin Left(v)' /\ 6 \notin Left(v)'
             /\ mu' = v => todo'[v] = <<HostCall>>
  <2>1. todo'[v] = todo[v] /\ packet'[v] = packet[v] /\ Left(v)' = Left(v)
    BY <1>1, <1>5
  <2>2. mu' = v => mu = v
    BY PacketAuditAssumption
  <2>3. /\ todo[v] # <<>> => packet[v] \in Packet /\ Legal(packet[v], todo[v])
        /\ 0 \in Left(v) => todo[v] = <<HostCall>>
        /\ todo[v] # <<>> /\ 0 \notin Left(v) => packet[v].src \in DOMAIN hosts
        /\ 4 \in Left(v) => 5 \notin Left(v) /\ 6 \notin Left(v)
        /\ mu = v => todo[v] = <<HostCall>>
    BY DEF WorkersOK
  <2> QED
    BY <2>1, <2>2, <2>3
<1> QED
  BY <1>1, <1>3, <1>4, <1>5 DEF WorkersOK

-----------------------------------------------------------------------------
(* Sets that differ in one element.                                        *)
One(b) == IF b THEN 1 ELSE 0

LEMMA OneElement ==
  ASSUME NEW A, IsFiniteSet(A), NEW B, NEW x, A \ {x} = B \ {x}
  PROVE  /\ IsFiniteSet(B) /\ Cardinality(A) \in Nat /\ Cardinality(B) \in Nat
         /\ Cardinality(B) + One(x \in A) = Cardinality(A) + One(x \in B)
<1> DEFINE C == A \ {x}
<1>1. IsFiniteSet(C) /\ Cardinality(C) \in Nat /\ x \notin C
  BY FS_RemoveElement, FS_CardinalityType
<1>2. ASSUME NEW D, D \ {x} = C
      PROVE  IsFiniteSet(D) /\ Cardinality(D) = Cardinality(C) + One(x \in D)
  <2>1. CASE x \in D
    <3>1. D = C \cup {x}
      BY <1>2, <2>1
    <3> HIDE DEF C
    <3> QED
      BY <1>1, <2>1, <3>1, FS_AddElement DEF One
  <2>2. CASE x \notin D
    <3>1. D = C
      BY <1>2, <2>2
    <3> HIDE DEF C
    <3> QED
      BY <1>1, <2>2, <3>1 DEF One
  <2> QED
    BY <2>1, <2>2
<1>3. Cardinality(A) = Cardinality(C) + One(x \in A)
  BY <1>2
<1>4. IsFiniteSet(B) /\ Cardinality(B) = Cardinality(C) + One(x \in B)
  BY <1>2
<1>5. One(x \in A) \in Nat /\ One(x \in B) \in Nat
  BY DEF One
<1> HIDE DEF C
<1> QED
  BY <1>1, <1>3, <1>4, <1>5

LEMMA OwingIsFinite ==
  ASSUME NEW CONSTANT S, NEW CONSTANT n
  PROVE  IsFiniteSet(Owing(S, n)) /\ Cardinality(Owing(S, n)) \in Nat
<1>1. Owing(S, n) \subseteq Worker
  BY DEF Owing
<1> QED
  BY <1>1, PacketAuditAssumption, FS_Subset, FS_CardinalityType

LEMMA ReceivedIsFinite ==
  ASSUME WorkersOK, NEW CONSTANT S
  PROVE  IsFiniteSet(ReceivedIn(S)) /\ Cardinality(ReceivedIn(S)) \in Nat
<1>1. DOMAIN taken = 1..Len(taken) /\ Len(taken) \in Nat
  BY DEF WorkersOK
<1>2. ReceivedIn(S) \subseteq 1..Len(taken)
  BY <1>1 DEF ReceivedIn
<1>3. IsFiniteSet(1..Len(taken))
  BY <1>1, FS_Interval
<1> QED
  BY <1>2, <1>3, FS_Subset, FS_CardinalityType

(* The balance when a worker makes a call: the worker owes the call of the *)
(* stage before or after.                                                  *)
LEMMA BalanceGoes ==
  ASSUME WorkersOK, NEW w \in Worker, NEW s, Goes(w, s), todo[w] # <<>>,
         NEW CONSTANT S \in SUBSET Packet, NEW CONSTANT n,
         NEW count \in Int, NEW count2 \in Int, Balance(count, S, n),
         count2 + One(packet[w] \in S /\ Stages(s) \cap {0, n} # {})
           = count + One(packet[w] \in S /\ Left(w) \cap {0, n} # {})
  PROVE  count2 + Cardinality(Owing(S, n)') = Cardinality(ReceivedIn(S)')
<1> DEFINE A == Owing(S, n)
           B == Owing(S, n)'
<1>1. /\ todo'[w] = s /\ Left(w)' = Stages(s)
      /\ s # <<>> => packet'[w] = packet[w]
      /\ packet'[w] \in Packet \cup {NoPacket}
      /\ \A v \in Worker \ {w} : packet'[v] = packet[v] /\ Left(v)' = Left(v)
  BY GoesOn
<1>2. A \ {w} = B \ {w}
  BY <1>1 DEF Owing
<1>3. w \in A <=> packet[w] \in S /\ Left(w) \cap {0, n} # {}
  BY DEF Owing
<1>4. w \in B <=> packet[w] \in S /\ Stages(s) \cap {0, n} # {}
  <2>1. CASE s = <<>>
    BY <1>1, <2>1, EmptyIsLegal DEF Owing
  <2>2. CASE s # <<>>
    BY <1>1, <2>2 DEF Owing
  <2> QED
    BY <2>1, <2>2
<1>5. ReceivedIn(S)' = ReceivedIn(S)
  BY DEF ReceivedIn, Goes
<1>6. IsFiniteSet(A)
  BY OwingIsFinite
<1> HIDE DEF A, B
<1>7. /\ Cardinality(A) \in Nat /\ Cardinality(B) \in Nat
      /\ Cardinality(B) + One(w \in A) = Cardinality(A) + One(w \in B)
  BY <1>2, <1>6, OneElement
<1>8. count + Cardinality(A) = Cardinality(ReceivedIn(S))
  BY DEF Balance, A
<1>9. count2 + One(w \in B) = count + One(w \in A)
  BY <1>3, <1>4 DEF One
<1>10. One(w \in A) \in Nat /\ One(w \in B) \in Nat
  BY DEF One
<1>11. count2 + Cardinality(B) = count + Cardinality(A)
  BY ONLY <1>7, <1>9, <1>10, count \in Int, count2 \in Int
<1> QED
  BY <1>5, <1>8, <1>11 DEF B

-----------------------------------------------------------------------------
(* The calls that a worker makes, one by one.                              *)
LEMMA NextCall ==
  ASSUME WorkersOK, NEW w \in Worker, todo[w] # <<>>,
         Head(todo[w]).op # "RecordHostPacket"
  PROVE  LET c == Head(todo[w])
             s == Tail(todo[w])
         IN  /\ packet[w] \in Packet /\ Legal(packet[w], s) /\ c \in CallsOf(packet[w])
             /\ Left(w) = {Stage(c)} \cup Stages(s) /\ 0 \notin Left(w)
             /\ packet[w].src \in DOMAIN hosts /\ mu # w
             /\ \A n \in Stages(s) : Stage(c) < n \/ (Stage(c) = 9 /\ n = 9)
             /\ Stage(c) \in First => s # <<>> /\ Stage(Head(s)) = Stage(c) + 1
             /\ s # <<>> /\ Stage(Head(s)) \in Second => Stage(c) = Stage(Head(s)) - 1
<1>1. packet[w] \in Packet /\ Legal(packet[w], todo[w])
  BY DEF WorkersOK
<1>2. todo[w] # <<HostCall>>
  <2>1. Head(<<HostCall>>) = HostCall /\ HostCall.op = "RecordHostPacket"
    BY DEF HostCall, Call
  <2> QED
    BY <2>1
<1>3. 0 \notin Left(w) /\ packet[w].src \in DOMAIN hosts /\ mu # w
  BY <1>2 DEF WorkersOK
<1> QED
  BY <1>1, <1>3, TailIsLegal DEF Left

LEMMA OneCallMade ==
  ASSUME WorkersOK, NEW w \in Worker, todo[w] # <<>>,
         Head(todo[w]).op # "RecordHostPacket", Made(w, <<>>),
         mu' = mu, DOMAIN hosts' = DOMAIN hosts
  PROVE  Goes(w, Tail(todo[w])) /\ WorkersOK'
<1>1. /\ packet[w] \in Packet /\ Legal(packet[w], Tail(todo[w]))
      /\ Left(w) = {Stage(Head(todo[w]))} \cup Stages(Tail(todo[w])) /\ 0 \notin Left(w)
      /\ packet[w].src \in DOMAIN hosts /\ mu # w
  BY NextCall
<1>2. Goes(w, Tail(todo[w]))
  <2>1. Tail(todo[w]) \in Seq(CallsOf(packet[w]))
    BY <1>1 DEF Legal
  <2>2. <<>> \o Tail(todo[w]) = Tail(todo[w])
    BY <2>1, ConcatEmptySeq
  <2> QED
    BY <2>2, MadeGoes
<1>3. 4 \in Left(w) => 5 \notin Left(w) /\ 6 \notin Left(w)
  BY DEF WorkersOK
<1> QED
  BY <1>1, <1>2, <1>3, WorkersPreserved

(* The identity check adds its finding in front of the calls that remain.  *)
LEMMA IdentityGoes ==
  ASSUME WorkersOK, NEW w \in Worker, CheckIdentity(w)
  PROVE  \E s : \E found \in {{}, {5, 6}} :
           /\ Goes(w, s) /\ Legal(packet[w], s) /\ Fresh(s)
           /\ Stages(s) = found \cup Stages(Tail(todo[w]))
           /\ Stage(Head(todo[w])) = 4 /\ Stages(Tail(todo[w])) \subseteq 7..12
           /\ WorkersOK'
<1> DEFINE c == Head(todo[w])
           t == Tail(todo[w])
           m == MismatchCalls(packet[w], hosts[packet[w].src])
<1>1. todo[w] # <<>> /\ c.op = "DetectIdentityMismatch" /\ Goes(w, m \o t)
  BY MadeGoes DEF CheckIdentity, NextCallIs
<1>2. /\ packet[w] \in Packet /\ Legal(packet[w], t) /\ c \in CallsOf(packet[w])
      /\ Left(w) = {Stage(c)} \cup Stages(t) /\ 0 \notin Left(w)
      /\ packet[w].src \in DOMAIN hosts /\ mu # w
      /\ \A n \in Stages(t) : Stage(c) < n \/ (Stage(c) = 9 /\ n = 9)
      /\ t # <<>> /\ Stage(Head(t)) \in Second => Stage(c) = Stage(Head(t)) - 1
  BY <1>1, NextCall
<1>3. Stage(c) = 4
  BY <1>1, <1>2, OthersCalled
<1>4. Legal(packet[w], m) /\ Fresh(m) /\ Stages(m) \in {{}, {5, 6}}
  BY MismatchCallsLegal
<1> HIDE DEF c, m, t
<1>5. Fresh(t)
  BY <1>2, <1>3 DEF Fresh, Second
<1>6. Stages(t) \subseteq 7..12
  <2>1. ASSUME NEW n \in Stages(t) PROVE n \in 0..12
    <3>1. PICK i \in 1..Len(t) : n = Stage(t[i])
      BY <2>1 DEF Stages
    <3>2. t[i] \in CallsOf(packet[w])
      BY <1>2, <3>1 DEF Legal
    <3> QED
      BY <3>1, <3>2, StageIsNatural
  <2>2. 5 \notin Stages(t) /\ 6 \notin Stages(t)
    BY <1>2, <1>3 DEF WorkersOK
  <2>3. \A n \in Stages(t) : 4 < n
    BY <1>2, <1>3
  <2> QED
    BY <2>1, <2>2, <2>3
<1>7. Before(m, t)
  BY <1>4, <1>6 DEF Before
<1>8. Legal(packet[w], m \o t) /\ Fresh(m \o t)
  BY <1>2, <1>4, <1>5, <1>7, ConcatIsLegal
<1>9. Stages(m \o t) = Stages(m) \cup Stages(t)
  BY ONLY <1>2, <1>4, <1>5, <1>7, StagesOfConcat
<1>10. 4 \notin Stages(m \o t) /\ 0 \notin Stages(m \o t)
  BY <1>4, <1>6, <1>9
<1>11. hosts' = hosts /\ mu' = mu
  BY DEF CheckIdentity, nsvars
<1>12. WorkersOK'
  BY <1>1, <1>2, <1>8, <1>10, <1>11, WorkersPreserved
<1> QED
  BY <1>1, <1>3, <1>4, <1>6, <1>8, <1>9, <1>12 DEF c, t

(* RecordHostPacket leaves the worker before all that follows it.          *)
LEMMA HostGoes ==
  ASSUME WorkersOK, DOMAIN hosts \subseteq Address, NEW w \in Worker, UpdateHost(w)
  PROVE  LET p == packet[w]
             s == RestOf(p, p.src \notin DOMAIN hosts)
         IN  /\ p \in Packet /\ todo[w] = <<HostCall>> /\ Left(w) = {0} /\ Goes(w, s)
             /\ DOMAIN hosts' = DOMAIN hosts \cup {p.src} /\ WorkersOK'
<1> DEFINE p == packet[w]
           isNew == p.src \notin DOMAIN hosts
           s == RestOf(p, isNew)
<1>1. mu = w /\ mu' = NoPacket /\ DOMAIN hosts' = DOMAIN hosts \cup {p.src}
  BY DEF UpdateHost, RecordHostPacket
<1>2. todo[w] = <<HostCall>> /\ p \in Packet
  <2>1. todo[w] = <<HostCall>>
    BY <1>1 DEF WorkersOK
  <2>2. todo[w] # <<>>
    BY <2>1
  <2> QED
    BY <2>1, <2>2 DEF WorkersOK
<1>3. Left(w) = {0}
  BY <1>2, StageOfCall DEF Left, Stages
<1>4. Made(w, s)
  BY DEF UpdateHost, RestOf
<1>5. Legal(p, s) /\ Stages(s) \subseteq {1, 2, 3, 4} \cup 7..12
  <2>1. isNew \in BOOLEAN
    OBVIOUS
  <2> HIDE DEF isNew
  <2> QED
    BY <1>2, <2>1, RestIsLegal
<1> HIDE DEF s
<1>6. Goes(w, s)
  <2>1. Tail(todo[w]) = <<>>
    BY <1>2
  <2>2. s \in Seq(CallsOf(p))
    BY <1>5 DEF Legal
  <2>3. s \o Tail(todo[w]) = s
    BY <2>1, <2>2, ConcatEmptySeq
  <2> QED
    BY <1>4, <2>3, MadeGoes
<1>7. todo[w] # <<>>
  BY <1>2
<1>8. mu' # w
  BY <1>1, PacketAuditAssumption
<1>9. WorkersOK'
  BY <1>1, <1>5, <1>6, <1>7, <1>8, WorkersPreserved
<1> QED
  BY <1>1, <1>2, <1>3, <1>6, <1>9 DEF s

-----------------------------------------------------------------------------
(* What the steps make of a host.                                          *)
Fitting(h) ==
  LET print == FingerprintOS(h.ttl)
  IN  /\ <<h.os, h.initialTTL, h.hops>> = <<print.os, print.initialTTL, print.hops>>
      /\ h.vendor = LookupVendor(h.mac)

LEMMA NewHostFits ==
  ASSUME NEW mac \in MAC, NEW ttl \in TTL
  PROVE  LET h == NewHost(mac, ttl)
         IN  /\ h \in Host /\ Fitting(h)
             /\ h.status = "SAFE" /\ h.anomalies = <<>> /\ h.packets = 1
BY DEF NewHost, Host, Fitting, Status, Vendors, Systems, Baselines, Distances

LEMMA SeenAgainFits ==
  ASSUME NEW host \in Host, Fitting(host), NEW mac \in MAC, NEW ttl \in TTL
  PROVE  LET h == SeenAgain(host, mac, ttl)
         IN  /\ h \in Host /\ Fitting(h)
             /\ h.status = host.status /\ h.anomalies = host.anomalies
             /\ h.packets = host.packets + 1
<1> DEFINE h == SeenAgain(host, mac, ttl)
           print == FingerprintOS(ttl)
           old == FingerprintOS(host.ttl)
<1>1. /\ h.mac = IF LearnsMAC(host, mac) THEN mac ELSE host.mac
      /\ h.vendor = IF LearnsMAC(host, mac) THEN LookupVendor(mac) ELSE host.vendor
      /\ h.ttl = IF ChangesTTL(host, ttl) THEN ttl ELSE host.ttl
      /\ h.os = IF ChangesTTL(host, ttl) THEN print.os ELSE host.os
      /\ h.initialTTL = IF ChangesTTL(host, ttl) THEN print.initialTTL
                                                 ELSE host.initialTTL
      /\ h.hops = IF ChangesTTL(host, ttl) THEN print.hops ELSE host.hops
      /\ h.status = host.status /\ h.anomalies = host.anomalies
      /\ h.packets = host.packets + 1
  BY DEF SeenAgain, Host
<1>3. /\ host.os = old.os /\ host.initialTTL = old.initialTTL /\ host.hops = old.hops
      /\ host.vendor = LookupVendor(host.mac)
      /\ host.mac \in MAC /\ host.ttl \in TTL /\ host.status \in Status
      /\ host.anomalies \in Seq(Indicator) /\ host.packets \in Nat
  BY DEF Fitting, Host
<1>2. ASSUME NEW m \in MAC, NEW v \in Vendors, NEW t \in TTL, NEW o \in Systems,
             NEW i \in Baselines, NEW n \in Distances
      PROVE  [host EXCEPT !.packets = @ + 1, !.mac = m, !.vendor = v, !.ttl = t,
                          !.os = o, !.initialTTL = i, !.hops = n] \in Host
  <2> DEFINE k == host.packets + 1
             a == [host EXCEPT !.packets = k, !.mac = m, !.vendor = v]
  <2>0. k \in Nat
    BY DEF Host
  <2> HIDE DEF k
  <2>1. a \in Host
    BY <2>0 DEF Host
  <2> HIDE DEF a
  <2>2. [a EXCEPT !.ttl = t, !.os = o, !.initialTTL = i, !.hops = n] \in Host
    BY <2>1 DEF Host
  <2> QED
    BY <2>2 DEF a, k
<1>4. /\ \A x \in MAC : LookupVendor(x) \in Vendors
      /\ \A x \in TTL : FingerprintOS(x).os \in Systems
      /\ \A x \in TTL : FingerprintOS(x).initialTTL \in Baselines
      /\ \A x \in TTL : FingerprintOS(x).hops \in Distances
  BY DEF Vendors, Systems, Baselines, Distances
<1>5. h = [host EXCEPT !.packets = @ + 1, !.mac = h.mac, !.vendor = h.vendor, !.ttl = h.ttl,
                       !.os = h.os, !.initialTTL = h.initialTTL, !.hops = h.hops]
  <2>1. CASE ChangesTTL(host, ttl)
    BY <1>1, <2>1 DEF SeenAgain
  <2>2. CASE ~ChangesTTL(host, ttl)
    BY <1>1, <2>2 DEF SeenAgain
  <2> QED
    BY <2>1, <2>2
<1> HIDE DEF h
<1>6. /\ h.mac \in MAC /\ h.vendor = LookupVendor(h.mac)
      /\ h.ttl \in TTL
  BY <1>1, <1>3
<1>7. /\ h.os = FingerprintOS(h.ttl).os
      /\ h.initialTTL = FingerprintOS(h.ttl).initialTTL
      /\ h.hops = FingerprintOS(h.ttl).hops
  BY <1>1, <1>3
<1>8. h \in Host
  <2>1. h.vendor \in Vendors /\ h.os \in Systems
    BY <1>4, <1>6, <1>7
  <2>2. h.initialTTL \in Baselines /\ h.hops \in Distances
    BY <1>4, <1>6, <1>7
  <2>3. [host EXCEPT !.packets = @ + 1, !.mac = h.mac, !.vendor = h.vendor,
                     !.ttl = h.ttl, !.os = h.os, !.initialTTL = h.initialTTL,
                     !.hops = h.hops] \in Host
    BY <1>2, <1>6, <2>1, <2>2
  <2> QED
    BY <1>5, <2>3
<1>9. Fitting(h)
  BY <1>6, <1>7 DEF Fitting
<1> QED
  BY <1>1, <1>8, <1>9 DEF h

(* A finding raises the status to its severity, and never lowers it.       *)
LEMMA ElevatedRank ==
  ASSUME NEW status \in Status, NEW severity \in Severity
  PROVE  /\ Elevated(status, severity) \in Status
         /\ Rank(Elevated(status, severity)) =
              IF Rank(severity) > Rank(status) THEN Rank(severity) ELSE Rank(status)
         /\ Rank(status) \in 0..2 /\ Rank(severity) \in 0..2
BY DEF Elevated, Status, Severity, Rank

LEMMA RaisedFits ==
  ASSUME NEW host \in Host, NEW severity \in Severity
  PROVE  LET h == [host EXCEPT !.status = Elevated(@, severity)]
         IN  /\ h \in Host
             /\ Fitting(host) => Fitting(h)
             /\ h.status = Elevated(host.status, severity)
             /\ h.anomalies = host.anomalies /\ h.packets = host.packets
<1>1. Elevated(host.status, severity) \in Status
  BY ElevatedRank DEF Host
<1> QED
  BY <1>1 DEF Host, Fitting

(* An indicator is listed at the end, once.                                *)
LEMMA WithAnomalyFits ==
  ASSUME NEW host \in Host, NEW anomaly \in Indicator, NEW severity \in Severity
  PROVE  LET h == WithAnomaly(host, anomaly, severity)
         IN  /\ h \in Host
             /\ Fitting(host) => Fitting(h)
             /\ h.packets = host.packets
             /\ IsInjective(host.anomalies) => IsInjective(h.anomalies)
             /\ ToSet(h.anomalies) = ToSet(host.anomalies) \cup {anomaly}
             /\ h.status = IF anomaly \in ToSet(host.anomalies) THEN host.status
                           ELSE Elevated(host.status, severity)
<1> DEFINE h == WithAnomaly(host, anomaly, severity)
<1>1. CASE anomaly \in ToSet(host.anomalies)
  <2>1. h = host
    BY <1>1 DEF WithAnomaly
  <2>2. ToSet(host.anomalies) = ToSet(host.anomalies) \cup {anomaly}
    BY <1>1
  <2> QED
    BY <1>1, <2>1, <2>2
<1>2. CASE anomaly \notin ToSet(host.anomalies)
  <2> DEFINE s == host.anomalies
             t == Append(s, anomaly)
  <2>1. h = [host EXCEPT !.anomalies = Append(@, anomaly),
                         !.status = Elevated(@, severity)]
    BY <1>2 DEF WithAnomaly
  <2>2. s \in Seq(Indicator) /\ Elevated(host.status, severity) \in Status
    BY ElevatedRank DEF Host
  <2>3. /\ t \in Seq(Indicator) /\ Len(t) = Len(s) + 1 /\ Len(s) \in Nat
        /\ DOMAIN s = 1..Len(s) /\ DOMAIN t = 1..Len(s) + 1
        /\ t[Len(s) + 1] = anomaly /\ \A i \in 1..Len(s) : t[i] = s[i]
    BY <2>2
  <2>4. /\ h \in Host
        /\ Fitting(host) => Fitting(h)
        /\ h.packets = host.packets /\ h.anomalies = t
        /\ h.status = Elevated(host.status, severity)
    BY <2>1, <2>2, <2>3 DEF Host, Fitting
  <2> HIDE DEF s, t, h
  <2>5. \A i \in DOMAIN t : i \in DOMAIN s \/ i = Len(s) + 1
    BY <2>3
  <2>6. ToSet(t) = ToSet(s) \cup {anomaly}
    <3>1. \A x \in ToSet(t) : x \in ToSet(s) \cup {anomaly}
      BY <2>3, <2>5 DEF ToSet
    <3>2. \A x \in ToSet(s) : x \in ToSet(t)
      BY <2>3 DEF ToSet
    <3>3. anomaly \in ToSet(t)
      BY <2>3 DEF ToSet
    <3> QED
      BY <3>1, <3>2, <3>3
  <2>7. IsInjective(s) => IsInjective(t)
    <3>1. \A i \in DOMAIN s : s[i] # anomaly
      BY <1>2 DEF ToSet, s
    <3> QED
      BY <2>3, <2>5, <3>1 DEF IsInjective
  <2> QED
    BY <1>2, <2>4, <2>6, <2>7 DEF s, h
<1> QED
  BY <1>1, <1>2

-----------------------------------------------------------------------------
(* What the steps make of the state that s.mu protects.                    *)
HostsOK == StateOK /\ RingComplete /\ FingerprintIsCurrent /\ IndicatorsOnce

LEMMA HostIsKnown ==
  ASSUME HostsOK, NEW a \in DOMAIN hosts
  PROVE  /\ a \in Address /\ hosts[a] \in Host /\ Fitting(hosts[a])
         /\ IsInjective(hosts[a].anomalies) /\ ipPacketCounts[a] \in Nat
         /\ hosts[a].status \in Status
<1>1. hosts[a] \in Host /\ a \in Address /\ ipPacketCounts[a] \in Nat
  BY DEF HostsOK, StateOK
<1>2. Fitting(hosts[a]) /\ IsInjective(hosts[a].anomalies)
  BY DEF HostsOK, FingerprintIsCurrent, IndicatorsOnce, Fitting
<1> QED
  BY <1>1, <1>2 DEF Host

(* The hosts stay in order when each of them does.                         *)
LEMMA HostsPreserved ==
  ASSUME HostsOK,
         DOMAIN hosts' \subseteq Address, IsFiniteSet(DOMAIN hosts'),
         hosts' = [a \in DOMAIN hosts' |-> hosts'[a]],
         \A a \in DOMAIN hosts' : /\ hosts'[a] \in Host /\ Fitting(hosts'[a])
                                 /\ IsInjective(hosts'[a].anomalies),
         ipPacketCounts' \in [DOMAIN hosts' -> Nat],
         counts' \in Counters,
         \/ events' = events /\ eventIDSeq' = eventIDSeq
         \/ \E event \in [source : Address, category : Category, severity : Severity] :
              AddEvent(event)
  PROVE  HostsOK'
<1> DEFINE Entry == [id : Nat, event : [source : Address, category : Category,
                                        severity : Severity]]
<1>1. hosts' \in [DOMAIN hosts' -> Host]
  OBVIOUS
<1>2. events \in Seq(Entry) /\ eventIDSeq \in Nat /\ Len(events) \in Nat
  BY DEF HostsOK, StateOK
<1>3. eventIDSeq <= maxEvents => Len(events) = eventIDSeq
  BY DEF HostsOK, RingComplete
<1>4. maxEvents \in Int
  BY NetworkStateAssumption DEF maxEvents
<1> DEFINE RingGrows ==
             /\ events' \in Seq(Entry) /\ eventIDSeq' \in Nat
             /\ eventIDSeq' <= maxEvents => Len(events') = eventIDSeq'
<1>5. RingGrows
  <2>1. CASE events' = events /\ eventIDSeq' = eventIDSeq
    BY <1>2, <1>3, <2>1
  <2>2. ASSUME NEW event \in [source : Address, category : Category, severity : Severity],
               AddEvent(event)
        PROVE  RingGrows
    <3> DEFINE e == [id |-> eventIDSeq + 1, event |-> event]
    <3>1. eventIDSeq' = eventIDSeq + 1 /\ events' = Pushed(e)
      BY <2>2 DEF AddEvent
    <3>2. e \in Entry
      BY <1>2
    <3> HIDE DEF e, Entry
    <3>3. /\ Append(events, e) \in Seq(Entry) /\ Len(Append(events, e)) = Len(events) + 1
      BY <1>2, <3>2
    <3>4. Len(events) >= maxEvents => events' \in Seq(Entry)
      <4>1. maxEvents > 0
        BY NetworkStateAssumption DEF maxEvents
      <4>2. Len(events) >= maxEvents => Tail(events) \in Seq(Entry)
        BY <1>2, <1>4, <4>1
      <4> QED
        BY <3>1, <3>2, <4>2 DEF Pushed
    <3>5. ~(Len(events) >= maxEvents) => events' = Append(events, e)
      BY <3>1 DEF Pushed
    <3>6. eventIDSeq' <= maxEvents => ~(Len(events) >= maxEvents)
      BY <1>2, <1>3, <1>4, <3>1
    <3>7. events' \in Seq(Entry) /\ eventIDSeq' \in Nat
      <4>1. ~(Len(events) >= maxEvents) => events' \in Seq(Entry)
        BY <3>3, <3>5
      <4>2. eventIDSeq' \in Nat
        BY <1>2, <3>1
      <4> QED
        BY <3>4, <4>1, <4>2
    <3>8. ASSUME eventIDSeq' <= maxEvents
          PROVE  Len(events') = eventIDSeq'
      <4>1. events' = Append(events, e)
        BY <3>5, <3>6, <3>8
      <4>2. eventIDSeq <= maxEvents
        BY <1>2, <1>4, <3>1, <3>8
      <4> QED
        BY <1>3, <3>1, <3>3, <4>1, <4>2
    <3> QED
      BY <3>7, <3>8
  <2> QED
    BY <2>1, <2>2
<1>6. StateOK'
  BY <1>1, <1>5 DEF StateOK
<1>7. FingerprintIsCurrent' /\ IndicatorsOnce'
  BY DEF FingerprintIsCurrent, IndicatorsOnce, Fitting
<1> QED
  BY <1>5, <1>6, <1>7 DEF HostsOK, RingComplete

(* A host after an action is what it was, with no less bad a status.       *)
Kept(a) ==
  /\ a \in DOMAIN hosts' /\ hosts'[a].anomalies = hosts[a].anomalies
  /\ hosts'[a].status = hosts[a].status

LEMMA HostRecorded ==
  ASSUME HostsOK, WorkersOK, NEW w \in Worker, UpdateHost(w)
  PROVE  LET a == packet[w].src
         IN  /\ HostsOK' /\ \A b \in DOMAIN hosts : Kept(b)
             /\ DOMAIN hosts' = DOMAIN hosts \cup {a}
             /\ a \notin DOMAIN hosts =>
                  hosts'[a].status = "SAFE" /\ hosts'[a].anomalies = <<>>
             /\ \A b \in DOMAIN hosts' :
                  hosts'[b].packets = (IF b \in DOMAIN hosts THEN hosts[b].packets ELSE 0)
                                        + One(b = a)
             /\ \A b \in DOMAIN hosts' :
                  ipPacketCounts'[b] = (IF b \in DOMAIN hosts THEN ipPacketCounts[b] ELSE 0)
                                        + One(b = a)
             /\ counts' = [counts EXCEPT !.total = @ + 1]
             /\ events' = events /\ eventIDSeq' = eventIDSeq
<1> DEFINE p == packet[w]
           a == p.src
<1>1. /\ counts' = [counts EXCEPT !.total = @ + 1]
      /\ ipPacketCounts' = Incremented(ipPacketCounts, a)
      /\ hosts' = [b \in DOMAIN hosts \cup {a} |->
                     IF b # a THEN hosts[b]
                     ELSE IF a \in DOMAIN hosts THEN SeenAgain(hosts[a], p.mac, p.ttl)
                     ELSE NewHost(p.mac, p.ttl)]
      /\ events' = events /\ eventIDSeq' = eventIDSeq
  BY DEF UpdateHost, RecordHostPacket
<1>2. p \in Packet /\ a \in Address /\ p.mac \in MAC /\ p.ttl \in TTL
  <2>1. DOMAIN hosts \subseteq Address
    BY DEF HostsOK, StateOK
  <2>2. p \in Packet
    BY <2>1, HostGoes
  <2> QED
    BY <2>2, PacketFields
<1> HIDE DEF a, p
<1>3. /\ DOMAIN hosts' = DOMAIN hosts \cup {a}
      /\ \A b \in DOMAIN hosts : b # a => hosts'[b] = hosts[b]
      /\ a \in DOMAIN hosts => hosts'[a] = SeenAgain(hosts[a], p.mac, p.ttl)
      /\ a \notin DOMAIN hosts => hosts'[a] = NewHost(p.mac, p.ttl)
  BY <1>1
<1>4. a \in DOMAIN hosts =>
        /\ hosts'[a] \in Host /\ Fitting(hosts'[a])
        /\ hosts'[a].status = hosts[a].status /\ hosts'[a].anomalies = hosts[a].anomalies
        /\ hosts'[a].packets = hosts[a].packets + 1
  BY <1>2, <1>3, HostIsKnown, SeenAgainFits
<1>5. a \notin DOMAIN hosts =>
        /\ hosts'[a] \in Host /\ Fitting(hosts'[a])
        /\ hosts'[a].status = "SAFE" /\ hosts'[a].anomalies = <<>>
        /\ hosts'[a].packets = 1
  BY <1>2, <1>3, NewHostFits
<1>6. ASSUME NEW b \in DOMAIN hosts'
      PROVE  /\ hosts'[b] \in Host /\ Fitting(hosts'[b])
             /\ IsInjective(hosts'[b].anomalies)
             /\ hosts'[b].packets = (IF b \in DOMAIN hosts THEN hosts[b].packets ELSE 0)
                                      + One(b = a)
             /\ b \in DOMAIN hosts => Kept(b)
  <2>1. CASE b # a
    <3>1. b \in DOMAIN hosts /\ hosts'[b] = hosts[b]
      BY <1>3, <2>1
    <3>2. hosts[b].packets + 0 = hosts[b].packets
      BY <3>1, HostIsKnown DEF Host
    <3>3. hosts'[b] \in Host /\ Fitting(hosts'[b]) /\ IsInjective(hosts'[b].anomalies)
      BY <3>1, HostIsKnown
    <3> QED
      BY <2>1, <3>1, <3>2, <3>3 DEF One, Kept
  <2>2. CASE b = a /\ a \in DOMAIN hosts
    <3>1. IsInjective(hosts'[a].anomalies)
      BY <1>4, <2>2, HostIsKnown
    <3> QED
      BY <1>4, <2>2, <3>1 DEF One, Kept
  <2>3. CASE b = a /\ a \notin DOMAIN hosts
    <3>1. IsInjective(hosts'[a].anomalies)
      BY <1>5, <2>3 DEF IsInjective
    <3> QED
      BY <1>5, <2>3, <3>1 DEF One
  <2> QED
    BY <2>1, <2>2, <2>3
<1>7. /\ DOMAIN ipPacketCounts = DOMAIN hosts /\ IsFiniteSet(DOMAIN hosts)
      /\ DOMAIN hosts \subseteq Address
      /\ \A b \in DOMAIN hosts : ipPacketCounts[b] \in Nat
  BY DEF HostsOK, StateOK
<1>8. /\ ipPacketCounts' = [b \in DOMAIN hosts' |->
           (IF b \in DOMAIN hosts THEN ipPacketCounts[b] ELSE 0) + One(b = a)]
  BY <1>1, <1>3, <1>7 DEF Incremented, One
<1>9. ipPacketCounts' \in [DOMAIN hosts' -> Nat]
  <2>1. \A b \in DOMAIN hosts' :
          (IF b \in DOMAIN hosts THEN ipPacketCounts[b] ELSE 0) + One(b = a) \in Nat
    BY <1>7 DEF One
  <2> QED
    BY <1>8, <2>1
<1>10. DOMAIN hosts' \subseteq Address /\ IsFiniteSet(DOMAIN hosts')
  BY <1>2, <1>3, <1>7, FS_AddElement
<1>11. counts' \in Counters
  <2>1. counts \in Counters
    BY DEF HostsOK, StateOK
  <2>2. counts.total + 1 \in Nat
    BY <2>1 DEF Counters
  <2> QED
    BY <1>1, <2>1, <2>2 DEF Counters
<1>12. hosts' = [b \in DOMAIN hosts' |-> hosts'[b]]
  BY <1>1
<1>13. HostsOK'
  BY <1>1, <1>6, <1>9, <1>10, <1>11, <1>12, HostsPreserved
<1> QED
  <2>1. \A b \in DOMAIN hosts : Kept(b)
    BY <1>3, <1>6
  <2> QED
    BY <1>1, <1>3, <1>5, <1>6, <1>8, <1>13, <2>1 DEF a, p

(* What the other calls make of the hosts.                                 *)
LEMMA HostsRaised ==
  ASSUME HostsOK,
         DOMAIN hosts' = DOMAIN hosts, ipPacketCounts' = ipPacketCounts,
         hosts' = [b \in DOMAIN hosts |-> hosts'[b]],
         \A b \in DOMAIN hosts :
           \/ hosts'[b] = hosts[b]
           \/ \E severity \in Severity :
                \/ hosts'[b] = [hosts[b] EXCEPT !.status = Elevated(@, severity)]
                \/ \E anomaly \in Indicator :
                     hosts'[b] = WithAnomaly(hosts[b], anomaly, severity),
         counts' \in Counters,
         \/ events' = events /\ eventIDSeq' = eventIDSeq
         \/ \E event \in [source : Address, category : Category, severity : Severity] :
              AddEvent(event)
  PROVE  /\ HostsOK'
         /\ \A b \in DOMAIN hosts : /\ hosts'[b].packets = hosts[b].packets
                                    /\ Rank(hosts'[b].status) >= Rank(hosts[b].status)
<1> DEFINE Raised(b) ==
             /\ hosts'[b] \in Host /\ Fitting(hosts'[b])
             /\ IsInjective(hosts'[b].anomalies)
             /\ hosts'[b].packets = hosts[b].packets
             /\ Rank(hosts'[b].status) >= Rank(hosts[b].status)
<1>1. ASSUME NEW b \in DOMAIN hosts
      PROVE  Raised(b)
  <2>1. /\ hosts[b] \in Host /\ Fitting(hosts[b]) /\ IsInjective(hosts[b].anomalies)
        /\ hosts[b].status \in Status
    BY HostIsKnown
  <2>2. Rank(hosts[b].status) \in 0..2
    BY <2>1 DEF Rank
  <2>3. CASE hosts'[b] = hosts[b]
    BY <2>1, <2>2, <2>3
  <2>4. ASSUME NEW severity \in Severity,
               hosts'[b] = [hosts[b] EXCEPT !.status = Elevated(@, severity)]
        PROVE  Raised(b)
    <3>1. /\ hosts'[b] \in Host /\ Fitting(hosts'[b])
          /\ hosts'[b].anomalies = hosts[b].anomalies
          /\ hosts'[b].packets = hosts[b].packets
          /\ hosts'[b].status = Elevated(hosts[b].status, severity)
      BY <2>1, <2>4, RaisedFits
    <3>2. Rank(hosts'[b].status) >= Rank(hosts[b].status)
      BY <2>1, <3>1, ElevatedRank
    <3> QED
      BY <2>1, <3>1, <3>2
  <2>5. ASSUME NEW severity \in Severity, NEW anomaly \in Indicator,
               hosts'[b] = WithAnomaly(hosts[b], anomaly, severity)
        PROVE  Raised(b)
    <3>1. /\ hosts'[b] \in Host /\ Fitting(hosts'[b])
          /\ IsInjective(hosts'[b].anomalies)
          /\ hosts'[b].packets = hosts[b].packets
          /\ hosts'[b].status = IF anomaly \in ToSet(hosts[b].anomalies)
                                  THEN hosts[b].status
                                  ELSE Elevated(hosts[b].status, severity)
      BY <2>1, <2>5, WithAnomalyFits
    <3>2. Rank(hosts'[b].status) >= Rank(hosts[b].status)
      BY <2>1, <2>2, <3>1, ElevatedRank
    <3> QED
      BY <3>1, <3>2
  <2> QED
    BY <2>3, <2>4, <2>5
<1>2. /\ DOMAIN hosts \subseteq Address /\ IsFiniteSet(DOMAIN hosts)
      /\ ipPacketCounts' \in [DOMAIN hosts -> Nat]
  BY DEF HostsOK, StateOK
<1>3. HostsOK'
  BY <1>1, <1>2, HostsPreserved
<1> QED
  BY <1>1, <1>3

(* The effect of an event on what is counted.                              *)
EventEffect(w, category) ==
  LET a == packet[w].src
      e == Event(a, category, SeverityOf(category))
  IN  /\ DOMAIN hosts' = DOMAIN hosts /\ ipPacketCounts' = ipPacketCounts
      /\ \A b \in DOMAIN hosts :
           /\ hosts'[b].anomalies = hosts[b].anomalies
           /\ hosts'[b].packets = hosts[b].packets
           /\ hosts'[b].status = IF b = a
                THEN Elevated(hosts[b].status, SeverityOf(category)) ELSE hosts[b].status
      /\ counts'.total = counts.total
      /\ counts'.unencrypted = counts.unencrypted + One(category = "CLEARTEXT_TRAFFIC")
      /\ counts'.legacy = counts.legacy + One(category = "LEGACY_NAME_RES")
      /\ counts'.anomalies = counts.anomalies
           + One(category \in {"TTL_HOP_INDICATOR", "HARDWARE_OS_DISCREPANCY"})
      /\ eventIDSeq' <= maxEvents =>
           eventIDSeq <= maxEvents
             /\ events' = Append(events, [id |-> eventIDSeq + 1, event |-> e])
      /\ flows' = flows /\ mu' = mu

LEMMA CountedEvent ==
  ASSUME counts \in Counters, NEW event
  PROVE  LET c == Counted(event)
         IN  /\ c \in Counters /\ c.total = counts.total
             /\ c.unencrypted = counts.unencrypted + One(event.category = "CLEARTEXT_TRAFFIC")
             /\ c.legacy = counts.legacy + One(event.category = "LEGACY_NAME_RES")
             /\ c.anomalies = counts.anomalies
                  + One(event.category \in {"TTL_HOP_INDICATOR", "HARDWARE_OS_DISCREPANCY"})
<1> DEFINE alert == counts.alert + One(event.severity = "ALERT")
           suspicious == counts.suspicious + One(event.severity = "SUSPICIOUS")
           unencrypted == counts.unencrypted + One(event.category = "CLEARTEXT_TRAFFIC")
           dns == counts.dns + One(event.category = "DNS_QUERY")
           legacy == counts.legacy + One(event.category = "LEGACY_NAME_RES")
           anomalies == counts.anomalies
             + One(event.category \in {"TTL_HOP_INDICATOR", "HARDWARE_OS_DISCREPANCY"})
<1>1. Counted(event) =
        [counts EXCEPT !.alert = alert, !.suspicious = suspicious,
                       !.unencrypted = unencrypted, !.dns = dns, !.legacy = legacy,
                       !.anomalies = anomalies]
  BY DEF Counted, One
<1>2. /\ counts.alert \in Nat /\ counts.suspicious \in Nat /\ counts.unencrypted \in Nat
      /\ counts.dns \in Nat /\ counts.legacy \in Nat /\ counts.anomalies \in Nat
  BY DEF Counters
<1>3. /\ alert \in {counts.alert, counts.alert + 1}
      /\ suspicious \in {counts.suspicious, counts.suspicious + 1}
      /\ unencrypted \in {counts.unencrypted, counts.unencrypted + 1}
      /\ dns \in {counts.dns, counts.dns + 1}
      /\ legacy \in {counts.legacy, counts.legacy + 1}
      /\ anomalies \in {counts.anomalies, counts.anomalies + 1}
  BY <1>2 DEF One
<1> HIDE DEF alert, suspicious, unencrypted, dns, legacy, anomalies
<1>4. /\ alert \in Nat /\ suspicious \in Nat /\ unencrypted \in Nat
      /\ dns \in Nat /\ legacy \in Nat /\ anomalies \in Nat
  BY <1>2, <1>3
<1>5. Counted(event) \in Counters
  <2> DEFINE c == [counts EXCEPT !.alert = alert, !.suspicious = suspicious,
                                 !.unencrypted = unencrypted]
  <2>1. c \in Counters
    BY <1>4 DEF Counters
  <2> HIDE DEF c
  <2>2. [c EXCEPT !.dns = dns, !.legacy = legacy, !.anomalies = anomalies] \in Counters
    BY <1>4, <2>1 DEF Counters
  <2> QED
    BY <1>1, <2>2 DEF c
<1>6. LET c == Counted(event)
      IN  /\ c.total = counts.total /\ c.unencrypted = unencrypted
          /\ c.legacy = legacy /\ c.anomalies = anomalies
  BY <1>1 DEF Counters
<1> QED
  BY <1>5, <1>6 DEF unencrypted, legacy, anomalies

LEMMA EventReported ==
  ASSUME HostsOK, WorkersOK, NEW w \in Worker, ReportEvent(w)
  PROVE  /\ todo[w] # <<>> /\ Head(todo[w]).op # "RecordHostPacket"
         /\ Goes(w, Tail(todo[w])) /\ HostsOK' /\ WorkersOK'
         /\ \A b \in DOMAIN hosts : Rank(hosts'[b].status) >= Rank(hosts[b].status)
         /\ \E category \in CategoriesOf(packet[w]) :
              Stage(Head(todo[w])) = EventStage(category) /\ EventEffect(w, category)
<1> DEFINE p == packet[w]
           c == Head(todo[w])
<1>1. todo[w] # <<>> /\ c.op = "AddEvent" /\ c.op # "RecordHostPacket"
  BY DEF ReportEvent, NextCallIs
<1>2. p \in Packet /\ c \in CallsOf(p) /\ p.src \in DOMAIN hosts
  BY <1>1, NextCall
<1>3. PICK category \in CategoriesOf(p) :
        /\ c.arg = Event(p.src, category, SeverityOf(category))
        /\ Stage(c) = EventStage(category)
  BY <1>1, <1>2, EventsCalled
<1> DEFINE severity == SeverityOf(category)
           event == Event(p.src, category, severity)
<1>4. category \in Category /\ severity \in Severity
  BY EventAtStage
<1>5. AddEvent(event) /\ flows' = flows /\ mu' = mu /\ Made(w, <<>>)
  BY <1>3 DEF ReportEvent
<1> HIDE DEF c, severity
<1>6. /\ event.source = p.src /\ event.category = category /\ event.severity = severity
      /\ event \in [source : Address, category : Category, severity : Severity]
  <2>1. p.src \in Address
    BY <1>2, PacketFields
  <2> QED
    BY <1>4, <2>1 DEF Event
<1> HIDE DEF event
<1>7. /\ eventIDSeq' = eventIDSeq + 1
      /\ events' = Pushed([id |-> eventIDSeq + 1, event |-> event])
      /\ counts' = Counted(event) /\ ipPacketCounts' = ipPacketCounts
      /\ hosts' = [a \in DOMAIN hosts |->
                     IF a = p.src
                       THEN [hosts[a] EXCEPT !.status = Elevated(@, severity)]
                       ELSE hosts[a]]
  BY <1>5, <1>6 DEF AddEvent
<1>8. /\ DOMAIN hosts' = DOMAIN hosts /\ hosts' = [b \in DOMAIN hosts |-> hosts'[b]]
      /\ \A b \in DOMAIN hosts :
           hosts'[b] = IF b = p.src
                         THEN [hosts[b] EXCEPT !.status = Elevated(@, severity)]
                         ELSE hosts[b]
  BY <1>7
<1>9. /\ counts' \in Counters /\ counts'.total = counts.total
      /\ counts'.unencrypted = counts.unencrypted + One(category = "CLEARTEXT_TRAFFIC")
      /\ counts'.legacy = counts.legacy + One(category = "LEGACY_NAME_RES")
      /\ counts'.anomalies = counts.anomalies
           + One(category \in {"TTL_HOP_INDICATOR", "HARDWARE_OS_DISCREPANCY"})
  <2>1. counts \in Counters
    BY DEF HostsOK, StateOK
  <2> QED
    BY <1>6, <1>7, <2>1, CountedEvent
<1>10. /\ HostsOK'
       /\ \A b \in DOMAIN hosts : /\ hosts'[b].packets = hosts[b].packets
                                  /\ Rank(hosts'[b].status) >= Rank(hosts[b].status)
  BY <1>4, <1>5, <1>6, <1>7, <1>8, <1>9, HostsRaised
<1>11. \A b \in DOMAIN hosts :
         /\ hosts'[b].anomalies = hosts[b].anomalies
         /\ hosts'[b].packets = hosts[b].packets
         /\ hosts'[b].status = IF b = p.src THEN Elevated(hosts[b].status, severity)
                                            ELSE hosts[b].status
  <2>1. ASSUME NEW b \in DOMAIN hosts, b = p.src
        PROVE  /\ hosts'[b].anomalies = hosts[b].anomalies
               /\ hosts'[b].status = Elevated(hosts[b].status, severity)
    <3>1. hosts[b] \in Host
      BY HostIsKnown
    <3>2. hosts'[b] = [hosts[b] EXCEPT !.status = Elevated(@, severity)]
      BY <1>8, <2>1
    <3> QED
      BY <1>4, <3>1, <3>2, RaisedFits
  <2> QED
    BY <1>8, <1>10, <2>1
<1>12. ASSUME eventIDSeq' <= maxEvents
       PROVE  /\ eventIDSeq <= maxEvents
              /\ events' = Append(events, [id |-> eventIDSeq + 1, event |-> event])
  <2>1. eventIDSeq \in Nat /\ maxEvents \in Int
    BY NetworkStateAssumption DEF HostsOK, StateOK, maxEvents
  <2>2. eventIDSeq <= maxEvents /\ ~(eventIDSeq >= maxEvents)
    BY <1>7, <1>12, <2>1
  <2>3. Len(events) = eventIDSeq
    BY <2>2 DEF HostsOK, RingComplete
  <2> QED
    BY <1>7, <2>2, <2>3 DEF Pushed
<1>13. EventEffect(w, category)
  BY <1>5, <1>7, <1>8, <1>9, <1>11, <1>12 DEF EventEffect, event, severity
<1>14. Goes(w, Tail(todo[w])) /\ WorkersOK'
  BY <1>1, <1>5, <1>8, OneCallMade DEF c
<1> QED
  BY <1>1, <1>3, <1>10, <1>13, <1>14 DEF c

(* The effect of an indicator.                                             *)
IndicatorEffect(w, kind, n) ==
  LET a == packet[w].src
      x == <<kind, n>>
      severity == IF RankOf(x) = 2 THEN "ALERT" ELSE "SUSPICIOUS"
  IN  /\ DOMAIN hosts' = DOMAIN hosts /\ ipPacketCounts' = ipPacketCounts
      /\ \A b \in DOMAIN hosts :
           /\ hosts'[b].packets = hosts[b].packets
           /\ b # a => hosts'[b] = hosts[b]
           /\ b = a => /\ ToSet(hosts'[b].anomalies) = ToSet(hosts[b].anomalies) \cup {x}
                       /\ hosts'[b].status = IF x \in ToSet(hosts[b].anomalies)
                            THEN hosts[b].status ELSE Elevated(hosts[b].status, severity)
      /\ counts' = [counts EXCEPT !.anomalies = @ + 1]
      /\ UNCHANGED <<events, eventIDSeq, flows, mu>>

LEMMA IndicatorReported ==
  ASSUME HostsOK, WorkersOK, NEW w \in Worker, ReportAnomaly(w)
  PROVE  /\ todo[w] # <<>> /\ Head(todo[w]).op # "RecordHostPacket"
         /\ Goes(w, Tail(todo[w])) /\ HostsOK' /\ WorkersOK'
         /\ \A b \in DOMAIN hosts : Rank(hosts'[b].status) >= Rank(hosts[b].status)
         /\ \E kind \in KindsOf(packet[w]), n \in TTL :
              Stage(Head(todo[w])) = IndicatorStage(kind) /\ IndicatorEffect(w, kind, n)
<1> DEFINE p == packet[w]
           c == Head(todo[w])
<1>1. todo[w] # <<>> /\ c.op = "AddAnomaly" /\ c.op # "RecordHostPacket"
  BY DEF ReportAnomaly, NextCallIs
<1>2. p \in Packet /\ c \in CallsOf(p) /\ p.src \in DOMAIN hosts
  BY <1>1, NextCall
<1>3. PICK kind \in KindsOf(p), n \in TTL :
        /\ c.arg.anomaly = <<kind, n>>
        /\ c.arg.isAlert = (kind \in MismatchKinds \cup CleartextKinds)
        /\ Stage(c) = IndicatorStage(kind)
  BY <1>1, <1>2, IndicatorsCalled
<1> DEFINE x == <<kind, n>>
           severity == IF RankOf(x) = 2 THEN "ALERT" ELSE "SUSPICIOUS"
<1>4. /\ x \in Indicator
      /\ (IF c.arg.isAlert THEN "ALERT" ELSE "SUSPICIOUS") = severity
  BY <1>3, IndicatorAtStage
<1>5. /\ AddAnomaly(p.src, x, c.arg.isAlert) /\ flows' = flows /\ mu' = mu
      /\ Made(w, <<>>)
  BY <1>3 DEF ReportAnomaly
<1> HIDE DEF c, x
<1>6. severity \in Severity
  BY DEF Severity
<1>7. /\ counts' = [counts EXCEPT !.anomalies = @ + 1] /\ ipPacketCounts' = ipPacketCounts
      /\ events' = events /\ eventIDSeq' = eventIDSeq
      /\ hosts' = [a \in DOMAIN hosts |->
                     IF a = p.src THEN WithAnomaly(hosts[a], x, severity) ELSE hosts[a]]
  BY <1>4, <1>5 DEF AddAnomaly
<1>8. /\ DOMAIN hosts' = DOMAIN hosts /\ hosts' = [b \in DOMAIN hosts |-> hosts'[b]]
      /\ \A b \in DOMAIN hosts :
           hosts'[b] = IF b = p.src THEN WithAnomaly(hosts[b], x, severity) ELSE hosts[b]
  BY <1>7
<1> HIDE DEF severity
<1>9. counts' \in Counters
  <2>1. counts \in Counters
    BY DEF HostsOK, StateOK
  <2>2. counts.anomalies + 1 \in Nat
    BY <2>1 DEF Counters
  <2> QED
    BY <1>7, <2>1, <2>2 DEF Counters
<1>10. /\ HostsOK'
       /\ \A b \in DOMAIN hosts : /\ hosts'[b].packets = hosts[b].packets
                                  /\ Rank(hosts'[b].status) >= Rank(hosts[b].status)
  BY <1>4, <1>6, <1>7, <1>8, <1>9, HostsRaised
<1>11. ASSUME NEW b \in DOMAIN hosts, b = p.src
       PROVE  /\ ToSet(hosts'[b].anomalies) = ToSet(hosts[b].anomalies) \cup {x}
              /\ hosts'[b].status = IF x \in ToSet(hosts[b].anomalies)
                   THEN hosts[b].status ELSE Elevated(hosts[b].status, severity)
  <2>1. hosts[b] \in Host /\ hosts'[b] = WithAnomaly(hosts[b], x, severity)
    BY <1>8, <1>11, HostIsKnown
  <2> QED
    BY <1>4, <1>6, <2>1, WithAnomalyFits
<1>12. IndicatorEffect(w, kind, n)
  BY <1>5, <1>7, <1>8, <1>10, <1>11 DEF IndicatorEffect, x, severity
<1>13. Goes(w, Tail(todo[w])) /\ WorkersOK'
  BY <1>1, <1>5, <1>8, OneCallMade DEF c
<1> QED
  BY <1>1, <1>3, <1>10, <1>12, <1>13 DEF c

-----------------------------------------------------------------------------
(* The reasons of a status.                                                *)
LEMMA WillListGoes ==
  ASSUME WorkersOK, NEW w \in Worker, NEW s, Goes(w, s)
  PROVE  /\ \A v \in Worker \ {w}, r \in {1, 2} : WillList(v, r)' = WillList(v, r)
         /\ \A r \in {1, 2} :
              WillList(w, r)' <=>
                \/ r = 1 /\ (2 \in Stages(s) \/ (11 \in Stages(s) /\ IsLegacy(packet[w])))
                \/ r = 2 /\ (5 \in Stages(s) \/ (11 \in Stages(s) /\ IsCleartext(packet[w])))
<1>1. /\ Left(w)' = Stages(s)
      /\ \A v \in Worker \ {w} : packet'[v] = packet[v] /\ Left(v)' = Left(v)
  BY GoesOn
<1>2. s = <<>> => Stages(s) = {}
  BY EmptyIsLegal
<1>3. s # <<>> => packet'[w] = packet[w]
  BY GoesOn
<1>4. ASSUME NEW v \in Worker \ {w}, NEW r \in {1, 2}
      PROVE  WillList(v, r)' = WillList(v, r)
  BY <1>1 DEF WillList
<1>5. ASSUME NEW r \in {1, 2}
      PROVE  WillList(w, r)' <=>
               \/ r = 1 /\ (2 \in Stages(s) \/ (11 \in Stages(s) /\ IsLegacy(packet[w])))
               \/ r = 2 /\ (5 \in Stages(s) \/ (11 \in Stages(s) /\ IsCleartext(packet[w])))
  <2>1. CASE s = <<>>
    BY <1>1, <1>2, <2>1 DEF WillList
  <2>2. CASE s # <<>>
    BY <1>1, <1>3, <2>2 DEF WillList
  <2> QED
    BY <2>1, <2>2
<1> QED
  BY <1>4, <1>5

LEMMA ReasonedGoes ==
  ASSUME WorkersOK, NEW w \in Worker, NEW s, Goes(w, s),
         NEW CONSTANT a, Kept(a), Reasoned(a),
         Left(w) \cap {2, 5, 11} \subseteq Stages(s),
         3 \in Stages(s) => 3 \in Left(w) \/ 2 \in Stages(s),
         6 \in Stages(s) => 6 \in Left(w) \/ 5 \in Stages(s)
  PROVE  Reasoned(a)'
<1>1. \A r : Listed(a, r)' <=> Listed(a, r)
  BY DEF Listed, Kept
<1>2. Left(w)' = Stages(s) /\ (s # <<>> => packet'[w] = packet[w])
  BY GoesOn
<1>3. \A v \in Worker \ {w} : packet'[v] = packet[v] /\ Left(v)' = Left(v)
  BY GoesOn
<1>4. Stages(s) # {} => packet'[w] = packet[w]
  BY <1>2, EmptyIsLegal
<1>5. \A x \in ToSet(hosts'[a].anomalies) : Rank(hosts'[a].status) >= RankOf(x)
  BY DEF Reasoned, Kept
<1>6. ASSUME NEW r \in {1, 2}, NEW v \in Worker, packet[v].src = a, WillList(v, r)
      PROVE  packet'[v].src = a /\ WillList(v, r)'
  <2>1. CASE v # w
    BY <1>3, <1>6, <2>1, WillListGoes
  <2>2. CASE v = w
    <3>1. Left(w) \cap {2, 5, 11} # {}
      BY <1>6, <2>2 DEF WillList
    <3>2. packet'[w] = packet[w]
      BY <1>4, <3>1
    <3>3. WillList(w, r)'
      BY <1>2, <1>6, <2>2, <3>2 DEF WillList
    <3> QED
      BY <1>6, <2>2, <3>2, <3>3
  <2> QED
    BY <2>1, <2>2
<1>7. ASSUME NEW r \in {1, 2}, Rank(hosts'[a].status) = r
      PROVE  Listed(a, r)' \/ \E v \in Worker : packet'[v].src = a /\ WillList(v, r)'
  <2>1. Rank(hosts[a].status) = r
    BY <1>7 DEF Kept
  <2>2. Listed(a, r) \/ \E v \in Worker : packet[v].src = a /\ WillList(v, r)
    BY <2>1 DEF Reasoned
  <2> QED
    BY <1>1, <1>6, <2>2
<1>8. ASSUME NEW v \in Worker, packet'[v].src = a
      PROVE  /\ 3 \in Left(v)' => 2 \in Left(v)' \/ Listed(a, 1)'
             /\ 6 \in Left(v)' => 5 \in Left(v)' \/ Listed(a, 2)'
  <2>1. CASE v # w
    BY <1>1, <1>3, <1>8, <2>1 DEF Reasoned
  <2>2. CASE v = w
    <3>1. CASE Stages(s) = {}
      BY <1>2, <2>2, <3>1
    <3>2. CASE Stages(s) # {}
      <4>1. packet[w].src = a
        BY <1>4, <1>8, <2>2, <3>2
      <4>2. /\ 3 \in Left(w) => 2 \in Left(w) \/ Listed(a, 1)
            /\ 6 \in Left(w) => 5 \in Left(w) \/ Listed(a, 2)
        BY <4>1 DEF Reasoned
      <4> QED
        BY <1>1, <1>2, <2>2, <4>2
    <3> QED
      BY <3>1, <3>2
  <2> QED
    BY <2>1, <2>2
<1> QED
  BY <1>5, <1>7, <1>8 DEF Reasoned

(* Actions that change neither the status of a known host nor what is      *)
(* listed of it.                                                           *)
LEMMA StatusReasonedByReceive ==
  ASSUME WorkersOK, StatusReasoned, NEW w \in Worker, NEW p \in Packet, Receive(w, p)
  PROVE  StatusReasoned'
<1>1. hosts' = hosts
  BY DEF Receive, nsvars
<1>2. \A v \in Worker \ {w} : packet'[v] = packet[v] /\ todo'[v] = todo[v]
  BY DEF Receive, WorkersOK
<1>3. \A v \in Worker \ {w} : Left(v)' = Left(v)
  BY <1>2 DEF Left
<1>4. Left(w) = {}
  BY EmptyIsLegal DEF Receive, Left
<1>5. Left(w)' = {0}
  <2>1. todo'[w] = <<HostCall>>
    BY DEF Receive, WorkersOK, HostCall
  <2> QED
    BY <2>1, StageOfCall DEF Left, Stages
<1>6. \A r : ~WillList(w, r)
  BY <1>4 DEF WillList
<1>7. ASSUME NEW a \in DOMAIN hosts PROVE Reasoned(a)'
  <2>1. Reasoned(a)
    BY DEF StatusReasoned
  <2>2. \A r : Listed(a, r)' <=> Listed(a, r)
    BY <1>1 DEF Listed
  <2>3. ASSUME NEW r \in {1, 2}, Rank(hosts'[a].status) = r, ~Listed(a, r)
        PROVE  \E v \in Worker : packet'[v].src = a /\ WillList(v, r)'
    <3>1. PICK v \in Worker : packet[v].src = a /\ WillList(v, r)
      BY <1>1, <2>1, <2>3 DEF Reasoned
    <3>2. v # w
      BY <1>6, <3>1
    <3>3. packet'[v] = packet[v] /\ Left(v)' = Left(v)
      BY <1>2, <1>3, <3>2
    <3>4. packet'[v].src = a /\ WillList(v, r)'
      BY <3>1, <3>3 DEF WillList
    <3> QED
      BY <3>4
  <2>4. ASSUME NEW v \in Worker, packet'[v].src = a
        PROVE  /\ 3 \in Left(v)' => 2 \in Left(v)' \/ Listed(a, 1)'
               /\ 6 \in Left(v)' => 5 \in Left(v)' \/ Listed(a, 2)'
    <3>1. CASE v = w
      BY <1>5, <3>1
    <3>2. CASE v # w
      BY <1>2, <1>3, <2>1, <2>2, <2>4, <3>2 DEF Reasoned
    <3> QED
      BY <3>1, <3>2
  <2>5. \A x \in ToSet(hosts'[a].anomalies) : Rank(hosts'[a].status) >= RankOf(x)
    BY <1>1, <2>1 DEF Reasoned
  <2> QED
    BY <2>2, <2>3, <2>4, <2>5 DEF Reasoned
<1> QED
  BY <1>1, <1>7 DEF StatusReasoned

LEMMA StatusReasonedByCall ==
  ASSUME WorkersOK, StatusReasoned, hosts' = hosts, NEW w \in Worker, NEW s, Goes(w, s),
         Left(w) \cap {2, 5, 11} \subseteq Stages(s),
         3 \in Stages(s) => 3 \in Left(w) \/ 2 \in Stages(s),
         6 \in Stages(s) => 6 \in Left(w) \/ 5 \in Stages(s)
  PROVE  StatusReasoned'
<1>1. ASSUME NEW a \in DOMAIN hosts PROVE Reasoned(a)'
  BY ReasonedGoes DEF StatusReasoned, Kept
<1> QED
  BY <1>1 DEF StatusReasoned

LEMMA StatusReasonedByUpdateHost ==
  ASSUME WorkersOK, HostsOK, StatusReasoned, NEW w \in Worker, UpdateHost(w)
  PROVE  StatusReasoned'
<1> DEFINE p == packet[w]
           isNew == p.src \notin DOMAIN hosts
           s == RestOf(p, isNew)
<1>1. /\ p \in Packet /\ Left(w) = {0} /\ Goes(w, s)
      /\ DOMAIN hosts' = DOMAIN hosts \cup {p.src}
  BY HostGoes DEF HostsOK, StateOK
<1>2. /\ \A b \in DOMAIN hosts : Kept(b)
      /\ p.src \notin DOMAIN hosts =>
           hosts'[p.src].status = "SAFE" /\ hosts'[p.src].anomalies = <<>>
  BY HostRecorded
<1>3. (3 \in Stages(s) => 2 \in Stages(s)) /\ 6 \notin Stages(s)
  <2>1. isNew \in BOOLEAN
    OBVIOUS
  <2> HIDE DEF isNew
  <2>2. /\ Stages(s) \subseteq {1, 2, 3, 4} \cup 7..12
        /\ 3 \in Stages(s) => 2 \in Stages(s)
    BY <1>1, <2>1, RestIsLegal
  <2> HIDE DEF s
  <2> QED
    BY <2>2
<1> HIDE DEF s, p
<1>4. ASSUME NEW a \in DOMAIN hosts PROVE Reasoned(a)'
  BY <1>1, <1>2, <1>3, ReasonedGoes DEF StatusReasoned
<1>5. ASSUME p.src \notin DOMAIN hosts, NEW a, a = p.src
      PROVE  Reasoned(a)'
  <2>1. Rank(hosts'[a].status) = 0 /\ ToSet(hosts'[a].anomalies) = {}
    BY <1>2, <1>5 DEF Rank, ToSet
  <2>2. ASSUME NEW v \in Worker, packet'[v].src = a
        PROVE  /\ 3 \in Left(v)' => 2 \in Left(v)'
               /\ 6 \notin Left(v)'
    <3>1. CASE v = w
      BY <1>1, <1>3, <3>1, GoesOn
    <3>2. CASE v # w
      <4>1. packet'[v] = packet[v] /\ Left(v)' = Left(v)
        BY <1>1, <3>2, GoesOn
      <4>2. CASE todo[v] = <<>>
        BY <4>1, <4>2, EmptyIsLegal DEF Left
      <4>3. CASE todo[v] # <<>>
        <5>1. todo[v] = <<HostCall>>
          BY <1>5, <2>2, <4>1, <4>3 DEF WorkersOK
        <5>2. Left(v) = {0}
          BY <5>1, StageOfCall DEF Left, Stages
        <5> QED
          BY <4>1, <5>2
      <4> QED
        BY <4>2, <4>3
    <3> QED
      BY <3>1, <3>2
  <2> QED
    BY <2>1, <2>2 DEF Reasoned
<1> QED
  BY <1>1, <1>4, <1>5 DEF StatusReasoned

(* The calls left, when the one at the head is made.                       *)
LEMMA HeadMade ==
  ASSUME WorkersOK, NEW w \in Worker, todo[w] # <<>>,
         Head(todo[w]).op # "RecordHostPacket"
  PROVE  LET n == Stage(Head(todo[w]))
             t == Stages(Tail(todo[w]))
         IN  /\ Left(w) = {n} \cup t /\ n \in 1..12 /\ t \subseteq 1..12
             /\ \A m \in t : n < m \/ (n = 9 /\ m = 9)
             /\ n = 10 => 11 \in t
<1> DEFINE c == Head(todo[w])
           s == Tail(todo[w])
<1>1. /\ packet[w] \in Packet /\ Legal(packet[w], s) /\ c \in CallsOf(packet[w])
      /\ Left(w) = {Stage(c)} \cup Stages(s) /\ 0 \notin Left(w)
      /\ \A n \in Stages(s) : Stage(c) < n \/ (Stage(c) = 9 /\ n = 9)
      /\ Stage(c) \in First => s # <<>> /\ Stage(Head(s)) = Stage(c) + 1
  BY NextCall
<1> HIDE DEF c, s
<1>2. Stage(c) \in 0..12 /\ Stages(s) \subseteq 0..12
  <2>1. ASSUME NEW i \in 1..Len(s) PROVE Stage(s[i]) \in 0..12
    <3>1. s[i] \in CallsOf(packet[w])
      BY <1>1 DEF Legal
    <3> QED
      BY <3>1, StageIsNatural
  <2> QED
    BY <1>1, <2>1, StageIsNatural DEF Stages
<1>3. Stage(c) = 10 => 11 \in Stages(s)
  <2> SUFFICES ASSUME Stage(c) = 10 PROVE 11 \in Stages(s)
    OBVIOUS
  <2>1. s # <<>> /\ Stage(Head(s)) = 11
    BY <1>1 DEF First
  <2>2. Head(s) = s[1] /\ 1 \in 1..Len(s)
    BY <1>1, <2>1 DEF Legal
  <2> QED
    BY <2>1, <2>2 DEF Stages
<1> QED
  BY <1>1, <1>2, <1>3 DEF c, s

LEMMA StatusReasonedByEvent ==
  ASSUME WorkersOK, HostsOK, StatusReasoned, NEW w \in Worker, ReportEvent(w)
  PROVE  StatusReasoned'
<1> DEFINE p == packet[w]
           s == Tail(todo[w])
           n == Stage(Head(todo[w]))
<1>1. /\ todo[w] # <<>> /\ Head(todo[w]).op # "RecordHostPacket" /\ Goes(w, s)
      /\ \A b \in DOMAIN hosts : Rank(hosts'[b].status) >= Rank(hosts[b].status)
  BY EventReported
<1>2. PICK category \in CategoriesOf(p) : n = EventStage(category) /\ EventEffect(w, category)
  BY EventReported
<1>3. /\ Left(w) = {n} \cup Stages(s)
      /\ \A m \in Stages(s) : n < m \/ (n = 9 /\ m = 9)
      /\ n = 10 => 11 \in Stages(s)
  BY <1>1, HeadMade
<1>4. n \in {1, 3, 6, 9, 10}
  BY <1>2, EventAtStage
<1> HIDE DEF s, n
<1>5. ASSUME NEW a \in DOMAIN hosts, a # p.src \/ Kept(a)
      PROVE  Reasoned(a)'
  <2>1. Kept(a)
    BY <1>2, <1>5 DEF EventEffect, Kept
  <2> QED
    BY <1>1, <1>3, <1>4, <2>1, ReasonedGoes DEF StatusReasoned
<1>6. ASSUME NEW a \in DOMAIN hosts, a = p.src, ~Kept(a)
      PROVE  Reasoned(a)'
  <2> DEFINE severity == SeverityOf(category)
             r == Rank(severity)
  <2>1. /\ a \in DOMAIN hosts' /\ hosts'[a].anomalies = hosts[a].anomalies
        /\ hosts'[a].status = Elevated(hosts[a].status, severity)
    BY <1>2, <1>6 DEF EventEffect
  <2>2. severity \in Severity /\ hosts[a].status \in Status
    BY EventAtStage, HostIsKnown
  <2>3. hosts'[a].status # hosts[a].status
    BY <1>6, <2>1 DEF Kept
  <2>4. Rank(hosts'[a].status) = r /\ r \in {1, 2}
    BY <2>1, <2>2, <2>3 DEF Elevated, Rank, Severity, Status
  <2>5. Reasoned(a)
    BY DEF StatusReasoned
  <2>6. \A k : Listed(a, k)' <=> Listed(a, k)
    BY <2>1 DEF Listed
  <2>7. Listed(a, r) \/ (packet'[w] = p /\ WillList(w, r)')
    <3>1. CASE n = 3
      <4>1. category = "TTL_HOP_INDICATOR" /\ 3 \in Left(w) /\ 2 \notin Left(w)
        <5>1. category = "TTL_HOP_INDICATOR"
          BY <1>2, <3>1, EventAtStage
        <5> QED
          BY <1>3, <3>1, <5>1
      <4>2. r = 1
        BY <4>1 DEF SeverityOf, Rank
      <4> QED
        BY <1>6, <2>5, <4>1, <4>2 DEF Reasoned
    <3>2. CASE n = 6
      <4>1. category = "HARDWARE_OS_DISCREPANCY" /\ 6 \in Left(w) /\ 5 \notin Left(w)
        <5>1. category = "HARDWARE_OS_DISCREPANCY"
          BY <1>2, <3>2, EventAtStage
        <5> QED
          BY <1>3, <3>2, <5>1
      <4>2. r = 2
        BY <4>1 DEF SeverityOf, Rank
      <4> QED
        BY <1>6, <2>5, <4>1, <4>2 DEF Reasoned
    <3>3. CASE n = 10
      <4>1. category \in {"CLEARTEXT_TRAFFIC", "LEGACY_NAME_RES"} /\ 11 \in Stages(s)
        BY <1>2, <1>3, <3>3, EventAtStage
      <4>2. /\ category = "CLEARTEXT_TRAFFIC" => r = 2 /\ IsCleartext(p)
            /\ category = "LEGACY_NAME_RES" => r = 1 /\ IsLegacy(p)
        BY EventAtStage DEF SeverityOf, Rank
      <4>3. packet'[w] = p
        BY <1>1, <4>1, GoesOn, EmptyIsLegal
      <4>4. WillList(w, r)'
        <5>1. (r = 1 /\ IsLegacy(p)) \/ (r = 2 /\ IsCleartext(p))
          BY <4>1, <4>2
        <5>2. CASE r = 1 /\ IsLegacy(p)
          BY <1>1, <4>1, <5>2, WillListGoes
        <5>3. CASE r = 2 /\ IsCleartext(p)
          BY <1>1, <4>1, <5>3, WillListGoes
        <5> QED
          BY <5>1, <5>2, <5>3
      <4> QED
        BY <4>3, <4>4
    <3>4. CASE n \in {1, 9}
      <4>1. category \in Category /\ category \notin {"TTL_HOP_INDICATOR",
              "HARDWARE_OS_DISCREPANCY", "CLEARTEXT_TRAFFIC", "LEGACY_NAME_RES"}
        BY <1>2, <3>4, EventAtStage
      <4>2. r = 0
        BY <4>1 DEF SeverityOf, Rank, Category
      <4> QED
        BY <2>4, <4>2
    <3> QED
      BY <1>4, <3>1, <3>2, <3>3, <3>4
  <2> HIDE DEF r, severity
  <2>8. \A x \in ToSet(hosts'[a].anomalies) : Rank(hosts'[a].status) >= RankOf(x)
    <3>1. /\ Rank(hosts'[a].status) \in {1, 2} /\ Rank(hosts[a].status) \in 0..2
          /\ Rank(hosts'[a].status) >= Rank(hosts[a].status)
      BY <1>1, <2>2, <2>4 DEF Rank
    <3>2. \A x \in ToSet(hosts[a].anomalies) :
            RankOf(x) \in 1..2 /\ Rank(hosts[a].status) >= RankOf(x)
      BY <2>5 DEF Reasoned, RankOf
    <3> QED
      BY <2>1, <3>1, <3>2
  <2>9. \A k \in {1, 2} : Rank(hosts'[a].status) = k =>
          Listed(a, k)' \/ \E v \in Worker : packet'[v].src = a /\ WillList(v, k)'
    BY <1>6, <2>4, <2>6, <2>7
  <2>10. ASSUME NEW v \in Worker, packet'[v].src = a
         PROVE  /\ 3 \in Left(v)' => 2 \in Left(v)' \/ Listed(a, 1)'
                /\ 6 \in Left(v)' => 5 \in Left(v)' \/ Listed(a, 2)'
    <3>1. CASE v # w
      <4>1. packet'[v] = packet[v] /\ Left(v)' = Left(v)
        BY <1>1, <3>1, GoesOn
      <4> QED
        BY <2>5, <2>6, <2>10, <4>1 DEF Reasoned
    <3>2. CASE v = w
      <4>1. Left(w)' = Stages(s)
        BY <1>1, GoesOn
      <4>2. /\ 3 \in Left(w) => 2 \in Left(w) \/ Listed(a, 1)
            /\ 6 \in Left(w) => 5 \in Left(w) \/ Listed(a, 2)
        BY <1>6, <2>5 DEF Reasoned
      <4> QED
        BY <1>3, <1>4, <2>6, <3>2, <4>1, <4>2
    <3> QED
      BY <3>1, <3>2
  <2> QED
    BY <2>8, <2>9, <2>10 DEF Reasoned
<1>7. DOMAIN hosts' = DOMAIN hosts
  BY <1>2 DEF EventEffect
<1> QED
  BY <1>5, <1>6, <1>7 DEF StatusReasoned

LEMMA StatusReasonedByIndicator ==
  ASSUME WorkersOK, HostsOK, StatusReasoned, NEW w \in Worker, ReportAnomaly(w)
  PROVE  StatusReasoned'
<1> DEFINE p == packet[w]
           s == Tail(todo[w])
           n == Stage(Head(todo[w]))
<1>1. /\ todo[w] # <<>> /\ Head(todo[w]).op # "RecordHostPacket" /\ Goes(w, s)
      /\ \A b \in DOMAIN hosts : Rank(hosts'[b].status) >= Rank(hosts[b].status)
  BY IndicatorReported
<1>2. PICK kind \in KindsOf(p), ttl \in TTL :
        n = IndicatorStage(kind) /\ IndicatorEffect(w, kind, ttl)
  BY IndicatorReported
<1> DEFINE x == <<kind, ttl>>
           k == RankOf(x)
           severity == IF k = 2 THEN "ALERT" ELSE "SUSPICIOUS"
<1>3. /\ Left(w) = {n} \cup Stages(s)
      /\ \A m \in Stages(s) : n < m \/ (n = 9 /\ m = 9)
  BY <1>1, HeadMade
<1>4. /\ n \in {2, 5, 11} /\ k \in {1, 2}
      /\ n = 2 => k = 1
      /\ n = 5 => k = 2
      /\ n = 11 /\ IsCleartext(p) => k = 2
      /\ n = 11 /\ IsLegacy(p) => k = 1
  BY <1>2, IndicatorAtStage
<1>5. severity \in Severity /\ Rank(severity) = k
  BY <1>4 DEF Severity, Rank
<1>6. /\ DOMAIN hosts' = DOMAIN hosts
      /\ \A b \in DOMAIN hosts : b # p.src => hosts'[b] = hosts[b]
      /\ p.src \in DOMAIN hosts =>
           /\ ToSet(hosts'[p.src].anomalies) = ToSet(hosts[p.src].anomalies) \cup {x}
           /\ hosts'[p.src].status = IF x \in ToSet(hosts[p.src].anomalies)
                THEN hosts[p.src].status ELSE Elevated(hosts[p.src].status, severity)
  BY <1>2 DEF IndicatorEffect
<1> HIDE DEF s, n, x, k, severity
<1>7. ASSUME NEW a \in DOMAIN hosts, NEW r \in {1, 2}
      PROVE  Listed(a, r) => Listed(a, r)'
  BY <1>6 DEF Listed
<1>8. ASSUME NEW a \in DOMAIN hosts, a = p.src
      PROVE  Listed(a, k)'
  BY <1>6, <1>8 DEF Listed, k
<1>9. ASSUME NEW a \in DOMAIN hosts, NEW r \in {1, 2}, NEW v \in Worker,
             packet[v].src = a, WillList(v, r)
      PROVE  Listed(a, r)' \/ (packet'[v].src = a /\ WillList(v, r)')
  <2>1. CASE v # w
    <3>1. packet'[v] = packet[v] /\ WillList(v, r)' = WillList(v, r)
      BY <1>1, <2>1, GoesOn, WillListGoes
    <3> QED
      BY <1>9, <3>1
  <2>2. CASE v = w /\ r = k
    BY <1>8, <1>9, <2>2
  <2>3. CASE v = w /\ r # k
    <3>1. \/ r = 1 /\ (2 \in Left(w) \/ (11 \in Left(w) /\ IsLegacy(p)))
          \/ r = 2 /\ (5 \in Left(w) \/ (11 \in Left(w) /\ IsCleartext(p)))
      BY <1>9, <2>3 DEF WillList
    <3>2. \/ r = 1 /\ (2 \in Stages(s) \/ (11 \in Stages(s) /\ IsLegacy(p)))
          \/ r = 2 /\ (5 \in Stages(s) \/ (11 \in Stages(s) /\ IsCleartext(p)))
      BY <1>3, <1>4, <2>3, <3>1
    <3>3. WillList(w, r)'
      BY <1>1, <3>2, WillListGoes
    <3>4. packet'[w] = p
      BY <1>1, <3>2, GoesOn, EmptyIsLegal
    <3> QED
      BY <1>9, <2>3, <3>3, <3>4
  <2> QED
    BY <2>1, <2>2, <2>3
<1>10. ASSUME NEW a \in DOMAIN hosts PROVE Reasoned(a)'
  <2>1. Reasoned(a) /\ hosts[a].status \in Status
    BY HostIsKnown DEF StatusReasoned
  <2>2. Rank(hosts[a].status) \in 0..2
    BY <2>1 DEF Rank
  <2>3. \/ hosts'[a].status = hosts[a].status
        \/ /\ a = p.src
           /\ Rank(hosts'[a].status) = IF k > Rank(hosts[a].status) THEN k
                                       ELSE Rank(hosts[a].status)
    <3>1. CASE a = p.src
      <4>1. \/ hosts'[a].status = hosts[a].status
            \/ hosts'[a].status = Elevated(hosts[a].status, severity)
        BY <1>6, <3>1
      <4> QED
        BY <1>5, <2>1, <3>1, <4>1, ElevatedRank
    <3>2. CASE a # p.src
      BY <1>6, <3>2
    <3> QED
      BY <3>1, <3>2
  <2>4. \A y \in ToSet(hosts[a].anomalies) :
          RankOf(y) \in 1..2 /\ Rank(hosts[a].status) >= RankOf(y)
    BY <2>1 DEF Reasoned, RankOf
  <2>5. \A y \in ToSet(hosts'[a].anomalies) : Rank(hosts'[a].status) >= RankOf(y)
    <3>1. CASE a # p.src
      BY <1>6, <2>4, <3>1
    <3>2. CASE a = p.src /\ x \in ToSet(hosts[a].anomalies)
      BY <1>6, <2>4, <3>2
    <3>3. CASE a = p.src /\ x \notin ToSet(hosts[a].anomalies)
      <4>1. /\ ToSet(hosts'[a].anomalies) = ToSet(hosts[a].anomalies) \cup {x}
            /\ Rank(hosts'[a].status) = IF k > Rank(hosts[a].status) THEN k
                                        ELSE Rank(hosts[a].status)
        BY <1>5, <1>6, <2>1, <3>3, ElevatedRank
      <4>2. Rank(hosts'[a].status) >= k
            /\ Rank(hosts'[a].status) >= Rank(hosts[a].status)
        BY <1>4, <2>2, <4>1
      <4>3. ASSUME NEW y \in ToSet(hosts[a].anomalies)
            PROVE  Rank(hosts'[a].status) >= RankOf(y)
        <5>1. Rank(hosts'[a].status) \in Int
          BY <1>4, <2>2, <4>1
        <5> QED
          BY <2>2, <2>4, <4>2, <5>1
      <4> QED
        BY <4>1, <4>2, <4>3 DEF k
    <3> QED
      BY <3>1, <3>2, <3>3
  <2>6. ASSUME NEW r \in {1, 2}, Rank(hosts'[a].status) = r
        PROVE  Listed(a, r)' \/ \E v \in Worker : packet'[v].src = a /\ WillList(v, r)'
    <3>1. CASE Rank(hosts[a].status) = r
      <4>1. Listed(a, r) \/ \E v \in Worker : packet[v].src = a /\ WillList(v, r)
        BY <2>1, <3>1 DEF Reasoned
      <4> QED
        BY <1>7, <1>9, <4>1
    <3>2. CASE Rank(hosts[a].status) # r
      <4>1. a = p.src /\ r = k
        BY <2>2, <2>3, <2>6, <3>2
      <4> QED
        BY <1>8, <4>1
    <3> QED
      BY <3>1, <3>2
  <2>7. ASSUME NEW v \in Worker, packet'[v].src = a
        PROVE  /\ 3 \in Left(v)' => 2 \in Left(v)' \/ Listed(a, 1)'
               /\ 6 \in Left(v)' => 5 \in Left(v)' \/ Listed(a, 2)'
    <3>1. CASE v # w
      <4>1. packet'[v] = packet[v] /\ Left(v)' = Left(v)
        BY <1>1, <3>1, GoesOn
      <4>2. /\ 3 \in Left(v) => 2 \in Left(v) \/ Listed(a, 1)
            /\ 6 \in Left(v) => 5 \in Left(v) \/ Listed(a, 2)
        BY <2>1, <2>7, <4>1 DEF Reasoned
      <4> QED
        BY <1>7, <4>1, <4>2
    <3>2. CASE v = w /\ Stages(s) # {}
      <4>1. Left(w)' = Stages(s) /\ packet'[w] = p
        <5>1. s # <<>>
          BY <3>2, EmptyIsLegal
        <5> QED
          BY <1>1, <5>1, GoesOn
      <4>2. a = p.src
        BY <2>7, <3>2, <4>1
      <4>3. /\ 3 \in Left(w) => 2 \in Left(w) \/ Listed(a, 1)
            /\ 6 \in Left(w) => 5 \in Left(w) \/ Listed(a, 2)
        BY <2>1, <4>2 DEF Reasoned
      <4>4. CASE n = 2
        BY <1>3, <1>4, <1>7, <1>8, <3>2, <4>1, <4>2, <4>3, <4>4
      <4>5. CASE n = 5
        BY <1>3, <1>4, <1>7, <1>8, <3>2, <4>1, <4>2, <4>3, <4>5
      <4>6. CASE n = 11
        BY <1>3, <3>2, <4>1, <4>6
      <4> QED
        BY <1>4, <4>4, <4>5, <4>6
    <3>3. CASE v = w /\ Stages(s) = {}
      <4>1. Left(w)' = {}
        BY <1>1, <3>3, GoesOn
      <4> QED
        BY <3>3, <4>1
    <3> QED
      BY <3>1, <3>2, <3>3
  <2> QED
    BY <2>5, <2>6, <2>7 DEF Reasoned
<1> QED
  BY <1>6, <1>10 DEF StatusReasoned

-----------------------------------------------------------------------------
(* The announcements.                                                      *)
LEMMA AnnouncingGoes ==
  ASSUME WorkersOK, NEW w \in Worker, NEW s, Goes(w, s), NEW CONSTANT a
  PROVE  /\ Announcing(a)' \ {w} = Announcing(a) \ {w}
         /\ w \in Announcing(a)' <=> 1 \in Stages(s) /\ packet[w].src = a
         /\ w \in Announcing(a) <=> 1 \in Left(w) /\ packet[w].src = a
<1>1. /\ Left(w)' = Stages(s)
      /\ \A v \in Worker \ {w} : packet'[v] = packet[v] /\ Left(v)' = Left(v)
  BY GoesOn
<1>2. 1 \in Stages(s) => packet'[w] = packet[w]
  BY GoesOn, EmptyIsLegal
<1> QED
  BY <1>1, <1>2 DEF Announcing

LEMMA AnnouncedByReceive ==
  ASSUME WorkersOK, Announced, NEW w \in Worker, NEW p \in Packet, Receive(w, p)
  PROVE  Announced'
<1>1. hosts' = hosts /\ events' = events /\ eventIDSeq' = eventIDSeq
  BY DEF Receive, nsvars
<1>2. \A v \in Worker \ {w} : packet'[v] = packet[v] /\ todo'[v] = todo[v]
  BY DEF Receive, WorkersOK
<1>3. 1 \notin Left(w)
  BY EmptyIsLegal DEF Receive, Left
<1>4. 1 \notin Left(w)'
  <2>1. todo'[w] = <<HostCall>>
    BY DEF Receive, WorkersOK, HostCall
  <2> QED
    BY <2>1, StageOfCall DEF Left, Stages
<1>5. \A a : Announcing(a)' = Announcing(a)
  BY <1>2, <1>3, <1>4 DEF Announcing, Left
<1>6. \A a : News(a)' = News(a)
  BY <1>1 DEF News
<1>7. maxEvents' = maxEvents
  BY DEF maxEvents
<1> QED
  BY <1>1, <1>5, <1>6, <1>7 DEF Announced

LEMMA AnnouncedByCall ==
  ASSUME WorkersOK, Announced, NEW w \in Worker, NEW s, Goes(w, s),
         DOMAIN hosts' = DOMAIN hosts, events' = events, eventIDSeq' = eventIDSeq,
         1 \in Stages(s) <=> 1 \in Left(w)
  PROVE  Announced'
<1>1. \A a : Announcing(a)' = Announcing(a)
  BY AnnouncingGoes
<1>2. \A a : News(a)' = News(a)
  BY DEF News
<1> QED
  BY <1>1, <1>2 DEF Announced, maxEvents

LEMMA AnnouncedByUpdateHost ==
  ASSUME WorkersOK, HostsOK, Announced, NEW w \in Worker, UpdateHost(w)
  PROVE  Announced'
<1> DEFINE p == packet[w]
           isNew == p.src \notin DOMAIN hosts
           s == RestOf(p, isNew)
<1>1. /\ p \in Packet /\ Left(w) = {0} /\ Goes(w, s)
      /\ DOMAIN hosts' = DOMAIN hosts \cup {p.src}
  BY HostGoes DEF HostsOK, StateOK
<1>2. events' = events /\ eventIDSeq' = eventIDSeq
  BY HostRecorded
<1>3. 1 \in Stages(s) <=> isNew
  <2>1. isNew \in BOOLEAN
    OBVIOUS
  <2> HIDE DEF isNew
  <2> QED
    BY <1>1, <2>1, RestIsLegal
<1> HIDE DEF s, p
<1>4. ASSUME NEW a
      PROVE  /\ News(a)' = News(a)
             /\ Announcing(a)' = IF isNew /\ a = p.src THEN Announcing(a) \cup {w}
                                                      ELSE Announcing(a)
  <2>1. News(a)' = News(a)
    BY <1>2 DEF News
  <2>2. /\ Announcing(a)' \ {w} = Announcing(a) \ {w} /\ w \notin Announcing(a)
        /\ w \in Announcing(a)' <=> isNew /\ a = p.src
    BY <1>1, <1>3, AnnouncingGoes DEF p
  <2> QED
    BY <2>1, <2>2
<1>5. ASSUME eventIDSeq <= maxEvents, NEW a \in Address
      PROVE  /\ \A i, j \in News(a)' : i = j
             /\ \A v, u \in Announcing(a)' : v = u
             /\ News(a)' = {} \/ Announcing(a)' = {}
             /\ a \in DOMAIN hosts' <=> News(a)' \cup Announcing(a)' # {}
  <2>1. /\ \A i, j \in News(a) : i = j
        /\ \A v, u \in Announcing(a) : v = u
        /\ News(a) = {} \/ Announcing(a) = {}
        /\ a \in DOMAIN hosts <=> News(a) \cup Announcing(a) # {}
    BY <1>5 DEF Announced
  <2>2. CASE isNew /\ a = p.src
    <3>1. News(a) = {} /\ Announcing(a) = {} /\ a \in DOMAIN hosts'
      BY <1>1, <2>1, <2>2
    <3>2. News(a)' = {} /\ Announcing(a)' = {w}
      BY <1>4, <2>2, <3>1
    <3> QED
      BY <3>1, <3>2
  <2>3. CASE ~(isNew /\ a = p.src)
    <3>1. a \in DOMAIN hosts' <=> a \in DOMAIN hosts
      BY <1>1, <2>3
    <3>2. News(a)' = News(a) /\ Announcing(a)' = Announcing(a)
      BY <1>4, <2>3
    <3> QED
      BY <2>1, <3>1, <3>2
  <2> QED
    BY <2>2, <2>3
<1> QED
  BY <1>2, <1>5 DEF Announced, maxEvents

LEMMA AnnouncedByEvent ==
  ASSUME WorkersOK, HostsOK, Announced, NEW w \in Worker, ReportEvent(w)
  PROVE  Announced'
<1> DEFINE p == packet[w]
           s == Tail(todo[w])
           n == Stage(Head(todo[w]))
<1>1. todo[w] # <<>> /\ Head(todo[w]).op # "RecordHostPacket" /\ Goes(w, s)
  BY EventReported
<1>2. PICK category \in CategoriesOf(p) : n = EventStage(category) /\ EventEffect(w, category)
  BY EventReported
<1>3. /\ Left(w) = {n} \cup Stages(s) /\ n \in 1..12
      /\ \A m \in Stages(s) : n < m \/ (n = 9 /\ m = 9)
  BY <1>1, HeadMade
<1>4. n = 1 <=> category = "NEW_HOST"
  BY <1>2, EventAtStage
<1> HIDE DEF s, n
<1>5. 1 \notin Stages(s)
  BY <1>3
<1>6. n = 1 <=> 1 \in Left(w)
  BY <1>3, <1>5
<1>7. SUFFICES ASSUME eventIDSeq' <= maxEvents, NEW a \in Address
               PROVE  /\ \A i, j \in News(a)' : i = j
                      /\ \A v, u \in Announcing(a)' : v = u
                      /\ News(a)' = {} \/ Announcing(a)' = {}
                      /\ a \in DOMAIN hosts' <=> News(a)' \cup Announcing(a)' # {}
  BY DEF Announced, maxEvents
<1> DEFINE k == Len(events) + 1
           e == [id |-> eventIDSeq + 1, event |-> Event(p.src, category, SeverityOf(category))]
<1>8. eventIDSeq <= maxEvents /\ events' = Append(events, e) /\ DOMAIN hosts' = DOMAIN hosts
  BY <1>2, <1>7 DEF EventEffect
<1>9. e.event.category = category /\ e.event.source = p.src
  BY DEF Event
<1> HIDE DEF e
<1>10. /\ DOMAIN events' = DOMAIN events \cup {k} /\ k \notin DOMAIN events
       /\ events'[k] = e /\ \A i \in DOMAIN events : events'[i] = events[i]
  <2> DEFINE Entry == [id : Nat, event : [source : Address, category : Category,
                                          severity : Severity]]
  <2>1. events \in Seq(Entry)
    BY DEF HostsOK, StateOK
  <2> HIDE DEF Entry
  <2>2. DOMAIN events = 1..Len(events) /\ Len(events) \in Nat
    BY <2>1
  <2>3. /\ DOMAIN events' = 1..Len(events) + 1 /\ events'[k] = e
        /\ \A i \in 1..Len(events) : events'[i] = events[i]
    BY <1>8, <2>1
  <2> QED
    BY <2>2, <2>3
<1> HIDE DEF k
<1>11. News(a)' = IF n = 1 /\ a = p.src THEN News(a) \cup {k} ELSE News(a)
  <2>1. CASE n = 1 /\ a = p.src
    BY <1>4, <1>9, <1>10, <2>1 DEF News
  <2>2. CASE ~(n = 1 /\ a = p.src)
    BY <1>4, <1>9, <1>10, <2>2 DEF News
  <2> QED
    BY <2>1, <2>2
<1>12. /\ w \in Announcing(a) <=> n = 1 /\ a = p.src
       /\ Announcing(a)' = Announcing(a) \ {w}
  <2>1. /\ Announcing(a)' \ {w} = Announcing(a) \ {w} /\ w \notin Announcing(a)'
        /\ w \in Announcing(a) <=> n = 1 /\ p.src = a
    BY <1>1, <1>5, <1>6, AnnouncingGoes
  <2> QED
    BY <2>1
<1>13. /\ \A i, j \in News(a) : i = j
       /\ \A v, u \in Announcing(a) : v = u
       /\ News(a) = {} \/ Announcing(a) = {}
       /\ a \in DOMAIN hosts <=> News(a) \cup Announcing(a) # {}
  BY <1>8 DEF Announced
<1>14. CASE n = 1 /\ a = p.src
  <2>1. News(a) = {} /\ Announcing(a) = {w} /\ a \in DOMAIN hosts
    BY <1>12, <1>13, <1>14
  <2>2. News(a)' = {k} /\ Announcing(a)' = {}
    BY <1>11, <1>12, <1>14, <2>1
  <2> QED
    BY <1>8, <2>1, <2>2
<1>15. CASE ~(n = 1 /\ a = p.src)
  <2>1. News(a)' = News(a) /\ Announcing(a)' = Announcing(a)
    BY <1>11, <1>12, <1>15
  <2> QED
    BY <1>8, <1>13, <2>1
<1> QED
  BY <1>14, <1>15

-----------------------------------------------------------------------------
(* The counts.  A packet that arrives is owed every call it gives rise to. *)
LEMMA BalanceReceives ==
  ASSUME WorkersOK, NEW w \in Worker, NEW p \in Packet, Receive(w, p),
         NEW CONSTANT S \in SUBSET Packet, NEW CONSTANT n,
         NEW count \in Int, Balance(count, S, n)
  PROVE  count + Cardinality(Owing(S, n)') = Cardinality(ReceivedIn(S)')
<1> DEFINE A == Owing(S, n)
           B == Owing(S, n)'
           R == ReceivedIn(S)
           Q == ReceivedIn(S)'
           k == Len(taken) + 1
<1>1. /\ todo'[w] = <<HostCall>> /\ packet'[w] = p /\ todo[w] = <<>>
      /\ \A v \in Worker \ {w} : packet'[v] = packet[v] /\ todo'[v] = todo[v]
      /\ taken' = Append(taken, p)
  BY DEF Receive, WorkersOK, HostCall
<1>2. Left(w) = {} /\ Left(w)' = {0}
  BY <1>1, EmptyIsLegal, StageOfCall DEF Left, Stages
<1>3. A \ {w} = B \ {w} /\ w \notin A /\ (w \in B <=> p \in S)
  BY <1>1, <1>2 DEF Owing, Left
<1>4. /\ DOMAIN taken' = DOMAIN taken \cup {k} /\ k \notin DOMAIN taken
      /\ taken'[k] = p /\ \A i \in DOMAIN taken : taken'[i] = taken[i]
  <2>1. taken \in Seq(Packet)
    BY DEF WorkersOK
  <2>2. DOMAIN taken = 1..Len(taken) /\ Len(taken) \in Nat
    BY <2>1
  <2>3. /\ DOMAIN taken' = 1..Len(taken) + 1 /\ taken'[k] = p
        /\ \A i \in 1..Len(taken) : taken'[i] = taken[i]
    BY <1>1, <2>1
  <2> QED
    BY <2>2, <2>3
<1> HIDE DEF k
<1>5. R \ {k} = Q \ {k} /\ k \notin R /\ (k \in Q <=> p \in S)
  BY <1>4 DEF ReceivedIn
<1>6. IsFiniteSet(A) /\ IsFiniteSet(R) /\ count + Cardinality(A) = Cardinality(R)
  BY OwingIsFinite, ReceivedIsFinite DEF Balance
<1> HIDE DEF A, B, R, Q
<1>7. /\ Cardinality(A) \in Nat /\ Cardinality(B) \in Nat
      /\ Cardinality(B) = Cardinality(A) + One(p \in S)
  BY <1>3, <1>6, OneElement DEF One
<1>8. /\ Cardinality(R) \in Nat /\ Cardinality(Q) \in Nat
      /\ Cardinality(Q) = Cardinality(R) + One(p \in S)
  BY <1>5, <1>6, OneElement DEF One
<1>9. One(p \in S) \in Nat
  BY DEF One
<1>10. count + Cardinality(B) = Cardinality(Q)
  BY ONLY <1>6, <1>7, <1>8, <1>9, count \in Int
<1> QED
  BY <1>10 DEF B, Q

(* One more at one place.                                                  *)
LEMMA UnitsGrow ==
  ASSUME NEW f, NEW g, NEW x, DOMAIN g = DOMAIN f \cup {x},
         \A y \in DOMAIN f : f[y] \in Nat /\ (y # x => g[y] = f[y]),
         g[x] = (IF x \in DOMAIN f THEN f[x] ELSE 0) + 1
  PROVE  /\ Units(g) = Units(f) \cup {<<x, g[x]>>}
         /\ <<x, g[x]>> \notin Units(f)
<1> DEFINE m == IF x \in DOMAIN f THEN f[x] ELSE 0
<1>1. m \in Nat /\ g[x] = m + 1
  OBVIOUS
<1>2. \A u : u \in Units(f) <=> \E y \in DOMAIN f : \E i \in 1..f[y] : u = <<y, i>>
  BY DEF Units
<1>3. \A u : u \in Units(g) <=> \E y \in DOMAIN g : \E i \in 1..g[y] : u = <<y, i>>
  BY DEF Units
<1>4. x \in DOMAIN f => f[x] = m
  OBVIOUS
<1> HIDE DEF m
<1>5. \A i : i \in 1..g[x] <=> i \in 1..m \/ i = m + 1
  BY <1>1
<1>6. ~(m + 1 \in 1..m)
  BY <1>1
<1>7. ASSUME NEW u \in Units(g) PROVE u \in Units(f) \/ u = <<x, g[x]>>
  <2>0. PICK y \in DOMAIN g : \E i \in 1..g[y] : u = <<y, i>>
    BY <1>3
  <2>1. PICK i \in 1..g[y] : u = <<y, i>>
    BY <2>0
  <2>2. CASE y # x
    <3>1. y \in DOMAIN f /\ g[y] = f[y]
      BY <2>2
    <3> QED
      BY <1>2, <2>1, <3>1
  <2>3. CASE y = x /\ i = m + 1
    BY <1>1, <2>1, <2>3
  <2>4. CASE y = x /\ i \in 1..m
    <3>1. x \in DOMAIN f
      <4>1. m # 0
        BY <1>1, <2>4
      <4> QED
        BY <4>1 DEF m
    <3> QED
      BY <1>2, <1>4, <2>1, <2>4, <3>1
  <2> QED
    BY <1>5, <2>2, <2>3, <2>4
<1>8. ASSUME NEW u \in Units(f) PROVE u \in Units(g)
  <2>0. PICK y \in DOMAIN f : \E i \in 1..f[y] : u = <<y, i>>
    BY <1>2
  <2>1. PICK i \in 1..f[y] : u = <<y, i>>
    BY <2>0
  <2>2. i \in 1..g[y]
    <3>1. CASE y # x
      BY <3>1
    <3>2. CASE y = x
      BY <1>4, <1>5, <3>2
    <3> QED
      BY <3>1, <3>2
  <2> QED
    BY <1>3, <2>1, <2>2
<1>9. <<x, g[x]>> \in Units(g)
  <2>1. g[x] \in 1..g[x]
    BY <1>1
  <2> QED
    BY <1>3, <2>1
<1>10. <<x, g[x]>> \notin Units(f)
  BY <1>1, <1>2, <1>4, <1>6
<1> QED
  BY <1>7, <1>8, <1>9, <1>10

LEMMA CountingByReceive ==
  ASSUME WorkersOK, HostsOK, Counting, NEW w \in Worker, NEW p \in Packet, Receive(w, p)
  PROVE  Counting'
<1>1. hosts' = hosts /\ ipPacketCounts' = ipPacketCounts /\ counts' = counts
  BY DEF Receive, nsvars
<1>2. counts.total \in Int /\ counts.unencrypted \in Int /\ counts.legacy \in Int
  BY DEF HostsOK, StateOK, Counters
<1>3. Balance(counts.total, Packet, 0)'
  BY <1>1, <1>2, BalanceReceives DEF Counting, Balance
<1>4. CleartextPackets \in SUBSET Packet /\ LegacyPackets \in SUBSET Packet
  BY DEF CleartextPackets, LegacyPackets
<1>5. Balance(counts.unencrypted, CleartextPackets, 10)'
  BY <1>1, <1>2, <1>4, BalanceReceives DEF Counting, Balance
<1>6. Balance(counts.legacy, LegacyPackets, 10)'
  BY <1>1, <1>2, <1>4, BalanceReceives DEF Counting, Balance
<1>7. HostUnits' = HostUnits
  BY <1>1 DEF HostUnits
<1> QED
  BY <1>1, <1>3, <1>5, <1>6, <1>7 DEF Counting

LEMMA CountingByCall ==
  ASSUME WorkersOK, HostsOK, Counting, NEW w \in Worker, NEW s, Goes(w, s),
         todo[w] # <<>>, 0 \notin Left(w), 0 \notin Stages(s),
         DOMAIN hosts' = DOMAIN hosts, ipPacketCounts' = ipPacketCounts,
         \A a \in DOMAIN hosts : hosts'[a].packets = hosts[a].packets,
         counts' \in Counters, counts'.total = counts.total,
         counts'.unencrypted + One(IsCleartext(packet[w]) /\ 10 \in Stages(s))
           = counts.unencrypted + One(IsCleartext(packet[w]) /\ 10 \in Left(w)),
         counts'.legacy + One(IsLegacy(packet[w]) /\ 10 \in Stages(s))
           = counts.legacy + One(IsLegacy(packet[w]) /\ 10 \in Left(w))
  PROVE  Counting'
<1>1. /\ counts.total \in Int /\ counts.unencrypted \in Int /\ counts.legacy \in Int
      /\ counts'.unencrypted \in Int /\ counts'.legacy \in Int
  BY DEF HostsOK, StateOK, Counters
<1>2. packet[w] \in Packet
  BY DEF WorkersOK
<1>3. CleartextPackets \in SUBSET Packet /\ LegacyPackets \in SUBSET Packet
  BY DEF CleartextPackets, LegacyPackets
<1>4. /\ Balance(counts.total, Packet, 0) /\ Balance(counts.unencrypted, CleartextPackets, 10)
      /\ Balance(counts.legacy, LegacyPackets, 10)
  BY DEF Counting
<1>5. /\ packet[w] \in CleartextPackets <=> IsCleartext(packet[w])
      /\ packet[w] \in LegacyPackets <=> IsLegacy(packet[w])
  BY <1>2 DEF CleartextPackets, LegacyPackets
<1>6. /\ Stages(s) \cap {0, 10} # {} <=> 10 \in Stages(s)
      /\ Left(w) \cap {0, 10} # {} <=> 10 \in Left(w)
      /\ Stages(s) \cap {0, 0} = {} /\ Left(w) \cap {0, 0} = {}
  OBVIOUS
<1>7. Balance(counts.total, Packet, 0)'
  <2>1. counts.total + One(packet[w] \in Packet /\ Stages(s) \cap {0, 0} # {})
          = counts.total + One(packet[w] \in Packet /\ Left(w) \cap {0, 0} # {})
    BY <1>6 DEF One
  <2>2. counts.total + Cardinality(Owing(Packet, 0)') = Cardinality(ReceivedIn(Packet)')
    BY <1>1, <1>4, <2>1, BalanceGoes
  <2> QED
    BY <2>2 DEF Balance
<1>8. Balance(counts.unencrypted, CleartextPackets, 10)'
  <2>1. counts'.unencrypted + One(packet[w] \in CleartextPackets /\ Stages(s) \cap {0, 10} # {})
          = counts.unencrypted + One(packet[w] \in CleartextPackets /\ Left(w) \cap {0, 10} # {})
    BY <1>5, <1>6 DEF One
  <2>2. counts'.unencrypted + Cardinality(Owing(CleartextPackets, 10)')
          = Cardinality(ReceivedIn(CleartextPackets)')
    BY <1>1, <1>3, <1>4, <2>1, BalanceGoes
  <2> QED
    BY <2>2 DEF Balance
<1>9. Balance(counts.legacy, LegacyPackets, 10)'
  <2>1. counts'.legacy + One(packet[w] \in LegacyPackets /\ Stages(s) \cap {0, 10} # {})
          = counts.legacy + One(packet[w] \in LegacyPackets /\ Left(w) \cap {0, 10} # {})
    BY <1>5, <1>6 DEF One
  <2>2. counts'.legacy + Cardinality(Owing(LegacyPackets, 10)')
          = Cardinality(ReceivedIn(LegacyPackets)')
    BY <1>1, <1>3, <1>4, <2>1, BalanceGoes
  <2> QED
    BY <2>2 DEF Balance
<1>10. HostUnits' = HostUnits
  BY DEF HostUnits
<1> QED
  BY <1>7, <1>8, <1>9, <1>10 DEF Counting

LEMMA CountingByUpdateHost ==
  ASSUME WorkersOK, HostsOK, Counting, NEW w \in Worker, UpdateHost(w)
  PROVE  Counting'
<1> DEFINE p == packet[w]
           a == p.src
           isNew == a \notin DOMAIN hosts
           s == RestOf(p, isNew)
<1>1. /\ p \in Packet /\ todo[w] = <<HostCall>> /\ Left(w) = {0} /\ Goes(w, s)
      /\ DOMAIN hosts' = DOMAIN hosts \cup {a}
  BY HostGoes DEF HostsOK, StateOK
<1>2. todo[w] # <<>> /\ Goes(w, s)
  BY <1>1
<1>3. /\ \A b \in DOMAIN hosts' :
           hosts'[b].packets = (IF b \in DOMAIN hosts THEN hosts[b].packets ELSE 0)
                                 + One(b = a)
      /\ \A b \in DOMAIN hosts' :
           ipPacketCounts'[b] = (IF b \in DOMAIN hosts THEN ipPacketCounts[b] ELSE 0)
                                  + One(b = a)
      /\ counts' = [counts EXCEPT !.total = @ + 1]
  BY HostRecorded
<1>4. /\ 0 \notin Stages(s)
      /\ 10 \in Stages(s) <=> IsCleartext(p) \/ IsLegacy(p)
  <2>1. isNew \in BOOLEAN
    OBVIOUS
  <2> HIDE DEF isNew
  <2>2. /\ Stages(s) \subseteq {1, 2, 3, 4} \cup 7..12
        /\ 10 \in Stages(s) <=> IsCleartext(p) \/ IsLegacy(p)
    BY <1>1, <2>1, RestIsLegal
  <2> HIDE DEF s
  <2> QED
    BY <2>2
<1> HIDE DEF s, a
<1>5. /\ counts \in Counters /\ counts'.total = counts.total + 1
      /\ counts'.unencrypted = counts.unencrypted /\ counts'.legacy = counts.legacy
      /\ counts.total \in Int /\ counts.unencrypted \in Int /\ counts.legacy \in Int
  <2>1. counts \in Counters
    BY DEF HostsOK, StateOK
  <2> QED
    BY <1>3, <2>1 DEF Counters
<1>6. CleartextPackets \in SUBSET Packet /\ LegacyPackets \in SUBSET Packet
  BY DEF CleartextPackets, LegacyPackets
<1>7. /\ p \in CleartextPackets <=> IsCleartext(p)
      /\ p \in LegacyPackets <=> IsLegacy(p)
  BY <1>1 DEF CleartextPackets, LegacyPackets
<1>8. /\ Balance(counts.total, Packet, 0) /\ Balance(counts.unencrypted, CleartextPackets, 10)
      /\ Balance(counts.legacy, LegacyPackets, 10)
  BY DEF Counting
<1>9. Balance(counts.total, Packet, 0)'
  <2>1. (counts.total + 1) + One(p \in Packet /\ Stages(s) \cap {0, 0} # {})
          = counts.total + One(p \in Packet /\ Left(w) \cap {0, 0} # {})
    BY <1>1, <1>4, <1>5 DEF One
  <2>2. counts.total + 1 \in Int
    BY <1>5
  <2>3. (counts.total + 1) + Cardinality(Owing(Packet, 0)') = Cardinality(ReceivedIn(Packet)')
    BY <1>2, <1>5, <1>8, <2>1, <2>2, BalanceGoes
  <2> QED
    BY <1>5, <2>3 DEF Balance
<1>10. Balance(counts.unencrypted, CleartextPackets, 10)'
  <2>1. counts.unencrypted + One(p \in CleartextPackets /\ Stages(s) \cap {0, 10} # {})
          = counts.unencrypted + One(p \in CleartextPackets /\ Left(w) \cap {0, 10} # {})
    BY <1>1, <1>4, <1>7 DEF One
  <2>2. counts.unencrypted + Cardinality(Owing(CleartextPackets, 10)')
          = Cardinality(ReceivedIn(CleartextPackets)')
    BY <1>2, <1>5, <1>6, <1>8, <2>1, BalanceGoes
  <2> QED
    BY <1>5, <2>2 DEF Balance
<1>11. Balance(counts.legacy, LegacyPackets, 10)'
  <2>1. counts.legacy + One(p \in LegacyPackets /\ Stages(s) \cap {0, 10} # {})
          = counts.legacy + One(p \in LegacyPackets /\ Left(w) \cap {0, 10} # {})
    BY <1>1, <1>4, <1>7 DEF One
  <2>2. counts.legacy + Cardinality(Owing(LegacyPackets, 10)')
          = Cardinality(ReceivedIn(LegacyPackets)')
    BY <1>2, <1>5, <1>6, <1>8, <2>1, BalanceGoes
  <2> QED
    BY <1>5, <2>2 DEF Balance
<1>12. IsFiniteSet(HostUnits') /\ Cardinality(HostUnits') = counts'.total
  <2> DEFINE f == [b \in DOMAIN hosts |-> ipPacketCounts[b]]
             g == [b \in DOMAIN hosts' |-> ipPacketCounts'[b]]
             u == <<a, g[a]>>
  <2>1. HostUnits = Units(f) /\ HostUnits' = Units(g)
    BY DEF HostUnits
  <2>2. DOMAIN f = DOMAIN hosts /\ DOMAIN g = DOMAIN f \cup {a}
    BY <1>1
  <2>3. \A b \in DOMAIN f : f[b] \in Nat /\ f[b] = ipPacketCounts[b]
    BY DEF HostsOK, StateOK
  <2>4. \A b \in DOMAIN f : b # a => g[b] = f[b]
    BY <1>1, <1>3, <2>3 DEF One
  <2>5. g[a] = (IF a \in DOMAIN f THEN f[a] ELSE 0) + 1
    BY <1>1, <1>3 DEF One
  <2> HIDE DEF f, g
  <2>6. Units(g) = Units(f) \cup {u} /\ u \notin Units(f)
    BY <2>2, <2>3, <2>4, <2>5, UnitsGrow
  <2>7. IsFiniteSet(Units(f)) /\ Cardinality(Units(f)) = counts.total
    BY <2>1 DEF Counting
  <2> HIDE DEF u
  <2>8. IsFiniteSet(Units(g)) /\ Cardinality(Units(g)) = counts.total + 1
    BY <2>6, <2>7, FS_AddElement
  <2> QED
    BY <1>5, <2>1, <2>8
<1>13. \A b \in DOMAIN hosts' : hosts'[b].packets = ipPacketCounts'[b]
  BY <1>3 DEF Counting
<1> QED
  BY <1>9, <1>10, <1>11, <1>12, <1>13 DEF Counting

LEMMA CountingByEvent ==
  ASSUME WorkersOK, HostsOK, Counting, NEW w \in Worker, ReportEvent(w)
  PROVE  Counting'
<1> DEFINE p == packet[w]
           s == Tail(todo[w])
           n == Stage(Head(todo[w]))
<1>1. /\ todo[w] # <<>> /\ Head(todo[w]).op # "RecordHostPacket" /\ Goes(w, s)
      /\ HostsOK'
  BY EventReported
<1>2. PICK category \in CategoriesOf(p) : n = EventStage(category) /\ EventEffect(w, category)
  BY EventReported
<1>3. /\ Left(w) = {n} \cup Stages(s) /\ n \in 1..12
      /\ \A m \in Stages(s) : n < m \/ (n = 9 /\ m = 9)
  BY <1>1, HeadMade
<1>4. /\ n = 10 <=> category \in {"CLEARTEXT_TRAFFIC", "LEGACY_NAME_RES"}
      /\ category = "CLEARTEXT_TRAFFIC" => IsCleartext(p) /\ ~IsLegacy(p)
      /\ category = "LEGACY_NAME_RES" => IsLegacy(p) /\ ~IsCleartext(p)
  BY <1>2, EventAtStage
<1> HIDE DEF s, n
<1>5. /\ 0 \notin Left(w) /\ 0 \notin Stages(s)
      /\ n = 10 => 10 \notin Stages(s)
      /\ 10 \in Left(w) <=> n = 10 \/ 10 \in Stages(s)
  BY <1>3
<1>6. /\ DOMAIN hosts' = DOMAIN hosts /\ ipPacketCounts' = ipPacketCounts
      /\ \A a \in DOMAIN hosts : hosts'[a].packets = hosts[a].packets
      /\ counts'.total = counts.total
      /\ counts'.unencrypted = counts.unencrypted + One(category = "CLEARTEXT_TRAFFIC")
      /\ counts'.legacy = counts.legacy + One(category = "LEGACY_NAME_RES")
  BY <1>2 DEF EventEffect
<1>7. /\ counts' \in Counters /\ counts.unencrypted \in Int /\ counts.legacy \in Int
  BY <1>1 DEF HostsOK, StateOK, Counters
<1>8. counts'.unencrypted + One(IsCleartext(p) /\ 10 \in Stages(s))
        = counts.unencrypted + One(IsCleartext(p) /\ 10 \in Left(w))
  BY <1>4, <1>5, <1>6, <1>7 DEF One
<1>9. counts'.legacy + One(IsLegacy(p) /\ 10 \in Stages(s))
        = counts.legacy + One(IsLegacy(p) /\ 10 \in Left(w))
  BY <1>4, <1>5, <1>6, <1>7 DEF One
<1> QED
  BY <1>1, <1>5, <1>6, <1>7, <1>8, <1>9, CountingByCall

(* The calls that log nothing.                                             *)
LEMMA CountingByOther ==
  ASSUME WorkersOK, HostsOK, Counting, NEW w \in Worker, NEW s, Goes(w, s),
         todo[w] # <<>>, 0 \notin Left(w), 0 \notin Stages(s),
         DOMAIN hosts' = DOMAIN hosts, ipPacketCounts' = ipPacketCounts,
         \A a \in DOMAIN hosts : hosts'[a].packets = hosts[a].packets,
         counts' \in Counters, counts'.total = counts.total,
         counts'.unencrypted = counts.unencrypted, counts'.legacy = counts.legacy,
         10 \in Stages(s) <=> 10 \in Left(w)
  PROVE  Counting'
<1>1. counts'.unencrypted + One(IsCleartext(packet[w]) /\ 10 \in Stages(s))
        = counts.unencrypted + One(IsCleartext(packet[w]) /\ 10 \in Left(w))
  BY DEF One
<1>2. counts'.legacy + One(IsLegacy(packet[w]) /\ 10 \in Stages(s))
        = counts.legacy + One(IsLegacy(packet[w]) /\ 10 \in Left(w))
  BY DEF One
<1> QED
  BY <1>1, <1>2, CountingByCall

-----------------------------------------------------------------------------
(* The packets of the flows.                                               *)
LEMMA FlowUnitsAreFinite ==
  ASSUME FlowsCounted, Cardinality(DOMAIN flows) < CT!maxFlows
  PROVE  /\ IsFiniteSet(FlowUnits) /\ Cardinality(FlowUnits) \in Int
         /\ Balance(Cardinality(FlowUnits), TransportPackets, 7)
         /\ TransportPackets \in SUBSET Packet
BY FS_CardinalityType DEF FlowsCounted, TransportPackets

LEMMA FlowsCountedByReceive ==
  ASSUME WorkersOK, FlowsCounted, NEW w \in Worker, NEW p \in Packet, Receive(w, p)
  PROVE  FlowsCounted'
<1>1. flows' = flows
  BY DEF Receive
<1>2. FlowUnits' = FlowUnits
  BY <1>1 DEF FlowUnits
<1>3. ASSUME Cardinality(DOMAIN flows) < CT!maxFlows
      PROVE  Balance(Cardinality(FlowUnits), TransportPackets, 7)'
  <2>1. Cardinality(FlowUnits) + Cardinality(Owing(TransportPackets, 7)')
          = Cardinality(ReceivedIn(TransportPackets)')
    BY <1>3, FlowUnitsAreFinite, BalanceReceives
  <2> QED
    BY <1>2, <2>1 DEF Balance
<1> QED
  BY <1>1, <1>2, <1>3 DEF FlowsCounted

LEMMA FlowsCountedByCall ==
  ASSUME WorkersOK, FlowsCounted, NEW w \in Worker, NEW s, Goes(w, s), todo[w] # <<>>,
         flows' = flows,
         IsTransport(packet[w]) =>
           (Stages(s) \cap {0, 7} # {} <=> Left(w) \cap {0, 7} # {})
  PROVE  FlowsCounted'
<1>1. FlowUnits' = FlowUnits
  BY DEF FlowUnits
<1>2. One(packet[w] \in TransportPackets /\ Stages(s) \cap {0, 7} # {})
        = One(packet[w] \in TransportPackets /\ Left(w) \cap {0, 7} # {})
  BY DEF One, TransportPackets
<1>3. ASSUME Cardinality(DOMAIN flows) < CT!maxFlows
      PROVE  Balance(Cardinality(FlowUnits), TransportPackets, 7)'
  <2> DEFINE count == Cardinality(FlowUnits)
  <2>1. count \in Int /\ Balance(count, TransportPackets, 7)
        /\ TransportPackets \in SUBSET Packet
    BY <1>3, FlowUnitsAreFinite
  <2> HIDE DEF count
  <2>2. count + One(packet[w] \in TransportPackets /\ Stages(s) \cap {0, 7} # {})
          = count + One(packet[w] \in TransportPackets /\ Left(w) \cap {0, 7} # {})
    BY <1>2
  <2>3. count + Cardinality(Owing(TransportPackets, 7)')
          = Cardinality(ReceivedIn(TransportPackets)')
    BY <2>1, <2>2, BalanceGoes
  <2> QED
    BY <1>1, <2>3 DEF Balance, count
<1> QED
  BY <1>1, <1>3 DEF FlowsCounted

(* RecordPacket adds one packet to one flow, unless the table is full; and *)
(* a full table stays full.                                                *)
LEMMA FlowRecorded ==
  ASSUME FlowsCounted, NEW w \in Worker, TrackFlow(w)
  PROVE  \E key :
           /\ IsFiniteSet(DOMAIN flows')
           /\ \A k \in DOMAIN flows' :
                flows'[k].packets \in Nat /\ flows'[k].lastSeen = 0
           /\ Cardinality(DOMAIN flows') < CT!maxFlows =>
                /\ Cardinality(DOMAIN flows) < CT!maxFlows
                /\ DOMAIN flows' = DOMAIN flows \cup {key}
                /\ \A k \in DOMAIN flows : k # key => flows'[k] = flows[k]
                /\ flows'[key].packets =
                     (IF key \in DOMAIN flows THEN flows[key].packets ELSE 0) + 1
<1> DEFINE p == packet[w]
           key == CT!CanonicalizeKey(p.src, p.dst, p.sport, p.dport, p.layer)
           D == DOMAIN flows
<1>1. CT!CreateFlow(key, p.flags) \/ CT!UpdateFlow(key, p.flags)
  BY DEF TrackFlow, CT!RecordPacket
<1> HIDE DEF key, p
<1>2. IsFiniteSet(D) /\ \A k \in D : flows[k].packets \in Nat /\ flows[k].lastSeen = 0
  BY DEF FlowsCounted
<1>3. CT!maxFlows \in Nat /\ Cardinality(D) \in Nat
  BY <1>2, PacketAuditAssumption, FS_CardinalityType DEF CT!maxFlows
<1>4. CASE CT!CreateFlow(key, p.flags)
  <2> DEFINE new == CT!NewFlow(key.protocol, p.flags)
  <2>1. key \notin D
    BY <1>4 DEF CT!CreateFlow
  <2>2. PICK kept \in CT!MakeRoom :
          flows' = [k \in kept \cup {key} |-> IF k = key THEN new ELSE flows[k]]
    BY <1>4 DEF CT!CreateFlow
  <2>3. new.packets = 1 /\ new.lastSeen = 0
    BY DEF CT!NewFlow
  <2> HIDE DEF new, D
  <2>0. CT!Cardinality(D) = Cardinality(D)
    BY DEF CT!Cardinality, Cardinality
  <2>4. /\ kept \subseteq D
        /\ Cardinality(D) < CT!maxFlows => kept = D
        /\ ~(Cardinality(D) < CT!maxFlows) => Cardinality(kept) + 1 = Cardinality(D)
    <3>1. CASE Cardinality(D) < CT!maxFlows
      BY <2>0, <2>2, <3>1 DEF CT!MakeRoom, D
    <3>2. CASE ~(Cardinality(D) < CT!maxFlows)
      <4>1. CT!FreshKeys = D
        <5>1. CT!flowTimeout = 30
          BY DEF CT!flowTimeout
        <5>2. \A k \in D : ~CT!Stale(k)
          BY <1>2, <5>1 DEF CT!Stale
        <5> QED
          BY <5>2 DEF CT!FreshKeys, D
      <4>2. kept \in {D \ {k} : k \in CT!OldestOf(D)}
        BY <2>0, <2>2, <3>2, <4>1 DEF CT!MakeRoom, D
      <4>3. PICK k \in D : kept = D \ {k}
        BY <4>2 DEF CT!OldestOf
      <4>4. Cardinality(kept) = Cardinality(D) - 1
        BY <1>2, <4>3, FS_RemoveElement DEF D
      <4> QED
        BY <1>3, <3>2, <4>3, <4>4 DEF D
    <3> QED
      BY <3>1, <3>2
  <2>5. DOMAIN flows' = kept \cup {key} /\ flows'[key] = new
        /\ \A k \in kept : flows'[k] = flows[k]
    BY <2>1, <2>2, <2>4
  <2>6. IsFiniteSet(kept)
    BY <1>2, <2>4, FS_Subset DEF D
  <2>7. IsFiniteSet(DOMAIN flows') /\ Cardinality(DOMAIN flows') = Cardinality(kept) + 1
    BY <2>1, <2>4, <2>5, <2>6, FS_AddElement
  <2>8. ASSUME Cardinality(DOMAIN flows') < CT!maxFlows
        PROVE  Cardinality(D) < CT!maxFlows /\ kept = D
    BY <1>3, <2>4, <2>7, <2>8 DEF D
  <2>9. \A k \in DOMAIN flows' : flows'[k].packets \in Nat /\ flows'[k].lastSeen = 0
    BY <1>2, <2>3, <2>4, <2>5 DEF D
  <2>10. Cardinality(DOMAIN flows') < CT!maxFlows =>
           /\ Cardinality(DOMAIN flows) < CT!maxFlows
           /\ DOMAIN flows' = DOMAIN flows \cup {key}
           /\ \A k \in DOMAIN flows : k # key => flows'[k] = flows[k]
           /\ flows'[key].packets =
                (IF key \in DOMAIN flows THEN flows[key].packets ELSE 0) + 1
    BY <2>1, <2>3, <2>5, <2>8 DEF D
  <2> QED
    BY <2>7, <2>9, <2>10
<1>5. CASE CT!UpdateFlow(key, p.flags)
  <2> DEFINE new == CT!UpdatedFlow(flows[key], key.protocol, p.flags)
  <2>1. key \in D /\ flows' = [flows EXCEPT ![key] = new]
    BY <1>5 DEF CT!UpdateFlow
  <2>2. new.packets = flows[key].packets + 1 /\ new.lastSeen = 0
    BY DEF CT!UpdatedFlow
  <2> HIDE DEF new
  <2>3. /\ DOMAIN flows' = D /\ flows'[key] = new
        /\ \A k \in D : k # key => flows'[k] = flows[k]
    BY <2>1
  <2>4. \A k \in D : flows'[k].packets \in Nat /\ flows'[k].lastSeen = 0
    BY <1>2, <2>1, <2>2, <2>3
  <2>5. D \cup {key} = D
    BY <2>1
  <2> QED
    BY <1>2, <2>1, <2>2, <2>3, <2>4, <2>5
<1> QED
  BY <1>1, <1>4, <1>5

LEMMA FlowsCountedByUpdateHost ==
  ASSUME WorkersOK, HostsOK, FlowsCounted, NEW w \in Worker, UpdateHost(w)
  PROVE  FlowsCounted'
<1> DEFINE p == packet[w]
           isNew == p.src \notin DOMAIN hosts
           s == RestOf(p, isNew)
<1>1. /\ p \in Packet /\ todo[w] = <<HostCall>> /\ Left(w) = {0} /\ Goes(w, s)
  BY HostGoes DEF HostsOK, StateOK
<1>2. todo[w] # <<>> /\ Goes(w, s) /\ flows' = flows
  BY <1>1 DEF UpdateHost
<1>3. 7 \in Stages(s) <=> IsTransport(p)
  <2>1. isNew \in BOOLEAN
    OBVIOUS
  <2> HIDE DEF isNew
  <2> QED
    BY <1>1, <2>1, RestIsLegal
<1> HIDE DEF s
<1>4. IsTransport(p) => (Stages(s) \cap {0, 7} # {} <=> Left(w) \cap {0, 7} # {})
  BY <1>1, <1>3
<1> QED
  BY <1>2, <1>4, FlowsCountedByCall

LEMMA FlowsCountedByTrack ==
  ASSUME WorkersOK, FlowsCounted, NEW w \in Worker, TrackFlow(w), Goes(w, Tail(todo[w]))
  PROVE  FlowsCounted'
<1> DEFINE p == packet[w]
           s == Tail(todo[w])
           c == Head(todo[w])
<1>1. todo[w] # <<>> /\ c.op = "RecordPacket"
  BY DEF TrackFlow, NextCallIs
<1>2. c \in CallsOf(p) /\ p \in Packet
  BY <1>1, NextCall
<1>3. Stage(c) = 7 /\ IsTransport(p)
  BY <1>1, <1>2, OthersCalled, FlowCalled
<1>4. Left(w) = {7} \cup Stages(s) /\ Stages(s) \subseteq 1..12 /\ \A m \in Stages(s) : 7 < m
  <2>1. todo[w] # <<>> /\ c.op # "RecordHostPacket"
    BY <1>1
  <2>2. /\ Left(w) = {Stage(c)} \cup Stages(s) /\ Stages(s) \subseteq 1..12
        /\ \A m \in Stages(s) : Stage(c) < m \/ (Stage(c) = 9 /\ m = 9)
    BY <2>1, HeadMade
  <2> QED
    BY <1>3, <2>2
<1> HIDE DEF s, c
<1>5. Stages(s) \cap {0, 7} = {} /\ Left(w) \cap {0, 7} # {}
  BY <1>4
<1>6. PICK key :
        /\ IsFiniteSet(DOMAIN flows')
        /\ \A k \in DOMAIN flows' :
             flows'[k].packets \in Nat /\ flows'[k].lastSeen = 0
        /\ Cardinality(DOMAIN flows') < CT!maxFlows =>
             /\ Cardinality(DOMAIN flows) < CT!maxFlows
             /\ DOMAIN flows' = DOMAIN flows \cup {key}
             /\ \A k \in DOMAIN flows : k # key => flows'[k] = flows[k]
             /\ flows'[key].packets =
                  (IF key \in DOMAIN flows THEN flows[key].packets ELSE 0) + 1
  BY FlowRecorded
<1>7. ASSUME Cardinality(DOMAIN flows') < CT!maxFlows
      PROVE  IsFiniteSet(FlowUnits') /\ Balance(Cardinality(FlowUnits), TransportPackets, 7)'
  <2> DEFINE f == [k \in DOMAIN flows |-> flows[k].packets]
             g == [k \in DOMAIN flows' |-> flows'[k].packets]
             u == <<key, g[key]>>
             count == Cardinality(FlowUnits)
  <2>1. FlowUnits = Units(f) /\ FlowUnits' = Units(g)
    BY DEF FlowUnits
  <2>2. DOMAIN g = DOMAIN f \cup {key}
    BY <1>6, <1>7
  <2>3. \A k \in DOMAIN f : f[k] \in Nat /\ (k # key => g[k] = f[k])
    BY <1>6, <1>7 DEF FlowsCounted
  <2>4. g[key] = (IF key \in DOMAIN f THEN f[key] ELSE 0) + 1
    BY <1>6, <1>7
  <2> HIDE DEF f, g
  <2>5. Units(g) = Units(f) \cup {u} /\ u \notin Units(f)
    BY <2>2, <2>3, <2>4, UnitsGrow
  <2>6. /\ IsFiniteSet(FlowUnits) /\ count \in Int
        /\ Balance(count, TransportPackets, 7) /\ TransportPackets \in SUBSET Packet
    BY <1>6, <1>7, FlowUnitsAreFinite
  <2> HIDE DEF u
  <2>7. IsFiniteSet(FlowUnits') /\ Cardinality(FlowUnits') = count + 1
    BY <2>1, <2>5, <2>6, FS_AddElement
  <2>8. p \in TransportPackets
    BY <1>2, <1>3 DEF TransportPackets
  <2> HIDE DEF count
  <2>9. (count + 1) + One(p \in TransportPackets /\ Stages(s) \cap {0, 7} # {})
          = count + One(p \in TransportPackets /\ Left(w) \cap {0, 7} # {})
    BY <1>5, <2>6, <2>8 DEF One
  <2>10. count + 1 \in Int /\ todo[w] # <<>> /\ Goes(w, s)
    BY <1>1, <2>6 DEF s
  <2>11. (count + 1) + Cardinality(Owing(TransportPackets, 7)')
           = Cardinality(ReceivedIn(TransportPackets)')
    BY <2>6, <2>9, <2>10, BalanceGoes
  <2> QED
    BY <2>7, <2>11 DEF Balance
<1> QED
  BY <1>6, <1>7 DEF FlowsCounted

-----------------------------------------------------------------------------
(* The counter of the anomalies.                                           *)
LEMMA PlaceInFinding ==
  ASSUME WorkersOK, NEW w \in Worker,
         \A v \in Worker \ {w} : todo'[v] = todo[v]
  PROVE  /\ Ahead \ {w} = Ahead' \ {w} /\ Behind \ {w} = Behind' \ {w}
         /\ IsFiniteSet(Ahead) /\ IsFiniteSet(Behind)
         /\ Ahead \cap Behind = {} /\ Ahead' \cap Behind' = {}
         /\ w \in Ahead \cup Behind <=> ~Fresh(todo[w])
         /\ w \in Ahead' \cup Behind' <=> ~Fresh(todo'[w])
<1>1. Ahead \subseteq Worker /\ Behind \subseteq Worker /\ IsFiniteSet(Worker)
  BY PacketAuditAssumption DEF Ahead, Behind
<1>2. IsFiniteSet(Ahead) /\ IsFiniteSet(Behind)
  BY <1>1, FS_Subset
<1>3. Ahead \ {w} = Ahead' \ {w} /\ Behind \ {w} = Behind' \ {w}
  BY DEF Ahead, Behind
<1>4. Ahead \cap Behind = {} /\ Ahead' \cap Behind' = {}
  BY DEF Ahead, Behind
<1>5. /\ w \in Ahead \cup Behind <=> ~Fresh(todo[w])
      /\ w \in Ahead' \cup Behind' <=> ~Fresh(todo'[w])
  BY DEF Ahead, Behind, Fresh, Second
<1> QED
  BY <1>2, <1>3, <1>4, <1>5

LEMMA SumsOfFindings ==
  ASSUME NEW n \in Int, NEW n2 \in Int, NEW u \in Int, NEW u2 \in Int,
         NEW l \in Int, NEW l2 \in Int, NEW t \in Int, NEW t2 \in Int,
         NEW A \in Int, NEW A2 \in Int, NEW B \in Int, NEW B2 \in Int,
         NEW a \in Int, NEW a2 \in Int, NEW b \in Int, NEW b2 \in Int,
         A2 + a = A + a2, B2 + b = B + b2,
         n + B = u + l + 2 * t + A,
         n2 + b2 + u + l + 2 * t + a = n + b + u2 + l2 + 2 * t2 + a2
  PROVE  n2 + B2 = u2 + l2 + 2 * t2 + A2
OBVIOUS

LEMMA AnomaliesBalance ==
  ASSUME WorkersOK, AnomaliesCounted, NEW w \in Worker,
         \A v \in Worker \ {w} : todo'[v] = todo[v],
         counts \in Counters, counts' \in Counters,
         IsFiniteSet(TwiceCounted), IsFiniteSet(TwiceCounted'),
         eventIDSeq' <= maxEvents =>
           /\ eventIDSeq <= maxEvents
           /\ counts'.anomalies + One(w \in Behind') + counts.unencrypted + counts.legacy
                + 2 * Cardinality(TwiceCounted) + One(w \in Ahead)
              = counts.anomalies + One(w \in Behind) + counts'.unencrypted + counts'.legacy
                + 2 * Cardinality(TwiceCounted') + One(w \in Ahead')
  PROVE  AnomaliesCounted'
<1> DEFINE A == Ahead
           B == Behind
           A2 == Ahead'
           B2 == Behind'
           t == Cardinality(TwiceCounted)
           t2 == Cardinality(TwiceCounted')
<1>1. A \ {w} = A2 \ {w} /\ B \ {w} = B2 \ {w} /\ IsFiniteSet(A) /\ IsFiniteSet(B)
  BY PlaceInFinding
<1> HIDE DEF A, B, A2, B2
<1>2. /\ Cardinality(A) \in Nat /\ Cardinality(A2) \in Nat
      /\ Cardinality(A2) + One(w \in A) = Cardinality(A) + One(w \in A2)
  BY <1>1, OneElement
<1>3. /\ Cardinality(B) \in Nat /\ Cardinality(B2) \in Nat
      /\ Cardinality(B2) + One(w \in B) = Cardinality(B) + One(w \in B2)
  BY <1>1, OneElement
<1>4. t \in Nat /\ t2 \in Nat
  BY FS_CardinalityType
<1>5. /\ counts.anomalies \in Nat /\ counts.unencrypted \in Nat /\ counts.legacy \in Nat
      /\ counts'.anomalies \in Nat /\ counts'.unencrypted \in Nat /\ counts'.legacy \in Nat
  BY DEF Counters
<1>6. /\ One(w \in A) \in Nat /\ One(w \in A2) \in Nat
      /\ One(w \in B) \in Nat /\ One(w \in B2) \in Nat
  BY DEF One
<1>7. SUFFICES ASSUME eventIDSeq' <= maxEvents
               PROVE  counts'.anomalies + Cardinality(B2)
                        = counts'.unencrypted + counts'.legacy + 2 * t2 + Cardinality(A2)
  BY DEF AnomaliesCounted, A2, B2, maxEvents
<1>8. counts.anomalies + Cardinality(B)
        = counts.unencrypted + counts.legacy + 2 * t + Cardinality(A)
  BY <1>7 DEF AnomaliesCounted, A, B
<1>9. counts'.anomalies + One(w \in B2) + counts.unencrypted + counts.legacy
        + 2 * t + One(w \in A)
      = counts.anomalies + One(w \in B) + counts'.unencrypted + counts'.legacy
        + 2 * t2 + One(w \in A2)
  BY <1>7 DEF A, B, A2, B2
<1> HIDE DEF t, t2
<1> DEFINE CA == Cardinality(A)
           CA2 == Cardinality(A2)
           CB == Cardinality(B)
           CB2 == Cardinality(B2)
           a == One(w \in A)
           a2 == One(w \in A2)
           b == One(w \in B)
           b2 == One(w \in B2)
           n == counts.anomalies
           n2 == counts'.anomalies
           u == counts.unencrypted
           u2 == counts'.unencrypted
           l == counts.legacy
           l2 == counts'.legacy
<1>10. /\ CA \in Int /\ CA2 \in Int /\ CB \in Int /\ CB2 \in Int /\ t \in Int /\ t2 \in Int
       /\ a \in Int /\ a2 \in Int /\ b \in Int /\ b2 \in Int
       /\ n \in Int /\ n2 \in Int /\ u \in Int /\ u2 \in Int /\ l \in Int /\ l2 \in Int
  BY <1>2, <1>3, <1>4, <1>5, <1>6
<1>11. /\ CA2 + a = CA + a2 /\ CB2 + b = CB + b2
       /\ n + CB = u + l + 2 * t + CA
       /\ n2 + b2 + u + l + 2 * t + a = n + b + u2 + l2 + 2 * t2 + a2
  BY <1>2, <1>3, <1>8, <1>9
<1>12. n2 + CB2 = u2 + l2 + 2 * t2 + CA2
  <2> HIDE DEF CA, CA2, CB, CB2, a, a2, b, b2, n, n2, u, u2, l, l2
  <2> QED
    BY ONLY <1>10, <1>11, SumsOfFindings
<1> QED
  BY <1>12

LEMMA PlacesAreFinite ==
  ASSUME NEW E, NEW s \in Seq(E), NEW S, S \subseteq DOMAIN s
  PROVE  IsFiniteSet(S)
<1>1. DOMAIN s = 1..Len(s) /\ Len(s) \in Nat
  OBVIOUS
<1>2. IsFiniteSet(1..Len(s))
  BY <1>1, FS_Interval
<1> QED
  BY <1>1, <1>2, FS_Subset

LEMMA TwiceCountedIsFinite ==
  /\ HostsOK => IsFiniteSet(TwiceCounted)
  /\ HostsOK' => IsFiniteSet(TwiceCounted')
<1>1. TwiceCounted \subseteq DOMAIN events /\ TwiceCounted' \subseteq DOMAIN events'
  BY DEF TwiceCounted, Logged
<1> QED
  BY <1>1, PlacesAreFinite DEF HostsOK, StateOK

(* A step outside the findings.                                            *)
LEMMA AnomaliesCountedByOther ==
  ASSUME WorkersOK, HostsOK, AnomaliesCounted, NEW w \in Worker,
         \A v \in Worker \ {w} : todo'[v] = todo[v],
         Fresh(todo[w]), Fresh(todo'[w]),
         counts' \in Counters, counts'.anomalies = counts.anomalies,
         counts'.unencrypted = counts.unencrypted, counts'.legacy = counts.legacy,
         events' = events, eventIDSeq' = eventIDSeq
  PROVE  AnomaliesCounted'
<1>1. w \notin Ahead /\ w \notin Behind /\ w \notin Ahead' /\ w \notin Behind'
  BY PlaceInFinding
<1>2. TwiceCounted' = TwiceCounted
  BY DEF TwiceCounted, Logged
<1>3. IsFiniteSet(TwiceCounted)
  BY TwiceCountedIsFinite
<1>4. counts \in Counters
  BY DEF HostsOK, StateOK
<1>5. Cardinality(TwiceCounted) \in Nat
  BY <1>3, FS_CardinalityType
<1> DEFINE t == Cardinality(TwiceCounted)
<1>6. counts'.anomalies + One(w \in Behind') + counts.unencrypted + counts.legacy
        + 2 * t + One(w \in Ahead)
      = counts.anomalies + One(w \in Behind) + counts'.unencrypted + counts'.legacy
        + 2 * t + One(w \in Ahead')
  <2> HIDE DEF t
  <2> QED
    BY <1>1, <1>4, <1>5 DEF One, Counters, t
<1> QED
  BY <1>2, <1>3, <1>4, <1>6, AnomaliesBalance

(* A call at the head, in a finding or outside one.                        *)
LEMMA FindingGoes ==
  ASSUME WorkersOK, NEW w \in Worker, todo[w] # <<>>,
         Head(todo[w]).op # "RecordHostPacket", Goes(w, Tail(todo[w]))
  PROVE  LET n == Stage(Head(todo[w]))
         IN  /\ \A v \in Worker \ {w} : todo'[v] = todo[v]
             /\ w \in Ahead <=> n \in {3, 6}
             /\ w \in Behind <=> n = 11
             /\ w \in Ahead' <=> n \in {2, 5}
             /\ w \in Behind' <=> n = 10
             /\ n \in 1..12
<1> DEFINE s == Tail(todo[w])
           n == Stage(Head(todo[w]))
<1>1. /\ n \in First => s # <<>> /\ Stage(Head(s)) = n + 1
      /\ s # <<>> /\ Stage(Head(s)) \in Second => n = Stage(Head(s)) - 1
  BY NextCall
<1>2. todo'[w] = s /\ \A v \in Worker \ {w} : todo'[v] = todo[v]
  BY GoesOn
<1>3. n \in 1..12
  BY HeadMade
<1>4. /\ w \in Ahead <=> n \in {3, 6}
      /\ w \in Behind <=> n = 11
  BY DEF Ahead, Behind
<1>5. /\ w \in Ahead' <=> s # <<>> /\ Stage(Head(s)) \in {3, 6}
      /\ w \in Behind' <=> s # <<>> /\ Stage(Head(s)) = 11
  BY <1>2 DEF Ahead, Behind
<1> HIDE DEF s, n
<1>6. /\ w \in Ahead' <=> n \in {2, 5}
      /\ w \in Behind' <=> n = 10
  BY <1>1, <1>3, <1>5 DEF First, Second
<1> QED
  BY <1>2, <1>3, <1>4, <1>6 DEF n

LEMMA AnomaliesCountedByIndicator ==
  ASSUME WorkersOK, HostsOK, AnomaliesCounted, NEW w \in Worker, ReportAnomaly(w)
  PROVE  AnomaliesCounted'
<1> DEFINE n == Stage(Head(todo[w]))
           t == Cardinality(TwiceCounted)
<1>1. /\ todo[w] # <<>> /\ Head(todo[w]).op # "RecordHostPacket"
      /\ Goes(w, Tail(todo[w])) /\ HostsOK'
  BY IndicatorReported
<1>2. PICK kind \in KindsOf(packet[w]), m \in TTL :
        n = IndicatorStage(kind) /\ IndicatorEffect(w, kind, m)
  BY IndicatorReported
<1>3. n \in {2, 5, 11}
  BY <1>2, IndicatorAtStage
<1>4. /\ \A v \in Worker \ {w} : todo'[v] = todo[v]
      /\ w \in Ahead <=> n \in {3, 6}
      /\ w \in Behind <=> n = 11
      /\ w \in Ahead' <=> n \in {2, 5}
      /\ w \in Behind' <=> n = 10
  BY <1>1, FindingGoes
<1>5. /\ counts' = [counts EXCEPT !.anomalies = @ + 1]
      /\ events' = events /\ eventIDSeq' = eventIDSeq
  BY <1>2 DEF IndicatorEffect
<1>6. counts \in Counters /\ counts' \in Counters
  BY <1>1 DEF HostsOK, StateOK
<1>7. /\ counts'.anomalies = counts.anomalies + 1
      /\ counts'.unencrypted = counts.unencrypted /\ counts'.legacy = counts.legacy
      /\ counts.anomalies \in Nat /\ counts.unencrypted \in Nat /\ counts.legacy \in Nat
  BY <1>5, <1>6 DEF Counters
<1>8. IsFiniteSet(TwiceCounted) /\ TwiceCounted' = TwiceCounted
  BY <1>5, TwiceCountedIsFinite DEF TwiceCounted, Logged
<1>9. t \in Nat
  BY <1>8, FS_CardinalityType
<1> HIDE DEF n
<1>10. One(w \in Behind') + One(w \in Ahead) + 1 = One(w \in Behind) + One(w \in Ahead')
  BY <1>3, <1>4 DEF One
<1>11. /\ One(w \in Behind') \in Nat /\ One(w \in Ahead) \in Nat
       /\ One(w \in Behind) \in Nat /\ One(w \in Ahead') \in Nat
  BY DEF One
<1>12. counts'.anomalies + One(w \in Behind') + counts.unencrypted + counts.legacy
         + 2 * t + One(w \in Ahead)
       = counts.anomalies + One(w \in Behind) + counts'.unencrypted + counts'.legacy
         + 2 * t + One(w \in Ahead')
  <2> HIDE DEF t
  <2> QED
    BY ONLY <1>7, <1>9, <1>10, <1>11
<1> QED
  BY <1>4, <1>5, <1>6, <1>8, <1>12, AnomaliesBalance

LEMMA AnomaliesCountedByEvent ==
  ASSUME WorkersOK, HostsOK, AnomaliesCounted, NEW w \in Worker, ReportEvent(w)
  PROVE  AnomaliesCounted'
<1> DEFINE n == Stage(Head(todo[w]))
           t == Cardinality(TwiceCounted)
           t2 == Cardinality(TwiceCounted')
           Twice == {"TTL_HOP_INDICATOR", "HARDWARE_OS_DISCREPANCY"}
<1>1. /\ todo[w] # <<>> /\ Head(todo[w]).op # "RecordHostPacket"
      /\ Goes(w, Tail(todo[w])) /\ HostsOK'
  BY EventReported
<1>2. PICK category \in CategoriesOf(packet[w]) :
        n = EventStage(category) /\ EventEffect(w, category)
  BY EventReported
<1>3. /\ n \in {1, 3, 6, 9, 10}
      /\ category \in Twice <=> n \in {3, 6}
      /\ category \in {"CLEARTEXT_TRAFFIC", "LEGACY_NAME_RES"} <=> n = 10
  BY <1>2, EventAtStage
<1>4. /\ \A v \in Worker \ {w} : todo'[v] = todo[v]
      /\ w \in Ahead <=> n \in {3, 6}
      /\ w \in Behind <=> n = 11
      /\ w \in Ahead' <=> n \in {2, 5}
      /\ w \in Behind' <=> n = 10
  BY <1>1, FindingGoes
<1>5. /\ counts'.unencrypted = counts.unencrypted + One(category = "CLEARTEXT_TRAFFIC")
      /\ counts'.legacy = counts.legacy + One(category = "LEGACY_NAME_RES")
      /\ counts'.anomalies = counts.anomalies + One(category \in Twice)
  BY <1>2 DEF EventEffect
<1>6. counts \in Counters /\ counts' \in Counters
  BY <1>1 DEF HostsOK, StateOK
<1>7. IsFiniteSet(TwiceCounted) /\ IsFiniteSet(TwiceCounted')
  BY <1>1, TwiceCountedIsFinite
<1>8. t \in Nat /\ t2 \in Nat
  BY <1>7, FS_CardinalityType
<1>9. ASSUME eventIDSeq' <= maxEvents
      PROVE  eventIDSeq <= maxEvents /\ t2 = t + One(category \in Twice)
  <2> DEFINE a == packet[w].src
             e == Event(a, category, SeverityOf(category))
             k == Len(events) + 1
             T == TwiceCounted
             T2 == TwiceCounted'
  <2>1. /\ eventIDSeq <= maxEvents
        /\ events' = Append(events, [id |-> eventIDSeq + 1, event |-> e])
    BY <1>2, <1>9 DEF EventEffect
  <2>2. Len(events) \in Nat /\ DOMAIN events = 1..Len(events)
    BY DEF HostsOK, StateOK
  <2>3. /\ DOMAIN events' = 1..k /\ events'[k].event.category = category
        /\ \A i \in 1..Len(events) : events'[i] = events[i]
    BY <2>1, <2>2 DEF Event, HostsOK, StateOK
  <2>4. \A i : i \in 1..k <=> i \in 1..Len(events) \/ i = k
    BY <2>2
  <2>5. k \notin 1..Len(events)
    BY <2>2
  <2>6. T = {i \in 1..Len(events) : events[i].event.category \in Twice}
    BY <2>2 DEF TwiceCounted, Logged
  <2>7. T2 = {i \in 1..k : events'[i].event.category \in Twice}
    BY <2>3 DEF TwiceCounted, Logged
  <2> HIDE DEF T, T2, k
  <2>8. k \notin T /\ T2 \ {k} = T \ {k} /\ (k \in T2 <=> category \in Twice)
    BY <2>3, <2>4, <2>5, <2>6, <2>7
  <2>9. /\ Cardinality(T) \in Nat /\ Cardinality(T2) \in Nat
        /\ Cardinality(T2) + One(k \in T) = Cardinality(T) + One(k \in T2)
    BY <1>7, <2>8, OneElement DEF T
  <2>10. Cardinality(T2) = Cardinality(T) + One(category \in Twice)
    BY <2>8, <2>9 DEF One
  <2> QED
    BY <2>1, <2>10 DEF T, T2
<1> HIDE DEF n, t, t2
<1>10. One(w \in Behind') + One(w \in Ahead) + One(category \in Twice)
         = One(category = "CLEARTEXT_TRAFFIC") + One(category = "LEGACY_NAME_RES")
           + 2 * One(category \in Twice) + One(w \in Behind) + One(w \in Ahead')
  BY <1>3, <1>4 DEF One
<1>11. \A b \in BOOLEAN : One(b) \in Nat
  BY DEF One
<1>12. /\ counts.anomalies \in Nat /\ counts.unencrypted \in Nat /\ counts.legacy \in Nat
  BY <1>6 DEF Counters
<1>13. ASSUME eventIDSeq' <= maxEvents
       PROVE  counts'.anomalies + One(w \in Behind') + counts.unencrypted + counts.legacy
                + 2 * t + One(w \in Ahead)
              = counts.anomalies + One(w \in Behind) + counts'.unencrypted + counts'.legacy
                + 2 * t2 + One(w \in Ahead')
  <2> DEFINE b1 == One(w \in Behind')
             b2 == One(w \in Ahead)
             b3 == One(category \in Twice)
             b4 == One(category = "CLEARTEXT_TRAFFIC")
             b5 == One(category = "LEGACY_NAME_RES")
             b6 == One(w \in Behind)
             b7 == One(w \in Ahead')
  <2>1. /\ b1 \in Nat /\ b2 \in Nat /\ b3 \in Nat /\ b4 \in Nat /\ b5 \in Nat
        /\ b6 \in Nat /\ b7 \in Nat
    BY DEF One
  <2>2. b1 + b2 + b3 = b4 + b5 + 2 * b3 + b6 + b7
    BY <1>10
  <2>3. t2 = t + b3
    BY <1>9, <1>13
  <2>4. /\ counts'.anomalies = counts.anomalies + b3
        /\ counts'.unencrypted = counts.unencrypted + b4
        /\ counts'.legacy = counts.legacy + b5
    BY <1>5
  <2> HIDE DEF b1, b2, b3, b4, b5, b6, b7
  <2>5. counts'.anomalies + b1 + counts.unencrypted + counts.legacy + 2 * t + b2
        = counts.anomalies + b6 + counts'.unencrypted + counts'.legacy + 2 * t2 + b7
    BY ONLY <2>1, <2>2, <2>3, <2>4, <1>8, <1>12
  <2> QED
    BY <2>5 DEF b1, b2, b6, b7
<1> QED
  BY <1>4, <1>6, <1>7, <1>9, <1>13, AnomaliesBalance DEF t, t2

-----------------------------------------------------------------------------
(* The steps, one by one.                                                  *)
LEMMA HostsUnchanged ==
  ASSUME HostsOK, hosts' = hosts, ipPacketCounts' = ipPacketCounts, counts' = counts,
         events' = events, eventIDSeq' = eventIDSeq
  PROVE  HostsOK'
<1>1. StateOK'
  BY DEF HostsOK, StateOK
<1>2. RingComplete'
  BY DEF HostsOK, RingComplete, maxEvents
<1>3. FingerprintIsCurrent' /\ IndicatorsOnce'
  BY DEF HostsOK, FingerprintIsCurrent, IndicatorsOnce
<1> QED
  BY <1>1, <1>2, <1>3 DEF HostsOK

(* Nothing changes but the holder of s.mu.                                 *)
LEMMA SameButLock ==
  ASSUME WorkersOK, HostsOK, StatusReasoned, Announced, Counting, FlowsCounted,
         AnomaliesCounted, UNCHANGED <<nsvars, flows, packet, todo, taken>>
  PROVE  /\ HostsOK' /\ StatusReasoned' /\ Announced' /\ Counting' /\ FlowsCounted'
         /\ AnomaliesCounted'
<1>1. /\ hosts' = hosts /\ ipPacketCounts' = ipPacketCounts /\ counts' = counts
      /\ events' = events /\ eventIDSeq' = eventIDSeq
      /\ flows' = flows /\ packet' = packet /\ todo' = todo /\ taken' = taken
  BY DEF nsvars
<1>2. HostsOK'
  BY <1>1, HostsUnchanged
<1>3. \A v : Left(v)' = Left(v)
  BY <1>1 DEF Left
<1>4. StatusReasoned'
  BY <1>1, <1>3 DEF StatusReasoned, Reasoned, Listed, WillList
<1>5. Announced'
  <2>1. \A a : News(a)' = News(a) /\ Announcing(a)' = Announcing(a)
    BY <1>1, <1>3 DEF News, Announcing
  <2> QED
    BY <1>1, <2>1 DEF Announced, maxEvents
<1>6. \A S, n : Owing(S, n)' = Owing(S, n) /\ ReceivedIn(S)' = ReceivedIn(S)
  BY <1>1, <1>3 DEF Owing, ReceivedIn
<1>7. Counting'
  <2>1. HostUnits' = HostUnits
    BY <1>1 DEF HostUnits
  <2> QED
    BY <1>1, <1>6, <2>1 DEF Counting, Balance
<1>8. FlowsCounted'
  <2>1. FlowUnits' = FlowUnits
    BY <1>1 DEF FlowUnits
  <2> QED
    BY <1>1, <1>6, <2>1 DEF FlowsCounted, Balance
<1>9. AnomaliesCounted'
  <2>1. Ahead' = Ahead /\ Behind' = Behind /\ TwiceCounted' = TwiceCounted
    BY <1>1 DEF Ahead, Behind, TwiceCounted, Logged
  <2> QED
    BY <1>1, <2>1 DEF AnomaliesCounted, maxEvents
<1> QED
  BY <1>2, <1>4, <1>5, <1>7, <1>8, <1>9

(* A call that leaves the hosts, the log and the counters alone.           *)
LEMMA QuietCall ==
  ASSUME WorkersOK, HostsOK, StatusReasoned, Announced, Counting, AnomaliesCounted,
         NEW w \in Worker, NEW s, Goes(w, s), todo[w] # <<>>,
         hosts' = hosts, ipPacketCounts' = ipPacketCounts, counts' = counts,
         events' = events, eventIDSeq' = eventIDSeq,
         Fresh(todo[w]), Fresh(s), 0 \notin Left(w), 0 \notin Stages(s),
         1 \in Stages(s) <=> 1 \in Left(w),
         10 \in Stages(s) <=> 10 \in Left(w),
         Left(w) \cap {2, 5, 11} \subseteq Stages(s),
         3 \in Stages(s) => 3 \in Left(w) \/ 2 \in Stages(s),
         6 \in Stages(s) => 6 \in Left(w) \/ 5 \in Stages(s)
  PROVE  HostsOK' /\ StatusReasoned' /\ Announced' /\ Counting' /\ AnomaliesCounted'
<1>1. HostsOK'
  BY HostsUnchanged
<1>2. StatusReasoned'
  BY StatusReasonedByCall
<1>3. Announced'
  BY AnnouncedByCall
<1>4. counts' \in Counters
  BY DEF HostsOK, StateOK
<1>5. Counting'
  BY <1>4, CountingByOther
<1>6. todo'[w] = s /\ \A v \in Worker \ {w} : todo'[v] = todo[v]
  BY GoesOn
<1>7. AnomaliesCounted'
  BY <1>4, <1>6, AnomaliesCountedByOther
<1> QED
  BY <1>1, <1>2, <1>3, <1>5, <1>7

LEMMA ReceivePreserves ==
  ASSUME IInv, NEW w \in Worker, NEW p \in Packet, Receive(w, p)
  PROVE  IInv'
<1>1. WorkersOK /\ HostsOK
  BY DEF IInv, HostsOK
<1>2. /\ todo[w] = <<>> /\ todo'[w] = <<HostCall>> /\ packet'[w] = p
      /\ DOMAIN todo' = Worker
      /\ \A v \in Worker \ {w} : todo'[v] = todo[v] /\ packet'[v] = packet[v]
      /\ packet' \in [Worker -> Packet \cup {NoPacket}]
      /\ taken' = Append(taken, p) /\ mu' = mu
      /\ hosts' = hosts /\ ipPacketCounts' = ipPacketCounts /\ counts' = counts
      /\ events' = events /\ eventIDSeq' = eventIDSeq
  BY <1>1 DEF Receive, WorkersOK, HostCall, nsvars
<1>3. /\ Stages(<<HostCall>>) = {0} /\ Legal(p, <<HostCall>>)
      /\ Fresh(<<HostCall>>) /\ Fresh(<<>>)
  <2>1. HostCall \in CallsOf(p) /\ Stage(HostCall) = 0
    BY StageOfCall DEF CallsOf
  <2> QED
    BY <2>1, SingleIsLegal DEF First, Second, Fresh
<1>4. WorkersOK'
  <2>1. taken' \in Seq(Packet) /\ mu' \in Worker \cup {NoPacket}
    BY <1>1, <1>2 DEF WorkersOK
  <2>2. ASSUME NEW v \in Worker
        PROVE  /\ todo'[v] # <<>> => packet'[v] \in Packet /\ Legal(packet'[v], todo'[v])
               /\ 0 \in Left(v)' => todo'[v] = <<HostCall>>
               /\ todo'[v] # <<>> /\ 0 \notin Left(v)' => packet'[v].src \in DOMAIN hosts'
               /\ 4 \in Left(v)' => 5 \notin Left(v)' /\ 6 \notin Left(v)'
               /\ mu' = v => todo'[v] = <<HostCall>>
    <3>1. CASE v = w
      BY <1>1, <1>2, <1>3, <3>1 DEF WorkersOK, Left
    <3>2. CASE v # w
      BY <1>1, <1>2, <3>2 DEF WorkersOK, Left
    <3> QED
      BY <3>1, <3>2
  <2> QED
    BY <1>2, <2>1, <2>2 DEF WorkersOK
<1>5. HostsOK'
  BY <1>1, <1>2, HostsUnchanged
<1>6. StatusReasoned'
  BY <1>1, StatusReasonedByReceive DEF IInv
<1>7. Announced'
  BY <1>1, AnnouncedByReceive DEF IInv
<1>8. Counting'
  BY <1>1, CountingByReceive DEF IInv
<1>9. FlowsCounted'
  BY <1>1, FlowsCountedByReceive DEF IInv
<1>10. AnomaliesCounted'
  <2>1. counts' \in Counters
    BY <1>1, <1>2 DEF HostsOK, StateOK
  <2> QED
    BY <1>1, <1>2, <1>3, <2>1, AnomaliesCountedByOther DEF IInv
<1> QED
  BY <1>4, <1>5, <1>6, <1>7, <1>8, <1>9, <1>10 DEF IInv, HostsOK

LEMMA LockHostPreserves ==
  ASSUME IInv, NEW w \in Worker, LockHost(w)
  PROVE  IInv'
<1>1. WorkersOK /\ HostsOK
  BY DEF IInv, HostsOK
<1>2. UNCHANGED <<nsvars, flows, packet, todo, taken>> /\ mu' = w
  BY DEF LockHost
<1>3. todo[w] = <<HostCall>>
  <2>1. todo[w] # <<>> /\ Head(todo[w]).op = "RecordHostPacket"
    BY DEF LockHost, NextCallIs
  <2>2. Legal(packet[w], todo[w])
    BY <1>1, <2>1 DEF WorkersOK
  <2>3. /\ Head(todo[w]) \in CallsOf(packet[w])
        /\ Left(w) = {Stage(Head(todo[w]))} \cup Stages(Tail(todo[w]))
    BY <2>1, <2>2, TailIsLegal DEF Left
  <2>4. Stage(Head(todo[w])) = 0
    BY <2>1, <2>3, OthersCalled
  <2>5. 0 \in Left(w)
    BY <2>3, <2>4
  <2> QED
    BY <1>1, <2>5 DEF WorkersOK
<1>4. WorkersOK'
  <2>1. /\ packet' = packet /\ todo' = todo /\ taken' = taken /\ hosts' = hosts
    BY <1>2 DEF nsvars
  <2>2. \A v : Left(v)' = Left(v)
    BY <2>1 DEF Left
  <2> QED
    BY <1>1, <1>2, <1>3, <2>1, <2>2 DEF WorkersOK
<1>5. /\ HostsOK' /\ StatusReasoned' /\ Announced' /\ Counting' /\ FlowsCounted'
      /\ AnomaliesCounted'
  BY <1>1, <1>2, SameButLock DEF IInv
<1> QED
  BY <1>4, <1>5 DEF IInv, HostsOK

LEMMA UpdateHostPreserves ==
  ASSUME IInv, NEW w \in Worker, UpdateHost(w)
  PROVE  IInv'
<1>1. WorkersOK /\ HostsOK
  BY DEF IInv, HostsOK
<1>2. HostsOK' /\ WorkersOK'
  BY <1>1, HostRecorded, HostGoes DEF HostsOK, StateOK
<1>3. StatusReasoned'
  BY <1>1, StatusReasonedByUpdateHost DEF IInv
<1>4. Announced'
  BY <1>1, AnnouncedByUpdateHost DEF IInv
<1>5. Counting'
  BY <1>1, CountingByUpdateHost DEF IInv
<1>6. FlowsCounted'
  BY <1>1, FlowsCountedByUpdateHost DEF IInv
<1>7. AnomaliesCounted'
  <2> DEFINE p == packet[w]
             isNew == p.src \notin DOMAIN hosts
             s == RestOf(p, isNew)
  <2>1. p \in Packet /\ todo[w] = <<HostCall>> /\ Goes(w, s)
    BY <1>1, HostGoes DEF HostsOK, StateOK
  <2>2. Fresh(s)
    <3>1. isNew \in BOOLEAN
      OBVIOUS
    <3> HIDE DEF isNew
    <3> QED
      BY <2>1, <3>1, RestIsLegal
  <2> HIDE DEF s
  <2>3. todo'[w] = s /\ \A v \in Worker \ {w} : todo'[v] = todo[v]
    BY <1>1, <2>1, GoesOn
  <2>4. Fresh(todo[w])
    BY <2>1, StageOfCall DEF Fresh, Second
  <2>5. counts \in Counters /\ counts' \in Counters
    BY <1>1, <1>2 DEF HostsOK, StateOK
  <2>6. counts' = [counts EXCEPT !.total = @ + 1] /\ events' = events /\ eventIDSeq' = eventIDSeq
    BY <1>1, HostRecorded
  <2>7. /\ counts'.anomalies = counts.anomalies
        /\ counts'.unencrypted = counts.unencrypted /\ counts'.legacy = counts.legacy
    BY <2>5, <2>6 DEF Counters
  <2> QED
    BY <1>1, <2>2, <2>3, <2>4, <2>5, <2>6, <2>7, AnomaliesCountedByOther DEF IInv
<1> QED
  BY <1>2, <1>3, <1>4, <1>5, <1>6, <1>7 DEF IInv, HostsOK

LEMMA CheckIdentityPreserves ==
  ASSUME IInv, NEW w \in Worker, CheckIdentity(w)
  PROVE  IInv'
<1>1. WorkersOK /\ HostsOK
  BY DEF IInv, HostsOK
<1> DEFINE t == Tail(todo[w])
<1>2. PICK s : \E found \in {{}, {5, 6}} :
           /\ Goes(w, s) /\ Legal(packet[w], s) /\ Fresh(s)
           /\ Stages(s) = found \cup Stages(t)
           /\ Stage(Head(todo[w])) = 4 /\ Stages(t) \subseteq 7..12
           /\ WorkersOK'
  BY <1>1, IdentityGoes
<1>3. PICK found \in {{}, {5, 6}} :
           /\ Goes(w, s) /\ Fresh(s)
           /\ Stages(s) = found \cup Stages(t)
           /\ Stage(Head(todo[w])) = 4 /\ Stages(t) \subseteq 7..12
           /\ WorkersOK'
  BY <1>2
<1>4. /\ todo[w] # <<>> /\ Head(todo[w]).op # "RecordHostPacket"
      /\ hosts' = hosts /\ ipPacketCounts' = ipPacketCounts /\ counts' = counts
      /\ events' = events /\ eventIDSeq' = eventIDSeq /\ flows' = flows
  BY DEF CheckIdentity, NextCallIs, nsvars
<1>5. Left(w) = {4} \cup Stages(t)
  BY <1>1, <1>3, <1>4, HeadMade
<1>6. Fresh(todo[w])
  BY <1>3 DEF Fresh, Second
<1> HIDE DEF t
<1>7. /\ 0 \notin Left(w) /\ 0 \notin Stages(s)
      /\ 1 \in Stages(s) <=> 1 \in Left(w)
      /\ 10 \in Stages(s) <=> 10 \in Left(w)
      /\ 7 \in Stages(s) <=> 7 \in Left(w)
      /\ Left(w) \cap {2, 5, 11} \subseteq Stages(s)
      /\ 3 \in Stages(s) => 3 \in Left(w) \/ 2 \in Stages(s)
      /\ 6 \in Stages(s) => 6 \in Left(w) \/ 5 \in Stages(s)
  BY <1>3, <1>5
<1>8. Goes(w, s) /\ Fresh(s)
  BY <1>3
<1>9. HostsOK' /\ StatusReasoned' /\ Announced' /\ Counting' /\ AnomaliesCounted'
  BY <1>1, <1>4, <1>6, <1>7, <1>8, QuietCall DEF IInv
<1>10. FlowsCounted'
  <2>1. Stages(s) \cap {0, 7} # {} <=> Left(w) \cap {0, 7} # {}
    BY <1>7
  <2> QED
    BY <1>1, <1>4, <1>8, <2>1, FlowsCountedByCall DEF IInv
<1> QED
  BY <1>3, <1>9, <1>10 DEF IInv, HostsOK

LEMMA ReportEventPreserves ==
  ASSUME IInv, NEW w \in Worker, ReportEvent(w)
  PROVE  IInv'
<1>1. WorkersOK /\ HostsOK
  BY DEF IInv, HostsOK
<1> DEFINE n == Stage(Head(todo[w]))
           s == Tail(todo[w])
<1>2. /\ todo[w] # <<>> /\ Head(todo[w]).op # "RecordHostPacket"
      /\ Goes(w, s) /\ HostsOK' /\ WorkersOK'
  BY <1>1, EventReported
<1>3. PICK category \in CategoriesOf(packet[w]) :
        n = EventStage(category) /\ EventEffect(w, category)
  BY <1>1, EventReported
<1>4. n \in {1, 3, 6, 9, 10} /\ flows' = flows
  BY <1>3, EventAtStage DEF EventEffect
<1>5. Left(w) = {n} \cup Stages(s) /\ Stages(s) \subseteq 1..12
  BY <1>1, <1>2, HeadMade
<1>6. StatusReasoned' /\ Announced' /\ Counting' /\ AnomaliesCounted'
  BY <1>1, StatusReasonedByEvent, AnnouncedByEvent, CountingByEvent,
     AnomaliesCountedByEvent DEF IInv
<1>7. FlowsCounted'
  <2> HIDE DEF n, s
  <2>1. Stages(s) \cap {0, 7} # {} <=> Left(w) \cap {0, 7} # {}
    BY <1>4, <1>5
  <2> QED
    BY <1>1, <1>2, <1>4, <2>1, FlowsCountedByCall DEF IInv
<1> QED
  BY <1>2, <1>6, <1>7 DEF IInv, HostsOK

LEMMA ReportAnomalyPreserves ==
  ASSUME IInv, NEW w \in Worker, ReportAnomaly(w)
  PROVE  IInv'
<1>1. WorkersOK /\ HostsOK
  BY DEF IInv, HostsOK
<1> DEFINE n == Stage(Head(todo[w]))
           s == Tail(todo[w])
<1>2. /\ todo[w] # <<>> /\ Head(todo[w]).op # "RecordHostPacket"
      /\ Goes(w, s) /\ HostsOK' /\ WorkersOK'
  BY <1>1, IndicatorReported
<1>3. PICK kind \in KindsOf(packet[w]), m \in TTL :
        n = IndicatorStage(kind) /\ IndicatorEffect(w, kind, m)
  BY <1>1, IndicatorReported
<1>4. n \in {2, 5, 11}
  BY <1>3, IndicatorAtStage
<1>5. Left(w) = {n} \cup Stages(s) /\ Stages(s) \subseteq 1..12
  BY <1>1, <1>2, HeadMade
<1>6. StatusReasoned' /\ AnomaliesCounted'
  BY <1>1, StatusReasonedByIndicator, AnomaliesCountedByIndicator DEF IInv
<1>7. /\ DOMAIN hosts' = DOMAIN hosts /\ ipPacketCounts' = ipPacketCounts
      /\ \A b \in DOMAIN hosts : hosts'[b].packets = hosts[b].packets
      /\ counts' = [counts EXCEPT !.anomalies = @ + 1]
      /\ events' = events /\ eventIDSeq' = eventIDSeq /\ flows' = flows
  BY <1>3 DEF IndicatorEffect
<1> HIDE DEF n, s
<1>8. /\ 0 \notin Left(w) /\ 0 \notin Stages(s)
      /\ 1 \in Stages(s) <=> 1 \in Left(w)
      /\ 10 \in Stages(s) <=> 10 \in Left(w)
      /\ 7 \in Stages(s) <=> 7 \in Left(w)
  BY <1>4, <1>5
<1>9. Announced'
  BY <1>1, <1>2, <1>7, <1>8, AnnouncedByCall DEF IInv
<1>10. /\ counts' \in Counters /\ counts'.total = counts.total
       /\ counts'.unencrypted = counts.unencrypted /\ counts'.legacy = counts.legacy
  <2>1. counts \in Counters /\ counts' \in Counters
    BY <1>1, <1>2 DEF HostsOK, StateOK
  <2> QED
    BY <1>7, <2>1 DEF Counters
<1>11. Counting'
  BY <1>1, <1>2, <1>7, <1>8, <1>10, CountingByOther DEF IInv
<1>12. FlowsCounted'
  <2>1. Stages(s) \cap {0, 7} # {} <=> Left(w) \cap {0, 7} # {}
    BY <1>8
  <2> QED
    BY <1>1, <1>2, <1>7, <2>1, FlowsCountedByCall DEF IInv
<1> QED
  BY <1>2, <1>6, <1>9, <1>11, <1>12 DEF IInv, HostsOK

(* A call outside the findings that only the tracker or the chart of the   *)
(* protocols sees.                                                         *)
LEMMA QuietHeadMade ==
  ASSUME IInv, NEW w \in Worker, todo[w] # <<>>,
         Head(todo[w]).op # "RecordHostPacket", Made(w, <<>>),
         Stage(Head(todo[w])) \in {7, 8, 12}, mu' = mu,
         hosts' = hosts, ipPacketCounts' = ipPacketCounts, counts' = counts,
         events' = events, eventIDSeq' = eventIDSeq
  PROVE  /\ Goes(w, Tail(todo[w])) /\ WorkersOK' /\ HostsOK'
         /\ StatusReasoned' /\ Announced' /\ Counting' /\ AnomaliesCounted'
<1>1. WorkersOK /\ HostsOK
  BY DEF IInv, HostsOK
<1> DEFINE n == Stage(Head(todo[w]))
           s == Tail(todo[w])
<1>2. Goes(w, s) /\ WorkersOK'
  BY <1>1, OneCallMade
<1>3. /\ Left(w) = {n} \cup Stages(s) /\ Stages(s) \subseteq 1..12
      /\ \A m \in Stages(s) : n < m \/ (n = 9 /\ m = 9)
  BY <1>1, HeadMade
<1>4. Fresh(todo[w])
  BY DEF Fresh, Second
<1>5. Fresh(s)
  <2>1. s # <<>> /\ Stage(Head(s)) \in Second => n = Stage(Head(s)) - 1
    BY <1>1, NextCall
  <2> QED
    BY <2>1 DEF Fresh, Second
<1>6. n \in {7, 8, 12}
  OBVIOUS
<1> HIDE DEF n, s
<1>7. /\ 0 \notin Left(w) /\ 0 \notin Stages(s)
      /\ 1 \in Stages(s) <=> 1 \in Left(w)
      /\ 10 \in Stages(s) <=> 10 \in Left(w)
      /\ Left(w) \cap {2, 5, 11} \subseteq Stages(s)
      /\ 3 \in Stages(s) => 3 \in Left(w) \/ 2 \in Stages(s)
      /\ 6 \in Stages(s) => 6 \in Left(w) \/ 5 \in Stages(s)
  BY <1>3, <1>6
<1>8. HostsOK' /\ StatusReasoned' /\ Announced' /\ Counting' /\ AnomaliesCounted'
  BY <1>1, <1>2, <1>4, <1>5, <1>7, QuietCall DEF IInv
<1> QED
  BY <1>2, <1>8 DEF s

LEMMA CountProtocolPreserves ==
  ASSUME IInv, NEW w \in Worker, CountProtocol(w)
  PROVE  IInv'
<1>1. WorkersOK /\ HostsOK
  BY DEF IInv, HostsOK
<1> DEFINE n == Stage(Head(todo[w]))
           s == Tail(todo[w])
<1>2. /\ todo[w] # <<>> /\ Head(todo[w]).op = "IncrementProtocol" /\ Made(w, <<>>)
      /\ mu' = mu /\ flows' = flows
      /\ hosts' = hosts /\ ipPacketCounts' = ipPacketCounts /\ counts' = counts
      /\ events' = events /\ eventIDSeq' = eventIDSeq
  BY DEF CountProtocol, NextCallIs, IncrementProtocol
<1>3. n \in {8, 12}
  <2>1. Head(todo[w]) \in CallsOf(packet[w])
    BY <1>1, <1>2, NextCall
  <2> QED
    BY <1>2, <2>1, OthersCalled
<1>4. /\ Goes(w, s) /\ WorkersOK' /\ HostsOK'
      /\ StatusReasoned' /\ Announced' /\ Counting' /\ AnomaliesCounted'
  BY <1>2, <1>3, QuietHeadMade
<1>5. Left(w) = {n} \cup Stages(s)
  BY <1>1, <1>2, HeadMade
<1>6. FlowsCounted'
  <2> HIDE DEF n, s
  <2>1. Stages(s) \cap {0, 7} # {} <=> Left(w) \cap {0, 7} # {}
    BY <1>3, <1>5
  <2> QED
    BY <1>1, <1>2, <1>4, <2>1, FlowsCountedByCall DEF IInv
<1> QED
  BY <1>4, <1>6 DEF IInv, HostsOK

LEMMA TrackFlowPreserves ==
  ASSUME IInv, NEW w \in Worker, TrackFlow(w)
  PROVE  IInv'
<1>1. WorkersOK /\ HostsOK
  BY DEF IInv, HostsOK
<1>2. /\ todo[w] # <<>> /\ Head(todo[w]).op = "RecordPacket" /\ Made(w, <<>>)
      /\ mu' = mu
      /\ hosts' = hosts /\ ipPacketCounts' = ipPacketCounts /\ counts' = counts
      /\ events' = events /\ eventIDSeq' = eventIDSeq
  BY DEF TrackFlow, NextCallIs, nsvars
<1>3. Stage(Head(todo[w])) = 7
  <2>1. Head(todo[w]) \in CallsOf(packet[w])
    BY <1>1, <1>2, NextCall
  <2> QED
    BY <1>2, <2>1, OthersCalled
<1>4. /\ Goes(w, Tail(todo[w])) /\ WorkersOK' /\ HostsOK'
      /\ StatusReasoned' /\ Announced' /\ Counting' /\ AnomaliesCounted'
  BY <1>2, <1>3, QuietHeadMade
<1>5. FlowsCounted'
  BY <1>1, <1>4, FlowsCountedByTrack DEF IInv
<1> QED
  BY <1>4, <1>5 DEF IInv, HostsOK

LEMMA StutteringPreserves ==
  ASSUME IInv, UNCHANGED vars
  PROVE  IInv'
<1>1. WorkersOK /\ HostsOK
  BY DEF IInv, HostsOK
<1>2. UNCHANGED <<nsvars, flows, packet, todo, taken>> /\ mu' = mu
  BY DEF vars
<1>3. WorkersOK'
  <2>1. packet' = packet /\ todo' = todo /\ taken' = taken /\ hosts' = hosts
    BY <1>2 DEF nsvars
  <2>2. \A v : Left(v)' = Left(v)
    BY <2>1 DEF Left
  <2> QED
    BY <1>1, <1>2, <2>1, <2>2 DEF WorkersOK
<1>4. /\ HostsOK' /\ StatusReasoned' /\ Announced' /\ Counting' /\ FlowsCounted'
      /\ AnomaliesCounted'
  BY <1>1, <1>2, SameButLock DEF IInv
<1> QED
  BY <1>3, <1>4 DEF IInv, HostsOK

-----------------------------------------------------------------------------
LEMMA InitEstablishes ==
  ASSUME Init
  PROVE  IInv
<1>1. /\ hosts = [a \in {} |-> {}] /\ ipPacketCounts = [a \in {} |-> 0]
      /\ DOMAIN hosts = {} /\ DOMAIN ipPacketCounts = {}
      /\ events = <<>> /\ eventIDSeq = 0 /\ counts \in Counters
      /\ counts.total = 0 /\ counts.unencrypted = 0 /\ counts.legacy = 0
      /\ counts.anomalies = 0
  BY DEF Init, NSInit, Counters
<1>2. /\ flows = [k \in {} |-> {}] /\ DOMAIN flows = {} /\ mu = NoPacket
      /\ packet = [w \in Worker |-> NoPacket] /\ todo = [w \in Worker |-> <<>>]
      /\ taken = <<>>
  BY DEF Init
<1>3. \A w \in Worker : Left(w) = {} /\ todo[w] = <<>>
  BY <1>2, EmptyIsLegal DEF Left
<1>4. WorkersOK
  BY <1>2, <1>3, PacketAuditAssumption DEF WorkersOK
<1>5. IsFiniteSet({}) /\ Cardinality({}) = 0
  BY FS_EmptySet
<1>6. StateOK
  BY <1>1, <1>5 DEF StateOK
<1>7. RingComplete
  BY <1>1 DEF RingComplete
<1>8. FingerprintIsCurrent /\ StatusReasoned /\ IndicatorsOnce
  BY <1>1 DEF FingerprintIsCurrent, StatusReasoned, IndicatorsOnce
<1>9. Announced
  <2>1. \A a : News(a) = {} /\ Announcing(a) = {}
    BY <1>1, <1>3 DEF News, Announcing
  <2> QED
    BY <1>1, <2>1 DEF Announced
<1>10. ASSUME NEW S, NEW n
       PROVE  Balance(0, S, n)
  <2>1. Owing(S, n) = {} /\ ReceivedIn(S) = {}
    BY <1>2, <1>3 DEF Owing, ReceivedIn
  <2> QED
    BY <1>5, <2>1 DEF Balance
<1>11. \A f : DOMAIN f = {} => Units(f) = {}
  BY DEF Units
<1>12. Counting
  <2>1. HostUnits = {}
    BY <1>1, <1>11 DEF HostUnits
  <2> QED
    BY <1>1, <1>5, <1>10, <2>1 DEF Counting
<1>13. FlowsCounted
  <2>1. FlowUnits = {}
    BY <1>2, <1>11 DEF FlowUnits
  <2> QED
    BY <1>2, <1>5, <1>10, <2>1 DEF FlowsCounted
<1>14. AnomaliesCounted
  <2>1. Ahead = {} /\ Behind = {} /\ TwiceCounted = {}
    BY <1>1, <1>3 DEF Ahead, Behind, TwiceCounted, Logged
  <2> QED
    BY <1>1, <1>5, <2>1 DEF AnomaliesCounted
<1> QED
  BY <1>4, <1>6, <1>7, <1>8, <1>9, <1>12, <1>13, <1>14 DEF IInv

LEMMA NextPreserves ==
  ASSUME IInv, [Next]_vars
  PROVE  IInv'
<1>1. ASSUME NEW w \in Worker, NEW p \in Packet, Receive(w, p) PROVE IInv'
  BY <1>1, ReceivePreserves
<1>2. ASSUME NEW w \in Worker, LockHost(w) PROVE IInv'
  BY <1>2, LockHostPreserves
<1>3. ASSUME NEW w \in Worker, UpdateHost(w) PROVE IInv'
  BY <1>3, UpdateHostPreserves
<1>4. ASSUME NEW w \in Worker, CheckIdentity(w) PROVE IInv'
  BY <1>4, CheckIdentityPreserves
<1>5. ASSUME NEW w \in Worker, ReportEvent(w) PROVE IInv'
  BY <1>5, ReportEventPreserves
<1>6. ASSUME NEW w \in Worker, ReportAnomaly(w) PROVE IInv'
  BY <1>6, ReportAnomalyPreserves
<1>7. ASSUME NEW w \in Worker, CountProtocol(w) PROVE IInv'
  BY <1>7, CountProtocolPreserves
<1>8. ASSUME NEW w \in Worker, TrackFlow(w) PROVE IInv'
  BY <1>8, TrackFlowPreserves
<1>9. CASE UNCHANGED vars
  BY <1>9, StutteringPreserves
<1> QED
  BY <1>1, <1>2, <1>3, <1>4, <1>5, <1>6, <1>7, <1>8, <1>9 DEF Next

(* What the workers owe to the shared state, and the shared state to them, *)
(* is an invariant.                                                        *)
THEOREM InductiveInvariant == Spec => []IInv
<1>1. Init => IInv
  BY InitEstablishes
<1>2. IInv /\ [Next]_vars => IInv'
  BY NextPreserves
<1> QED
  BY <1>1, <1>2, PTL DEF Spec

-----------------------------------------------------------------------------
(* What follows from it.                                                   *)

(* The fingerprint and the vendor of a host belong to its TTL and to its   *)
(* MAC address whenever s.mu is free (RecordHostPacket).                   *)
THEOREM FingerprintsAreCurrent == Spec => []FingerprintIsCurrent
<1>1. IInv => FingerprintIsCurrent
  BY DEF IInv
<1> QED
  BY <1>1, InductiveInvariant, PTL

LEMMA StatusRises ==
  ASSUME IInv, [Next]_vars, NEW a \in DOMAIN hosts
  PROVE  a \in DOMAIN hosts' /\ Rank(hosts'[a].status) >= Rank(hosts[a].status)
<1>1. WorkersOK /\ HostsOK
  BY DEF IInv, HostsOK
<1>2. Rank(hosts[a].status) \in Int
  BY DEF Rank
<1>3. CASE hosts' = hosts
  BY <1>2, <1>3
<1>4. ASSUME NEW w \in Worker, UpdateHost(w)
      PROVE  a \in DOMAIN hosts' /\ Rank(hosts'[a].status) >= Rank(hosts[a].status)
  <2>1. Kept(a) /\ DOMAIN hosts' = DOMAIN hosts \cup {packet[w].src}
    BY <1>1, <1>4, HostRecorded
  <2> QED
    BY <1>2, <2>1 DEF Kept
<1>5. ASSUME NEW w \in Worker, ReportEvent(w)
      PROVE  a \in DOMAIN hosts' /\ Rank(hosts'[a].status) >= Rank(hosts[a].status)
  <2>1. Rank(hosts'[a].status) >= Rank(hosts[a].status)
    BY <1>1, <1>5, EventReported
  <2> QED
    BY <1>5, <2>1 DEF ReportEvent, AddEvent
<1>6. ASSUME NEW w \in Worker, ReportAnomaly(w)
      PROVE  a \in DOMAIN hosts' /\ Rank(hosts'[a].status) >= Rank(hosts[a].status)
  <2>1. Rank(hosts'[a].status) >= Rank(hosts[a].status)
    BY <1>1, <1>6, IndicatorReported
  <2> QED
    BY <1>6, <2>1 DEF ReportAnomaly, AddAnomaly
<1>7. ASSUME NEW w \in Worker,
             \/ \E p \in Packet : Receive(w, p)
             \/ LockHost(w) \/ CheckIdentity(w) \/ CountProtocol(w) \/ TrackFlow(w)
      PROVE  hosts' = hosts
  BY <1>7 DEF Receive, LockHost, CheckIdentity, CountProtocol, TrackFlow, nsvars,
              IncrementProtocol
<1>8. CASE UNCHANGED vars
  BY <1>3, <1>8 DEF vars, nsvars
<1> QED
  BY <1>3, <1>4, <1>5, <1>6, <1>7, <1>8 DEF Next

(* No step of any worker lowers the status of a host or forgets the host:  *)
(* there is no way back from an alert (AddEvent, AddAnomaly).              *)
THEOREM StatusesOnlyRise == Spec => StatusNeverLowered
<1>1. IInv /\ [Next]_vars =>
        [\A a \in DOMAIN hosts : /\ a \in DOMAIN hosts'
                                /\ Rank(hosts'[a].status) >= Rank(hosts[a].status)]_vars
  BY StatusRises
<1> QED
  BY <1>1, InductiveInvariant, PTL DEF Spec, StatusNeverLowered

LEMMA NothingLeftAtRest ==
  ASSUME WorkersOK, AtRest
  PROVE  \A w \in Worker : todo[w] = <<>> /\ Left(w) = {}
BY EmptyIsLegal DEF AtRest, Left

LEMMA StatusExplained ==
  ASSUME IInv
  PROVE  StatusIsExplained
<1>1. WorkersOK /\ HostsOK /\ StatusReasoned
  BY DEF IInv, HostsOK
<1> SUFFICES ASSUME NEW a \in DOMAIN hosts
             PROVE  LET ranks == {RankOf(x) : x \in ToSet(hosts[a].anomalies)} \cup {0}
                    IN  /\ Rank(hosts[a].status) >= Max(ranks)
                        /\ AtRest => Rank(hosts[a].status) = Max(ranks)
  BY DEF StatusIsExplained
<1> DEFINE ranks == {RankOf(x) : x \in ToSet(hosts[a].anomalies)} \cup {0}
           r == Rank(hosts[a].status)
<1>2. ranks \subseteq {0, 1, 2} /\ 0 \in ranks /\ r \in {0, 1, 2}
  BY DEF RankOf, Rank
<1>3. \A n \in ranks : r >= n
  BY <1>1, <1>2 DEF StatusReasoned, Reasoned
<1>4. ASSUME AtRest PROVE r \in ranks
  <2>1. \A w \in Worker, m \in {1, 2} : ~WillList(w, m)
    BY <1>1, <1>4, NothingLeftAtRest DEF WillList
  <2>2. \A m \in {1, 2} : r = m => Listed(a, m)
    BY <1>1, <2>1 DEF StatusReasoned, Reasoned
  <2>3. \A m \in {1, 2} : Listed(a, m) => m \in ranks
    BY DEF Listed
  <2> QED
    BY <1>2, <2>2, <2>3
<1> HIDE DEF ranks, r
<1>5. \E m \in ranks : \A n \in ranks : m >= n
  <2>1. CASE 2 \in ranks
    BY <1>2, <2>1
  <2>2. CASE 2 \notin ranks /\ 1 \in ranks
    BY <1>2, <2>2
  <2>3. CASE 2 \notin ranks /\ 1 \notin ranks
    BY <1>2, <2>3
  <2> QED
    BY <2>1, <2>2, <2>3
<1>6. Max(ranks) \in ranks /\ \A n \in ranks : Max(ranks) >= n
  BY <1>5 DEF Max
<1>7. r >= Max(ranks)
  BY <1>3, <1>6
<1>8. ASSUME AtRest PROVE r = Max(ranks)
  <2>1. Max(ranks) >= r
    BY <1>4, <1>6, <1>8
  <2>2. Max(ranks) \in {0, 1, 2}
    BY <1>2, <1>6
  <2> HIDE DEF Max
  <2> QED
    BY <1>2, <1>7, <2>1, <2>2
<1> QED
  BY <1>7, <1>8 DEF ranks, r

(* The status of a host is never better than its worst indicator, and when *)
(* no packet is being processed it is that of its worst indicator,         *)
(* whatever the order in which the workers log, list and raise             *)
(* (AddEvent, AddAnomaly).                                                 *)
THEOREM StatusesAreExplained == Spec => []StatusIsExplained
<1>1. IInv => StatusIsExplained
  BY StatusExplained
<1> QED
  BY <1>1, InductiveInvariant, PTL

LEMMA ListedOnce ==
  ASSUME IInv
  PROVE  ListedAndAnnouncedOnce
<1>1. WorkersOK /\ HostsOK /\ Announced
  BY DEF IInv, HostsOK
<1> SUFFICES ASSUME NEW a \in DOMAIN hosts
             PROVE  LET news == {i \in Logged("NEW_HOST") : events[i].event.source = a}
                    IN  /\ IsInjective(hosts[a].anomalies)
                        /\ eventIDSeq <= maxEvents =>
                             /\ Cardinality(news) <= 1
                             /\ AtRest => Cardinality(news) = 1
  BY DEF ListedAndAnnouncedOnce
<1> DEFINE news == {i \in Logged("NEW_HOST") : events[i].event.source = a}
<1>2. news = News(a)
  BY DEF News, Logged
<1>3. IsInjective(hosts[a].anomalies) /\ a \in Address
  BY <1>1, HostIsKnown
<1>4. ASSUME eventIDSeq <= maxEvents
      PROVE  Cardinality(news) <= 1 /\ (AtRest => Cardinality(news) = 1)
  <2>1. /\ \A i, j \in news : i = j
        /\ news \cup Announcing(a) # {}
    BY <1>1, <1>2, <1>3, <1>4 DEF Announced
  <2>2. AtRest => Announcing(a) = {}
    BY <1>1, NothingLeftAtRest DEF Announcing
  <2> HIDE DEF news
  <2>3. CASE news = {}
    <3>1. Cardinality(news) = 0
      BY <2>3, FS_EmptySet
    <3> QED
      BY <2>1, <2>2, <2>3, <3>1
  <2>4. CASE news # {}
    <3>1. PICK i \in news : news = {i}
      BY <2>1, <2>4
    <3>2. Cardinality(news) = 1
      BY <3>1, FS_Singleton
    <3> QED
      BY <3>2
  <2> QED
    BY <2>3, <2>4
<1> QED
  BY <1>3, <1>4

(* No two workers list an indicator twice or announce a host twice, and a  *)
(* known host was announced once its packets are processed, as long as the *)
(* ring of events has lost nothing (AddAnomaly, RecordHostPacket).         *)
THEOREM IndicatorsAndHostsOnce == Spec => []ListedAndAnnouncedOnce
<1>1. IInv => ListedAndAnnouncedOnce
  BY ListedOnce
<1> QED
  BY <1>1, InductiveInvariant, PTL

LEMMA SettledAtRest ==
  ASSUME WorkersOK, AtRest, NEW S, NEW n, NEW count \in Int, Balance(count, S, n)
  PROVE  count = Cardinality({i \in DOMAIN taken : taken[i] \in S})
<1>1. Owing(S, n) = {}
  BY NothingLeftAtRest DEF Owing
<1>2. Cardinality(Owing(S, n)) = 0
  BY <1>1, FS_EmptySet
<1> QED
  BY <1>2 DEF Balance, ReceivedIn

LEMMA EveryPacketAudited ==
  ASSUME IInv
  PROVE  EveryPacketIsAudited
<1>1. WorkersOK /\ HostsOK /\ Counting /\ FlowsCounted
  BY DEF IInv, HostsOK
<1>2. PacketCountsAgree
  BY <1>1 DEF PacketCountsAgree, Counting, HostUnits
<1>3. /\ taken \in Seq(Packet) /\ DOMAIN taken = 1..Len(taken) /\ Len(taken) \in Nat
      /\ \A i \in DOMAIN taken : taken[i] \in Packet
  BY <1>1 DEF WorkersOK
<1>4. /\ counts.total \in Int /\ counts.unencrypted \in Int /\ counts.legacy \in Int
  BY <1>1 DEF HostsOK, StateOK, Counters
<1>5. SUFFICES ASSUME AtRest
               PROVE  /\ counts.total = Len(taken)
                      /\ counts.unencrypted = Received(IsCleartext)
                      /\ counts.legacy = Received(IsLegacy)
                      /\ Cardinality(DOMAIN flows) < CT!maxFlows =>
                           Cardinality(FlowUnits) = Received(IsTransport)
  BY <1>2 DEF EveryPacketIsAudited, IsCleartext, IsLegacy, IsTransport, FlowUnits, Received,
              Quantify
<1>6. counts.total = Len(taken)
  <2>1. counts.total = Cardinality({i \in DOMAIN taken : taken[i] \in Packet})
    BY <1>1, <1>4, <1>5, SettledAtRest DEF Counting
  <2>2. {i \in DOMAIN taken : taken[i] \in Packet} = 1..Len(taken)
    BY <1>3
  <2>3. Cardinality(1..Len(taken)) = Len(taken)
    BY <1>3, FS_Interval
  <2> QED
    BY <2>1, <2>2, <2>3
<1>7. counts.unencrypted = Received(IsCleartext)
  <2>1. counts.unencrypted = Cardinality({i \in DOMAIN taken : taken[i] \in CleartextPackets})
    BY <1>1, <1>4, <1>5, SettledAtRest DEF Counting
  <2>2. {i \in DOMAIN taken : taken[i] \in CleartextPackets}
          = {i \in DOMAIN taken : IsCleartext(taken[i])}
    BY <1>3 DEF CleartextPackets
  <2> QED
    BY <2>1, <2>2 DEF Received, Quantify
<1>8. counts.legacy = Received(IsLegacy)
  <2>1. counts.legacy = Cardinality({i \in DOMAIN taken : taken[i] \in LegacyPackets})
    BY <1>1, <1>4, <1>5, SettledAtRest DEF Counting
  <2>2. {i \in DOMAIN taken : taken[i] \in LegacyPackets}
          = {i \in DOMAIN taken : IsLegacy(taken[i])}
    BY <1>3 DEF LegacyPackets
  <2> QED
    BY <2>1, <2>2 DEF Received, Quantify
<1>9. ASSUME Cardinality(DOMAIN flows) < CT!maxFlows
      PROVE  Cardinality(FlowUnits) = Received(IsTransport)
  <2>1. Cardinality(FlowUnits) \in Int /\ Balance(Cardinality(FlowUnits), TransportPackets, 7)
    BY <1>1, <1>9, FlowUnitsAreFinite
  <2>2. Cardinality(FlowUnits)
          = Cardinality({i \in DOMAIN taken : taken[i] \in TransportPackets})
    BY <1>1, <1>5, <2>1, SettledAtRest
  <2>3. {i \in DOMAIN taken : taken[i] \in TransportPackets}
          = {i \in DOMAIN taken : IsTransport(taken[i])}
    BY <1>3 DEF TransportPackets
  <2> QED
    BY <2>2, <2>3 DEF Received, Quantify
<1> QED
  BY <1>6, <1>7, <1>8, <1>9

(* When no packet is being processed every packet received was counted     *)
(* once by everything that counts it, whichever worker took it: by the     *)
(* banner, by the inventory and, as long as the table of flows has room,   *)
(* by the flows (processPacket).                                           *)
THEOREM PacketsAreAudited == Spec => []EveryPacketIsAudited
<1>1. IInv => EveryPacketIsAudited
  BY EveryPacketAudited
<1> QED
  BY <1>1, InductiveInvariant, PTL

LEMMA AnomaliesAccounted ==
  ASSUME IInv
  PROVE  AnomaliesAccountedFor
<1>1. WorkersOK /\ HostsOK /\ AnomaliesCounted
  BY DEF IInv, HostsOK
<1>2. SUFFICES ASSUME AtRest, eventIDSeq <= maxEvents
               PROVE  counts.anomalies = counts.unencrypted + counts.legacy
                        + 2 * Cardinality(TwiceCounted)
  BY DEF AnomaliesAccountedFor, TwiceCounted
<1>3. Ahead = {} /\ Behind = {}
  BY <1>2 DEF AtRest, Ahead, Behind
<1>4. Cardinality(Ahead) = 0 /\ Cardinality(Behind) = 0
  BY <1>3, FS_EmptySet
<1>5. /\ counts.anomalies \in Nat /\ counts.unencrypted \in Nat /\ counts.legacy \in Nat
  BY <1>1 DEF HostsOK, StateOK, Counters
<1>6. Cardinality(TwiceCounted) \in Nat
  BY <1>1, TwiceCountedIsFinite, FS_CardinalityType
<1> QED
  BY <1>1, <1>2, <1>4, <1>5, <1>6 DEF AnomaliesCounted

(* The anomaly counter is what the log and the other counters say: a TTL   *)
(* or an identity finding moves it twice, the others once (AddAnomaly,     *)
(* AddEvent).                                                              *)
THEOREM AnomaliesAreAccountedFor == Spec => []AnomaliesAccountedFor
<1>1. IInv => AnomaliesAccountedFor
  BY AnomaliesAccounted
<1> QED
  BY <1>1, InductiveInvariant, PTL
=============================================================================
